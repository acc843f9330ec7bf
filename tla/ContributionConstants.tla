----------------------- MODULE ContributionConstants -----------------------
(***************************************************************************)
(* The three constants by which the default policy weighs references, time *)
(* and size, and the setters that adjust them.  The constants are exact    *)
(* fractions <<numerator, denominator>>, or NaN: rounding is left out, the *)
(* division of zero by zero is not.                                        *)
(***************************************************************************)
EXTENDS Integers

CONSTANTS
    Proportions,     \* the arguments with which the program calls the setters
    MaxDenominator,  \* bound on the denominators of the constants
    NaN

\* A fraction has a positive denominator.
Fractions == Int \X (Nat \ {0})

ASSUME ProportionAssumption == Proportions \subseteq Fractions /\ NaN \notin Fractions

VARIABLES
    time, size, reference   \* the contribution constants

vars == <<time, size, reference>>

-----------------------------------------------------------------------------
(* Fractions, in lowest terms.                                             *)

Reduced(n, d) ==
    LET common == {g \in 1..d : n % g = 0 /\ d % g = 0}
        g == CHOOSE h \in common : \A i \in common : i <= h
    IN  <<n \div g, d \div g>>

Zero == <<0, 1>>
One == <<1, 1>>

Plus(x, y) == IF NaN \in {x, y} THEN NaN ELSE Reduced(x[1] * y[2] + y[1] * x[2], x[2] * y[2])
Minus(x, y) == IF NaN \in {x, y} THEN NaN ELSE Reduced(x[1] * y[2] - y[1] * x[2], x[2] * y[2])
Times(x, y) == IF NaN \in {x, y} THEN NaN ELSE Reduced(x[1] * y[1], x[2] * y[2])
DividedBy(x, y) ==
    IF NaN \in {x, y} \/ y = Zero THEN NaN ELSE Reduced(x[1] * y[2], x[2] * y[1])

\* From nothing to the whole.
InRange(x) == 0 <= x[1] /\ x[1] <= x[2]

-----------------------------------------------------------------------------

Init == time = <<1, 3>> /\ size = <<1, 3>> /\ reference = <<1, 3>>

\* What the constant x becomes, beside y, when the third one is set to c: the two
\* keep their proportion and share what c leaves.
ShareKept(x, y, c) == DividedBy(x, Plus(x, y))
ShareEqual(x, y, c) == Times(<<1, 2>>, Minus(One, c))
Share(x, y, c) == Times(DividedBy(x, Plus(x, y)), Minus(One, c))

\* The setters of one constant; out of range, they throw and change nothing.
SetTimeContributionConstant(c) ==
    /\ InRange(c)
    /\ time' = c
    /\ size' = Share(size, reference, c)
    /\ reference' = Share(reference, size, c)

SetSizeContributionConstant(c) ==
    /\ InRange(c)
    /\ size' = c
    /\ time' = Share(time, reference, c)
    /\ reference' = Share(reference, time, c)

SetReferenceContributionConstant(c) ==
    /\ InRange(c)
    /\ reference' = c
    /\ time' = Share(time, size, c)
    /\ size' = Share(size, time, c)

\* The setters of two constants leave the rest to the third.
Rest(c, d) == Minus(One, Plus(c, d))

SetReferenceAndTimeContributionConstant(refC, timeC) ==
    /\ InRange(refC) /\ InRange(timeC) /\ InRange(Plus(refC, timeC))
    /\ reference' = refC /\ time' = timeC /\ size' = Rest(timeC, refC)

SetReferenceAndSizeContributionConstant(refC, sizeC) ==
    /\ InRange(refC) /\ InRange(sizeC) /\ InRange(Plus(refC, sizeC))
    /\ reference' = refC /\ size' = sizeC /\ time' = Rest(sizeC, refC)

SetTimeAndSizeContributionConstant(timeC, sizeC) ==
    /\ InRange(timeC) /\ InRange(sizeC) /\ InRange(Plus(timeC, sizeC))
    /\ time' = timeC /\ size' = sizeC /\ reference' = Rest(sizeC, timeC)

SetOne(c) ==
    \/ SetTimeContributionConstant(c) \/ SetSizeContributionConstant(c)
    \/ SetReferenceContributionConstant(c)

SetTwo(c, d) ==
    \/ SetReferenceAndTimeContributionConstant(c, d)
    \/ SetReferenceAndSizeContributionConstant(c, d)
    \/ SetTimeAndSizeContributionConstant(c, d)

Next ==
    /\ (\E c \in Proportions : SetOne(c)) \/ (\E c, d \in Proportions : SetTwo(c, d))
    /\ \A w \in {time', size', reference'} \ {NaN} : w[2] <= MaxDenominator

Spec == Init /\ [][Next]_vars

-----------------------------------------------------------------------------
(* Properties.                                                             *)

LessThanWhole(x) == x[1] < x[2]

SumsToOne ==
    /\ NaN \notin {time, size, reference}
    /\ Plus(time, Plus(size, reference)) = One
    /\ \A w \in {time, size, reference} : w[1] >= 0

\* The constants are proportions of one whole to begin with, and every setter of
\* two leaves them so.  A setter of one does ("adjusts the other two constants so
\* that the sum of all three constants is 1") exactly if they were and the
\* constant it sets was not the whole: otherwise the other two are zero divided
\* by zero, NaN as every priority is from then on, until two are set.
SumIsOne ==
    /\ SumsToOne
    /\ [][\A c \in Proportions :
             /\ (\E d \in Proportions : SetTwo(c, d)) => SumsToOne'
             /\ SetTimeContributionConstant(c) =>
                    (SumsToOne' <=> SumsToOne /\ LessThanWhole(time))
             /\ SetSizeContributionConstant(c) =>
                    (SumsToOne' <=> SumsToOne /\ LessThanWhole(size))
             /\ SetReferenceContributionConstant(c) =>
                    (SumsToOne' <=> SumsToOne /\ LessThanWhole(reference))]_vars

\* Setting one constant keeps the proportion of the other two, as long as they are
\* numbers, also when one of them is zero and when nothing is left for either.
ProportionKept ==
    [][\A c \in Proportions :
          /\ SetTimeContributionConstant(c) => Times(size, reference') = Times(size', reference)
          /\ SetSizeContributionConstant(c) => Times(time, reference') = Times(time', reference)
          /\ SetReferenceContributionConstant(c) => Times(time, size') = Times(time', size)]_vars
=============================================================================
