SPECIFICATION Spec
CONSTANTS
    Proportions <- MCProportions
    MaxDenominator = 12
    NaN = NaN
PROPERTIES
    SumIsOne ProportionKept
