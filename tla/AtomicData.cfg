\* The three tests with the numbers of the code (9), four threads instead of 500.
CONSTANTS
    None = None
    main = main
    helper = w1
    bystander = bystander
    Workers = {w1, w2, w3, w4}
    max_number = 9
SPECIFICATION Spec
INVARIANTS TakeTurns TimeoutIsTruthful
PROPERTIES TestsEnd
