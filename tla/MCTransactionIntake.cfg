\* Two workers on two rows of one transaction, with any of the contents; the wait
\* after two retries is capped.
CONSTANTS
    t1 = t1  s1 = s1  w1 = w1  w2 = w2
    Transactions = {t1}
    Stores = {s1}
    Workers = {w1, w2}
    MaxRetries = 2
    MaxBackoff = 3
    MaxEntries = 2
    Contents <- MCContents
SPECIFICATION IntakeSpec
INVARIANTS OneOpenEntry RetryBudget GameTrafficKept DecodesExactly
PROPERTIES LeastCountGrows
SYMMETRY Symmetry
