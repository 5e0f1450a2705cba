CONSTANTS
    MtregInputs <- MCMtregInputs
    I2cOutcomes <- MCI2cFaulty
    MaxCalls = 5

SPECIFICATION Spec

\* The caller stops after MaxCalls calls; the driver has no task of its own.
CHECK_DEADLOCK FALSE

INVARIANT TypeOK
INVARIANT MtregSync
