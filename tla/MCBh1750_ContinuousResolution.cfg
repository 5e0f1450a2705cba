CONSTANTS
    MtregInputs <- MCMtregInputs
    I2cOutcomes <- MCI2cReliable
    MaxCalls = 3

SPECIFICATION Spec

\* The caller stops after MaxCalls calls; the driver has no task of its own.
CHECK_DEADLOCK FALSE

INVARIANT ContinuousResolutionFaithful
