SPECIFICATION MCSpec
CONSTANTS
    Absent = Absent
    Undefined = Undefined
    WriteCalls <- MCWriteCalls
    CoilWriteCalls <- MCCoilWriteCalls
    ReadCalls <- MCReadCalls
    CoilReadCalls <- MCCoilReadCalls
    NativeErrors <- MCNativeErrors
    Overrides <- MCOverrides
CHECK_DEADLOCK FALSE
INVARIANTS PlansWriteTheLatest PlansAreShortest OnlyTransientErrorsAreRetried PresetsKeepTheirTuning DelaysFollowTheCurve RulesSeeThroughAliases
