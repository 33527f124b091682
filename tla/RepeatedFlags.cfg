SPECIFICATION Spec
CONSTANTS
    Invocations <- MCInvocations
    Codes <- MCCodes
    HookKeys <- MCHookKeys
    MaxInterrupts = 2
INVARIANT RefusedModesNeverStart
CHECK_DEADLOCK FALSE
