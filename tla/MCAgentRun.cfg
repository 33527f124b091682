SPECIFICATION Spec
CONSTANTS
    Invocations <- MCInvocations
    Codes <- MCCodes
    HookKeys <- MCHookKeys
    MaxInterrupts = 2
INVARIANT AgentIsHardened
INVARIANT AgentNotAbandoned
INVARIANT SuccessIsReal
PROPERTY FirstInterruptArrives
PROPERTY EndsWithAgent
CHECK_DEADLOCK FALSE
