\* A fault that ClearFaults() puts ENABLED over.
CONSTANTS
    MaxResets = 2
    TopicDepth = 2
SPECIFICATION Spec
INVARIANTS
    ActiveErrorIsReported
