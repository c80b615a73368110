CONSTANTS
    MaxBytes <- MCMaxBytes
    Room = 1
    Timeout = 2
SPECIFICATION Spec
PROPERTIES
    TimeoutMeansIdle
