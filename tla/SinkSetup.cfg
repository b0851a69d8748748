CONSTANTS
    Components = {"video_decode", "video_render", "video_clock", "video_scheduler", "audio_render", "audio_clock", "audio_render again", "audio_clock again"}
    Ports <- SinkPorts
    ClientOf <- SinkClientOf
    InputPort <- SinkInputPort
    OutputPort <- SinkOutputPort
    None = None
    NumEvents = 5
    NumBufs = 2
    MaxFaults = 1
    MaxReports = 3
SPECIFICATION Spec
INVARIANTS TypeOK EventLeft UpWhenOpen
 
CHECK_DEADLOCK FALSE
