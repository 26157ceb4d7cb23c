SPECIFICATION Spec
CONSTANTS
    Top = 16
    FlashStart = 11
    CFG_LOAD_ADDR = 4
    Images = {"kernel", "gzip", "multi", "broken", "bzip2", "rd", "app", "script"}
    Image <- MCImage
    Memories <- MCMemories
    Cmd <- MCCommands
    Lines <- MCLines
    Variables = {"bootcmd", "v", "w"}
    Environment <- MCEnvironment
    Undefined = "undefined"
CHECK_DEADLOCK FALSE
INVARIANTS  BootdOnce 
PROPERTIES StopStops LineComesToEnd
