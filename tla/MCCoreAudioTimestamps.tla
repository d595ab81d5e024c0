------------------------ MODULE MCCoreAudioTimestamps ------------------------
EXTENDS CoreAudioTimestamps

MCSampleRate  == 3
MCSecond      == 10
MCMaxFrames   == 2
MCMaxPosition == 6
MCLatency     == 0

=============================================================================
