------------------------- MODULE MCDeviceEnumeration -------------------------
EXTENDS DeviceEnumeration

CONSTANTS headset, mic, monitor

MCDevices  == {headset, mic, monitor}
MCInputs   == {headset, mic}
MCOutputs  == {headset}
MCMonitors == {monitor}

=============================================================================
