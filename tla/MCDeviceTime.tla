------------------------------ MODULE MCDeviceTime ------------------------------
EXTENDS DeviceTime

Wifi == [sta |-> TRUE, ap |-> FALSE, auto |-> TRUE, interval |-> 2, fast |-> 0, timeout |-> 0,
         ssid |-> TRUE, apSsid |-> TRUE]
WifiOfDoser == [Wifi EXCEPT !.fast = 1, !.timeout = 2]
Has(driver, rtc, config) == [driver |-> driver, rtc |-> rtc, config |-> config]
MCDevices ==
  {Has("core", TRUE, [Wifi EXCEPT !.timeout = 2]), Has("lamp", TRUE, Wifi),
   Has("doser", FALSE, WifiOfDoser), Has("doser", TRUE, [Wifi EXCEPT !.sta = FALSE])}
  \cup {Has("core", FALSE, c) : c \in {
         [Wifi EXCEPT !.ssid = FALSE], [Wifi EXCEPT !.interval = 0], [Wifi EXCEPT !.auto = FALSE],
         [Wifi EXCEPT !.ap = TRUE], [Wifi EXCEPT !.ap = TRUE, !.apSsid = FALSE],
         [Wifi EXCEPT !.ap = TRUE, !.sta = FALSE], [Wifi EXCEPT !.sta = FALSE]}}
=============================================================================
