------------------------------ MODULE Network ------------------------------
(***************************************************************************)
(* The way to the network: the Wi-Fi station and set-up access point of    *)
(* network/wifi.c, the link flags of network/ethernet.c, and main.c, which *)
(* boots over Ethernet or Wi-Fi and whose monitor task moves between them. *)
(* A handler registered again after wifi_stop runs once more per event.    *)
(* The Wi-Fi driver and the access points are the environment.             *)
(***************************************************************************)
EXTENDS Integers, Sequences, FiniteSets

CONSTANTS AccessPoints,         \* those that carry the saved SSID
          NoLock,               \* bssid_set = false
          AP_REENABLE_THRESHOLD,
          MaxInits,             \* bound: initialisations of the driver in a boot
          MaxEvents             \* bound: events waiting in the event loop

ASSUME NetworkAssumption ==
  /\ NoLock \notin AccessPoints
  /\ AP_REENABLE_THRESHOLD \in Nat \ {0} /\ MaxInits \in Nat /\ MaxEvents \in Nat

VARIABLES
  credentials,                  \* an SSID is saved
  inRange,                      \* the access points that can be heard
  driver, apMode, sta, bssid,   \* esp_wifi: running, mode, station, lock
  handlers, inits,              \* registrations of event_handler; esp_wifi_init so far
  events,                       \* the default event loop
  scans, scanned,               \* scan_and_connect tasks before and after the scan
  webScan,                      \* wifi_scan of the web page is waiting its 100 ms
  s_retry_num, retryTimer, s_sta_connected,
  paused,                       \* wifi_scan stopped the timer and caused no event
  s_eth_link_up, s_eth_connected,
  boot, eth_available, s_airplay_started,        \* app_main
  monitor, had_eth, had_network, wifi_started   \* and dns_running = ~had_network

driverVars == << credentials, inRange, driver, apMode, sta, bssid, handlers, inits, events >>
stationVars == << scans, scanned, webScan, s_retry_num, retryTimer, s_sta_connected, paused >>
ethVars == << s_eth_link_up, s_eth_connected >>
bootVars == << boot, eth_available, s_airplay_started >>
monitorVars == << monitor, had_eth, had_network, wifi_started >>
networkVars == << driverVars, stationVars, ethVars, bootVars, monitorVars >>

NetworkInit ==
  /\ credentials \in BOOLEAN /\ inRange = AccessPoints
  /\ driver = FALSE /\ apMode = FALSE /\ sta = "idle" /\ bssid = NoLock
  /\ handlers = 0 /\ inits = 0 /\ events = <<>>
  /\ scans = 0 /\ scanned = 0 /\ webScan = FALSE
  /\ s_retry_num = 0 /\ retryTimer = FALSE /\ s_sta_connected = FALSE /\ paused = FALSE
  /\ s_eth_link_up = FALSE /\ s_eth_connected = FALSE
  /\ boot = "ethernet" /\ eth_available = FALSE /\ s_airplay_started = FALSE
  /\ monitor = FALSE /\ had_eth = FALSE /\ had_network = FALSE
  /\ wifi_started = FALSE

Reachable == { a \in inRange : bssid \in {NoLock, a} }
HasNetwork == s_eth_connected \/ s_sta_connected

(* esp_wifi_connect does nothing without an SSID, or unless the station is idle. *)
Connects == driver /\ credentials /\ sta = "idle"
esp_wifi_connect ==
  /\ sta' = IF Connects THEN "connecting" ELSE sta
  /\ paused' = (paused /\ ~Connects)
NoConnect == UNCHANGED << sta, paused >>

-----------------------------------------------------------------------------
(* The driver and the air. *)
Associate ==
  /\ driver /\ sta = "connecting" /\ Reachable # {} /\ Len(events) < MaxEvents
  /\ sta' = "connected" /\ events' = Append(events, "got_ip")
  /\ UNCHANGED << credentials, inRange, driver, apMode, bssid, handlers, inits >>
  /\ UNCHANGED << stationVars, ethVars, bootVars, monitorVars >>
LinkLost ==                  \* or the attempt failed
  /\ driver /\ sta # "idle" /\ Len(events) < MaxEvents
  /\ sta' = "idle" /\ events' = Append(events, "disconnected")
  /\ UNCHANGED << credentials, inRange, driver, apMode, bssid, handlers, inits >>
  /\ UNCHANGED << stationVars, ethVars, bootVars, monitorVars >>
Air ==
  /\ \E aps \in SUBSET AccessPoints : aps # inRange /\ inRange' = aps
  /\ UNCHANGED << credentials, driver, apMode, sta, bssid, handlers, inits, events >>
  /\ UNCHANGED << stationVars, ethVars, bootVars, monitorVars >>

-----------------------------------------------------------------------------
(* event_handler, run by each of its registrations in turn. *)
HandleStart ==
  /\ events # <<>> /\ Head(events) = "start" /\ events' = Tail(events)
  /\ scans' = scans + handlers
  /\ UNCHANGED << credentials, inRange, driver, apMode, sta, bssid, handlers, inits >>
  /\ UNCHANGED << scanned, webScan, s_retry_num, retryTimer, s_sta_connected, paused >>
  /\ UNCHANGED << ethVars, bootVars, monitorVars >>

AtMost(n, most) == IF n > most THEN most ELSE n

(* The first failures reconnect at once; the one at the threshold brings the *)
(* set-up access point back; from there a one-shot timer reconnects, and one *)
(* that runs is left alone.  Above the threshold the number only sets the    *)
(* delay: it is kept at most one above.                                      *)
(* A mutant: the timer is scheduled when the access point comes back only. *)
RetryOnce ==
  LET fails == s_retry_num + handlers
  IN  /\ s_retry_num' = AtMost(fails, AP_REENABLE_THRESHOLD + 1)
      /\ IF s_retry_num + 1 < AP_REENABLE_THRESHOLD THEN esp_wifi_connect ELSE NoConnect
      /\ retryTimer' = (retryTimer \/ (fails >= AP_REENABLE_THRESHOLD
                                         /\ s_retry_num < AP_REENABLE_THRESHOLD))
      /\ apMode' = (apMode \/ (driver /\ s_retry_num < AP_REENABLE_THRESHOLD
                                  /\ fails >= AP_REENABLE_THRESHOLD))
Retry ==
  LET fails == s_retry_num + handlers
  IN  /\ s_retry_num' = AtMost(fails, AP_REENABLE_THRESHOLD + 1)
      /\ IF s_retry_num + 1 < AP_REENABLE_THRESHOLD THEN esp_wifi_connect ELSE NoConnect
      /\ retryTimer' = (retryTimer \/ fails >= AP_REENABLE_THRESHOLD)
      /\ apMode' = (apMode \/ (driver /\ s_retry_num < AP_REENABLE_THRESHOLD
                                  /\ fails >= AP_REENABLE_THRESHOLD))
HandleDisconnected ==
  /\ events # <<>> /\ Head(events) = "disconnected" /\ events' = Tail(events)
  /\ s_sta_connected' = FALSE /\ Retry
  /\ UNCHANGED << credentials, inRange, driver, bssid, handlers, inits, scans, scanned, webScan >>
  /\ UNCHANGED << ethVars, bootVars, monitorVars >>

(* A mutant: the failures of the last connection still count. *)
GotIpKeepsCount ==
  /\ events # <<>> /\ Head(events) = "got_ip" /\ events' = Tail(events)
  /\ s_sta_connected' = TRUE /\ apMode' = (apMode /\ ~driver)
  /\ UNCHANGED << credentials, inRange, driver, sta, bssid, handlers, inits >>
  /\ UNCHANGED << scans, scanned, webScan, s_retry_num, retryTimer, paused >>
  /\ UNCHANGED << ethVars, bootVars, monitorVars >>
HandleGotIp ==
  /\ events # <<>> /\ Head(events) = "got_ip" /\ events' = Tail(events)
  /\ s_sta_connected' = TRUE /\ s_retry_num' = 0
  /\ apMode' = (apMode /\ ~driver)      \* esp_wifi_get_mode fails without the driver
  /\ UNCHANGED << credentials, inRange, driver, sta, bssid, handlers, inits >>
  /\ UNCHANGED << scans, scanned, webScan, retryTimer, paused >>
  /\ UNCHANGED << ethVars, bootVars, monitorVars >>

retry_timer_callback ==
  /\ retryTimer /\ retryTimer' = FALSE
  /\ IF s_sta_connected THEN NoConnect ELSE esp_wifi_connect
  /\ UNCHANGED << credentials, inRange, driver, apMode, bssid, handlers, inits, events >>
  /\ UNCHANGED << scans, scanned, webScan, s_retry_num, s_sta_connected >>
  /\ UNCHANGED << ethVars, bootVars, monitorVars >>

(* scan_and_connect_task: wifi_select_best_ap locks the station to the      *)
(* strongest of the access points; the driver refuses the scan, and a new   *)
(* configuration, while the station is connecting.                          *)
wifi_select_best_ap ==
  /\ scans > 0 /\ scans' = scans - 1 /\ scanned' = scanned + 1
  /\ IF driver /\ credentials /\ sta # "connecting" /\ inRange # {}
     THEN bssid' \in inRange
     ELSE UNCHANGED bssid
  /\ UNCHANGED << credentials, inRange, driver, apMode, sta, handlers, inits, events >>
  /\ UNCHANGED << webScan, s_retry_num, retryTimer, s_sta_connected, paused >>
  /\ UNCHANGED << ethVars, bootVars, monitorVars >>
scan_and_connect_task ==
  /\ scanned > 0 /\ scanned' = scanned - 1 /\ esp_wifi_connect
  /\ UNCHANGED << credentials, inRange, driver, apMode, bssid, handlers, inits, events >>
  /\ UNCHANGED << scans, webScan, s_retry_num, retryTimer, s_sta_connected >>
  /\ UNCHANGED << ethVars, bootVars, monitorVars >>

-----------------------------------------------------------------------------
(* wifi_scan, from the web page: stop the timer, disconnect, wait, unlock, *)
(* scan.  An idle station has no event to send.                            *)
wifi_scan ==
  /\ ~webScan /\ monitor /\ webScan' = TRUE /\ retryTimer' = FALSE
  /\ IF driver /\ sta # "idle"
     THEN /\ Len(events) < MaxEvents
          /\ sta' = "idle" /\ events' = Append(events, "disconnected") /\ UNCHANGED paused
     ELSE paused' = (paused \/ retryTimer) /\ UNCHANGED << sta, events >>
  /\ UNCHANGED << credentials, inRange, driver, apMode, bssid, handlers, inits >>
  /\ UNCHANGED << scans, scanned, s_retry_num, s_sta_connected >>
  /\ UNCHANGED << ethVars, bootVars, monitorVars >>
Unlock ==
  /\ webScan /\ webScan' = FALSE
  /\ bssid' = IF driver /\ sta # "connecting" THEN NoLock ELSE bssid
  /\ UNCHANGED << credentials, inRange, driver, apMode, sta, handlers, inits, events >>
  /\ UNCHANGED << scans, scanned, s_retry_num, retryTimer, s_sta_connected, paused >>
  /\ UNCHANGED << ethVars, bootVars, monitorVars >>

(* wifi_init_apsta starts the driver; one that runs gets its mode and its   *)
(* configurations again, and refuses the station's while it is connecting.  *)
StartDriver ==
  /\ ~driver /\ inits < MaxInits /\ Len(events) < MaxEvents
  /\ inits' = inits + 1 /\ handlers' = handlers + 1
  /\ driver' = TRUE /\ apMode' = TRUE /\ sta' = "idle" /\ bssid' = NoLock
  /\ events' = Append(events, "start") /\ s_retry_num' = 0
  /\ UNCHANGED << credentials, inRange, scans, scanned, webScan, retryTimer >>
  /\ UNCHANGED << s_sta_connected, paused >>
ConfigureAgain ==
  /\ driver /\ apMode' = TRUE /\ s_retry_num' = 0
  /\ bssid' = IF sta = "connecting" THEN bssid ELSE NoLock
  /\ UNCHANGED << credentials, inRange, driver, sta, handlers, inits, events >>
  /\ UNCHANGED << scans, scanned, webScan, retryTimer, s_sta_connected, paused >>
wifi_init_apsta == StartDriver \/ ConfigureAgain

(* The refusal is under ESP_ERROR_CHECK: a build that leaves the test out   *)
(* goes on as above, any other starts again.                                *)
Refusal == driver /\ sta = "connecting"
Restart ==
  /\ driver' = FALSE /\ apMode' = FALSE /\ sta' = "idle" /\ bssid' = NoLock
  /\ handlers' = 0 /\ inits' = 0 /\ events' = <<>>
  /\ scans' = 0 /\ scanned' = 0 /\ webScan' = FALSE
  /\ s_retry_num' = 0 /\ retryTimer' = FALSE /\ s_sta_connected' = FALSE /\ paused' = FALSE
  /\ s_eth_link_up' = FALSE /\ s_eth_connected' = FALSE
  /\ boot' = "ethernet" /\ eth_available' = FALSE /\ s_airplay_started' = FALSE
  /\ monitor' = FALSE /\ had_eth' = FALSE /\ had_network' = FALSE
  /\ wifi_started' = FALSE /\ UNCHANGED << credentials, inRange >>
wifi_stop ==
  IF driver
  THEN /\ driver' = FALSE /\ apMode' = FALSE /\ sta' = "idle" /\ retryTimer' = FALSE
       /\ s_sta_connected' = FALSE /\ s_retry_num' = 0 /\ paused' = FALSE
       /\ events' = IF sta = "idle" THEN events ELSE Append(events, "disconnected")
       /\ UNCHANGED << credentials, inRange, bssid, handlers, inits, scans, scanned, webScan >>
  ELSE UNCHANGED << driverVars, stationVars >>
NoWifiStep == UNCHANGED << driverVars, stationVars >>

-----------------------------------------------------------------------------
(* eth_event_handler and eth_got_ip_handler.  Bound: no drop that would *)
(* start Wi-Fi once more than MaxInits.                                  *)
EthEvent ==
  /\ \/ ~s_eth_link_up /\ s_eth_link_up' = TRUE /\ UNCHANGED s_eth_connected
     \/ s_eth_link_up /\ ~s_eth_connected /\ s_eth_connected' = TRUE /\ UNCHANGED s_eth_link_up
     \/ s_eth_link_up /\ inits < MaxInits /\ s_eth_link_up' = FALSE /\ s_eth_connected' = FALSE
  /\ UNCHANGED << driverVars, stationVars, bootVars, monitorVars >>

(* app_main: Ethernet or, after a wait, Wi-Fi, after another wait; then the *)
(* monitor is created and start_airplay_services called.                    *)
BootEthernet ==
  /\ boot = "ethernet" /\ eth_available' = s_eth_connected
  /\ \/ s_eth_connected /\ boot' = "create" /\ NoWifiStep
     \/ ~s_eth_connected /\ boot' = "wifi" /\ wifi_init_apsta
  /\ UNCHANGED << ethVars, s_airplay_started, monitorVars >>
wifi_wait_connected ==
  /\ boot = "wifi" /\ boot' = "create"
  /\ UNCHANGED << driverVars, stationVars, ethVars, eth_available, s_airplay_started, monitorVars >>
BootServices ==
  /\ boot = "create" /\ boot' = "created"
  /\ UNCHANGED << driverVars, stationVars, ethVars, eth_available, s_airplay_started, monitorVars >>
start_airplay_services ==
  /\ boot = "created" /\ boot' = "done"
  /\ s_airplay_started' = (s_airplay_started \/ eth_available \/ s_sta_connected)
  /\ UNCHANGED << driverVars, stationVars, ethVars, eth_available, monitorVars >>

(* network_monitor_task: what it finds when it starts, then every 2 s. *)
MonitorStarts ==
  /\ boot \in {"created", "done"} /\ ~monitor /\ monitor' = TRUE
  /\ had_eth' = s_eth_connected /\ had_network' = HasNetwork
  /\ wifi_started' = (s_sta_connected \/ ~s_eth_connected)
  /\ UNCHANGED << driverVars, stationVars, ethVars, bootVars >>

EthernetCame == s_eth_connected /\ ~had_eth /\ wifi_started
EthernetWent == ~s_eth_connected /\ had_eth

(* A mutant: Wi-Fi is not started while it is believed to be, and the stop forgets to say so. *)
PollBelievesWifi ==
  /\ monitor
  /\ CASE EthernetCame -> wifi_stop /\ UNCHANGED wifi_started
       [] EthernetWent /\ ~wifi_started -> wifi_init_apsta /\ wifi_started' = TRUE
       [] OTHER -> NoWifiStep /\ UNCHANGED wifi_started
  /\ had_eth' = s_eth_connected
  /\ had_network' = (s_eth_connected \/ s_sta_connected')
  /\ s_airplay_started' = (s_airplay_started \/ (had_network' /\ ~had_network))
  /\ UNCHANGED << ethVars, boot, eth_available, monitor >>
Poll ==
  /\ monitor
  /\ CASE EthernetCame -> wifi_stop /\ wifi_started' = FALSE
       [] EthernetWent -> wifi_init_apsta /\ wifi_started' = TRUE
       [] OTHER -> NoWifiStep /\ UNCHANGED wifi_started
  /\ had_eth' = s_eth_connected
  /\ had_network' = (s_eth_connected \/ s_sta_connected')
  /\ s_airplay_started' = (s_airplay_started \/ (had_network' /\ ~had_network))
  /\ UNCHANGED << ethVars, boot, eth_available, monitor >>

PollAborts == monitor /\ EthernetWent /\ Refusal /\ Restart

HandleEvent == HandleStart \/ HandleDisconnected \/ HandleGotIp
ScanTasks == wifi_select_best_ap \/ scan_and_connect_task
AppMain == BootEthernet \/ wifi_wait_connected \/ BootServices \/ start_airplay_services

NetworkNext ==
  \/ Associate \/ LinkLost \/ Air \/ HandleEvent \/ retry_timer_callback \/ ScanTasks
  \/ wifi_scan \/ Unlock \/ EthEvent \/ AppMain \/ MonitorStarts
  \/ Poll \/ PollAborts

-----------------------------------------------------------------------------
NetworkTypeOK ==
  /\ credentials \in BOOLEAN /\ inRange \subseteq AccessPoints
  /\ driver \in BOOLEAN /\ apMode \in BOOLEAN
  /\ sta \in {"idle", "connecting", "connected"} /\ bssid \in AccessPoints \union {NoLock}
  /\ inits \in 0 .. MaxInits /\ handlers = inits
  /\ \A i \in DOMAIN events : events[i] \in {"start", "disconnected", "got_ip"}
  /\ Len(events) <= MaxEvents + 1      \* the one of wifi_stop always fits
  /\ scans \in Nat /\ scanned \in Nat /\ webScan \in BOOLEAN
  /\ s_retry_num \in 0 .. (AP_REENABLE_THRESHOLD + 1) /\ retryTimer \in BOOLEAN
  /\ s_sta_connected \in BOOLEAN /\ paused \in BOOLEAN
  /\ s_eth_link_up \in BOOLEAN /\ s_eth_connected \in BOOLEAN
  /\ boot \in {"ethernet", "wifi", "create", "created", "done"}
  /\ {eth_available, s_airplay_started, monitor} \subseteq BOOLEAN
  /\ {had_eth, had_network, wifi_started} \subseteq BOOLEAN

(* While the station has no credentials, or has failed the threshold of     *)
(* attempts, the set-up access point is there to be configured from.        *)
SetupReachable ==
  driver /\ (~credentials \/ s_retry_num >= AP_REENABLE_THRESHOLD) => apMode

(* A station whose access point stays in reach gets its address again,      *)
(* whatever failed before, unless a web scan stopped its timer.             *)
Reconnects ==
  <>[](driver /\ credentials /\ Reachable # {} /\ ~paused) => []<>s_sta_connected

(* When the monitor has used Ethernet and it stays away, Wi-Fi is started. *)
FallsBack ==
  []((monitor /\ had_eth /\ []~s_eth_connected) => <>driver)

(* A network that comes while the monitor knows of none, and stays, starts AirPlay. *)
AirPlayFollows ==
  []((monitor /\ ~had_network /\ []HasNetwork) => <>s_airplay_started)

(* The monitor uses whichever network there is, and serves AirPlay on it.   *)
MonitorFollows == FallsBack /\ AirPlayFollows
=============================================================================
