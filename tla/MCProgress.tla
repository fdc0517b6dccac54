----------------------------- MODULE MCProgress -----------------------------
(* TLC instance of the parts of the library that wait for something and     *)
(* must go on in the end: the frames of the display, scans, the connection, *)
(* the main loop, the captive portal's DNS server, look-ups of names, the   *)
(* web server and its reader of uploads.  These parts share no state: each  *)
(* is explored from its own initial state with the others left alone.       *)
EXTENDS OLEDDisplayUi, WiFiScan, NefryConnect, NefryLoop, DnsServer, HostByName, WebServer,
        UploadForm

VARIABLE component   (* the part that is explored                            *)

(* Saved lists, and what is in the air: two networks, one of them strong,   *)
(* open or not there.                                                       *)
Network(ssid, pass)     == [ssid |-> ssid, pass |-> pass]
Heard(ssid, rssi, open) == [ssid |-> ssid, rssi |-> rssi, open |-> open]
MCSavedLists == {<<Network("a", "right")>>,
                 <<Network("a", "none"), Network("b", "right")>>,
                 <<Network("b", "wrong"), Network("a", "right")>>}
MCGoodAir == <<Heard("b", 1, FALSE), Heard("a", 2, FALSE), Heard("b", 2, FALSE)>>
MCAirs    == {MCGoodAir, <<Heard("b", 1, FALSE)>>, <<Heard("a", 1, TRUE), Heard("b", 2, FALSE)>>,
              <<Heard("a", 2, FALSE), Heard("b", 1, FALSE)>>}
MCLimits  == {-1, 0, 2}

(* Files of the bytes a marker is made of, that do not hold the boundary;   *)
(* the last three come close to it.                                         *)
MCBoundary   == <<"-", "b">>
FilesUpTo(n) == {f \in UNION {[1 .. k -> {"r", "n", "-", "b"}] : k \in 0 .. n} :
                   \A i \in DOMAIN f : ~IsAt(Marker \o MCBoundary, f, i)}
MCForms ==
  {<<f>> : f \in FilesUpTo(3)} \cup {<<f, g>> : f \in FilesUpTo(1), g \in FilesUpTo(1)} \cup
  {<<<<"r", "r", "n", "-", "r">>>>, <<<<"r", "n", "-", "-", "-", "r", "b">>>>,
   <<<<"r", "n", "-", "-", "b", "r", "n", "-", "-", "b">>>>}

ProgressVars == <<uiVars, scanVars, connectVars, loopVars, dnsVars, hostVars, webVars, formVars>>

ProgressInit ==
  /\ component \in {"frames", "scan", "connect", "loop", "dns", "lookups", "web", "form"}
  /\ UiInit /\ ScanInit /\ ConnectInit /\ LoopInit /\ DnsInit /\ HostInit /\ WebInit /\ FormInit
  (* A part starts in one way only while another one is explored.           *)
  /\ component # "frames" => frameCount = 3
  /\ component # "loop" => millis = 0 /\ _wifiEnableFlg = FALSE

(* The parts that are not explored stay as they are.                        *)
OthersStay ==
  /\ component = "frames" \/ UNCHANGED uiVars
  /\ component = "scan" \/ UNCHANGED scanVars
  /\ component = "connect" \/ UNCHANGED connectVars
  /\ component = "loop" \/ UNCHANGED loopVars
  /\ component = "dns" \/ UNCHANGED dnsVars
  /\ component = "lookups" \/ UNCHANGED hostVars
  /\ component = "web" \/ UNCHANGED webVars
  /\ component = "form" \/ UNCHANGED formVars

ProgressNext ==
  /\ UNCHANGED component
  /\ \/ component = "frames" /\ UiNext /\ OthersStay
     \/ component = "scan" /\ ScanNext /\ OthersStay
     \/ component = "connect" /\ ConnectNext /\ OthersStay
     \/ component = "loop" /\ LoopNext /\ OthersStay
     \/ component = "dns" /\ DnsNext /\ OthersStay
     \/ component = "lookups" /\ HostNext /\ OthersStay
     \/ component = "web" /\ WebNext /\ OthersStay
     \/ component = "form" /\ FormNext /\ OthersStay

(* The fairness of the parts, asked only of the one that is explored.       *)
ProgressFairness ==
  /\ WF_uiVars(component = "frames" /\ Update)
  /\ WF_scanVars(component = "scan" /\ ScanEvents)
  /\ \A t \in Scanners : WF_scanVars(component = "scan" /\ ScanTask(t))
  /\ WF_connectVars(component = "connect" /\ MainTask)
  /\ WF_connectVars(component = "connect" /\ Radio)
  /\ WF_connectVars(component = "connect" /\ eventCallback)
  /\ WF_loopVars(component = "loop" /\ LoopTask)
  /\ WF_loopVars(component = "loop" /\ LoopTick)
  /\ WF_dnsVars(component = "dns" /\ processNextRequest)
  /\ \A t \in Resolvers :
       /\ WF_hostVars(component = "lookups" /\ Lookup(t))
       /\ WF_hostVars(component = "lookups" /\ wifi_dns_found_callback(t))
  /\ WF_webVars(component = "web" /\ WebTask)
  /\ WF_formVars(component = "form" /\ ParseForm)

ProgressSpec == ProgressInit /\ [][ProgressNext]_<<component, ProgressVars>> /\ ProgressFairness

(* Frames: each transition ends, on its frame, and none of the frames is    *)
(* left out for ever, while the display is what is explored.                *)
FramesCorrect ==
  /\ ReachesGoal /\ TransitionEnds /\ IndicatorCorrect
  /\ component = "frames" => AllFramesShown

(* The main task: it gets back to a saved network, and round its loop.      *)
MainTaskCorrect == Reconnects /\ LoopCorrect

(* Names: queries to the portal are answered, look-ups end.                 *)
NamesCorrect == DnsCorrect /\ HostCorrect

(* Files: what is read of a form is what was sent, byte by byte and in the  *)
(* end.                                                                     *)
FilesCorrect == [](FormTypeOK /\ NothingLost) /\ UploadCorrect
=============================================================================
