----------------------------- MODULE WiFiRadio -----------------------------
(***************************************************************************)
(* The modes and settings of the Wi-Fi radio: WiFiGeneric.cpp (mode),       *)
(* WiFiSTA.cpp (begin, config, disconnect, SmartConfig) and WiFiAP.cpp.     *)
(* The driver below them is external: any call of it may fail.  Two tasks   *)
(* meet here.  The sketch calls what it likes; the task of the network      *)
(* events connects again after AUTH_EXPIRE.  A call reads the mode, turns   *)
(* one interface on or off in what it has read and writes all of it back;   *)
(* what it does after that is one step.                                     *)
(***************************************************************************)
EXTENDS Integers

CONSTANTS
  StaConfs,     (* networks to join: records [ssid, password]               *)
  ApConfs,      (* access points to open: records [ssid, password]          *)
  Octets,       (* last parts of addresses for the access point             *)
  MaxRadioCalls, (* bound: calls of the sketch                              *)
  MaxErrors     (* bound: calls of the driver that fail                     *)

ASSUME RadioAssumption == Octets \subseteq 1 .. 254 /\ MaxRadioCalls \in Nat /\ MaxErrors \in Nat

NoConf  == [ssid |-> "", password |-> ""]
Invalid == [ssid |-> "too long", password |-> ""]     (* refused by begin and softAP *)
Modes   == SUBSET {"STA", "AP"}
Free    == [op |-> "none"]
Unknown == -1                         (* a call that has set it reported a failure *)
Callers == {"sketch", "event"}

VARIABLES
  radioState,   (* the driver: [ready, mode, on]                            *)
  _esp_wifi_started,
  staConf, apConf, (* what the driver stores; an access point               *)
                                (* has its authmode too                     *)
  _useStaticIp, staIP, dhcp, (* the station's address: ip is 0 and dhcp     *)
                                (* TRUE while it is left to a DHCP server   *)
  dhcps,        (* the DHCP server of the access point: [on, own, from, to] *)
  _smartConfigStarted, _smartConfigDone,
  smart,        (* SmartConfig in the driver: "off", "on", "linked", "over" *)
  expiry,       (* AUTH_EXPIRE is on its way to the event task              *)
  calling,      (* calling[t]: the call of a task that has read the mode    *)
  promised,     (* history: what the calls that reported success asked for  *)
  modeRaced,    (* history: a mode was written that was not made from the   *)
                (* one it replaced                                          *)
  radioCalls, errors

modeVars  == <<radioState, _esp_wifi_started>>
address   == <<_useStaticIp, staIP, dhcp>>
smartVars == <<_smartConfigStarted, _smartConfigDone, smart>>
confs     == <<staConf, apConf, dhcps>>
radioVars == <<modeVars, confs, address, smartVars, expiry, calling, promised, modeRaced, radioCalls, errors>>

AccessPoint(conf) ==
  [ssid |-> conf.ssid, password |-> conf.password,
   authmode |-> IF conf.password = "" THEN "OPEN" ELSE "WPA2"]

RadioTypeOK ==
  /\ radioState \in [ready : BOOLEAN, mode : Modes, on : BOOLEAN] /\ _esp_wifi_started \in BOOLEAN
  /\ staConf \in StaConfs \cup {NoConf}
  /\ apConf \in {AccessPoint(conf) : conf \in ApConfs \cup {NoConf}}
  /\ {_useStaticIp, dhcp, _smartConfigStarted, _smartConfigDone, expiry, modeRaced} \subseteq BOOLEAN
  /\ staIP \in {0, 1} /\ smart \in {"off", "on", "linked", "over"}
  /\ dhcps.on \in BOOLEAN /\ {dhcps.from, dhcps.to} \subseteq 0 .. 255
  /\ radioCalls \in 0 .. MaxRadioCalls /\ errors \in 0 .. MaxErrors

(* The configurations are those of an earlier start, from flash memory.     *)
RadioInit ==
  /\ radioState = [ready |-> FALSE, mode |-> {}, on |-> FALSE] /\ _esp_wifi_started = FALSE
  /\ staConf \in StaConfs \cup {NoConf}
  /\ apConf \in {AccessPoint(conf) : conf \in ApConfs \cup {NoConf}}
  /\ _useStaticIp = FALSE /\ staIP = 0 /\ dhcp = FALSE
  /\ dhcps = [on |-> FALSE, own |-> 1, from |-> 2, to |-> 12]
  /\ _smartConfigStarted = FALSE /\ _smartConfigDone = FALSE /\ smart = "off"
  /\ expiry = FALSE /\ calling = [t \in Callers |-> Free]
  /\ promised = [mode |-> {}, sta |-> NoConf, ap |-> NoConf, ip |-> 0] /\ modeRaced = FALSE
  /\ radioCalls = 0 /\ errors = 0

(* fault: the call of the driver that fails in a step, or "none".           *)
RadioFault(fault) ==
  /\ fault # "none" => errors < MaxErrors
  /\ errors' = errors + (IF fault = "none" THEN 0 ELSE 1)

(***************************************************************************)
(* First step of a call: it reads the mode, for which the driver is made    *)
(* ready once.  It will turn the interfaces in on on and those in off off.  *)
(***************************************************************************)
wifiLowLevelInit(fault) ==
  IF radioState.ready \/ fault = "init" THEN radioState ELSE [radioState EXCEPT !.ready = TRUE, !.mode = {}]

ReadMode(t, call, fault) ==
  /\ calling[t] = Free
  /\ fault = "init" => ~radioState.ready
  /\ calling' = [calling EXCEPT ![t] = IF fault = "init" THEN Free ELSE
                   [call EXCEPT !.read = wifiLowLevelInit(fault).mode]]
  /\ RadioFault(fault)

Call(op, parameter, on, off) == [op |-> op, arg |-> parameter, on |-> on, off |-> off, read |-> {}]

Asked(call) == (call.read \ call.off) \cup call.on

(* enableSTA and enableAP write nothing if the interface was as it should   *)
(* be when they looked; mode looks again.                                   *)
OneInterface(call) == call.on \cup call.off # {"STA", "AP"}
WasSo(call) == OneInterface(call) /\ Asked(call) = call.read

(* Calls of the sketch that begin so, and the event task's answer to        *)
(* AUTH_EXPIRE.                                                             *)
Calls ==
  {Call("mode", NoConf, m, {"STA", "AP"} \ m) : m \in Modes} \cup
  {Call("begin", conf, {"STA"}, {}) : conf \in StaConfs \cup {NoConf, Invalid}} \cup
  {Call("config", a, {"STA"}, {}) : a \in {0, 1}} \cup
  {Call("softAP", conf, {"AP"}, {}) : conf \in ApConfs \cup {Invalid}} \cup
  {Call("softAPConfig", n, {"AP"}, {}) : n \in Octets} \cup
  {Call("beginSmartConfig", NoConf, {"STA"}, {"AP"})}

SketchCalls ==
  \E call \in Calls, fault \in {"none", "init"} :
    /\ call.op = "beginSmartConfig" => ~_smartConfigStarted
    /\ ReadMode("sketch", call, fault) /\ radioState' = wifiLowLevelInit(fault)
    /\ radioCalls < MaxRadioCalls /\ radioCalls' = radioCalls + 1
    /\ UNCHANGED <<_esp_wifi_started, confs, address, smartVars, expiry, promised, modeRaced>>

Expire ==
  /\ ~expiry /\ expiry' = TRUE /\ radioState.on /\ "STA" \in radioState.mode /\ staConf # NoConf
  /\ UNCHANGED <<modeVars, confs, address, smartVars, calling, promised, modeRaced, radioCalls, errors>>

eventReconnects ==
  /\ expiry /\ expiry' = FALSE
  /\ ReadMode("event", Call("begin", NoConf, {"STA"}, {}), "none")
  /\ UNCHANGED <<modeVars, confs, address, smartVars, promised, modeRaced, radioCalls>>

(* disconnect empties the network that is stored, for which it starts the   *)
(* radio; softAPdisconnect empties the access point.  With wifioff they     *)
(* turn the interface off, too.                                             *)
disconnectSTA(wifioff, fault) ==
  /\ calling["sketch"] = Free /\ radioCalls < MaxRadioCalls /\ radioCalls' = radioCalls + 1
  /\ IF wifioff THEN ReadMode("sketch", Call("mode", NoConf, {}, {"STA"}), fault)
     ELSE RadioFault(fault) /\ UNCHANGED calling
  /\ radioState' = [wifiLowLevelInit(fault) EXCEPT !.on = TRUE]
  /\ staConf' = IF fault = "set_config" THEN staConf ELSE NoConf
  /\ promised' = IF fault = "set_config" THEN promised ELSE [promised EXCEPT !.sta = NoConf]
  /\ UNCHANGED <<_esp_wifi_started, apConf, dhcps, address, smartVars, expiry, modeRaced>>

softAPdisconnect(wifioff, fault) ==
  /\ radioState.ready
  /\ calling["sketch"] = Free /\ radioCalls < MaxRadioCalls /\ radioCalls' = radioCalls + 1
  /\ IF wifioff THEN ReadMode("sketch", Call("mode", NoConf, {}, {"AP"}), fault)
     ELSE RadioFault(fault) /\ UNCHANGED calling
  /\ apConf' = IF fault = "set_config" THEN apConf ELSE AccessPoint(NoConf)
  /\ promised' = IF fault = "set_config" THEN promised ELSE [promised EXCEPT !.ap = NoConf]
  /\ UNCHANGED <<modeVars, staConf, dhcps, address, smartVars, expiry, modeRaced>>

(***************************************************************************)
(* Second step.  WiFiGenericClass::mode with espWiFiStart and espWiFiStop:  *)
(* the mode is written first, then the radio is started or stopped unless   *)
(* the flag says that it is.                                                *)
(***************************************************************************)
(* Mutant of mode: the flag is set although the radio could not be started. *)
modeFlagFirst(m, fault) ==
  IF m = radioState.mode \/ fault = "set_mode"
  THEN [radio |-> radioState, started |-> _esp_wifi_started, ok |-> m = radioState.mode]
  ELSE [radio   |-> [radioState EXCEPT !.mode = m, !.on = IF fault = "start" THEN @ ELSE m # {}],
        started |-> m # {}, ok |-> fault # "start"]

mode(m, fault) ==
  IF m = radioState.mode \/ fault = "set_mode"
  THEN [radio |-> radioState, started |-> _esp_wifi_started, ok |-> m = radioState.mode]
  ELSE LET done == _esp_wifi_started = (m # {})
       IN  [radio   |-> [radioState EXCEPT !.mode = m,
                                      !.on = IF done \/ fault = "start" THEN @ ELSE m # {}],
            started |-> IF done \/ fault = "start" THEN _esp_wifi_started ELSE m # {},
            ok      |-> done \/ fault # "start"]

(* The rest of a call, of which nothing happens when mode has failed; in    *)
(* each, esp_wifi_start comes first, whatever the flag says.                *)
beginSTA(conf, fault) ==
  LET refused == conf = Invalid
      same    == conf = NoConf \/ conf = staConf IN
  /\ staConf' = IF refused \/ same \/ fault = "set_config" THEN staConf ELSE conf
  /\ dhcp' = IF refused THEN dhcp ELSE ~_useStaticIp
  /\ staIP' = IF dhcp' THEN 0 ELSE staIP
  /\ promised' = [promised EXCEPT !.mode = @ \cup {"STA"},
                          !.sta = IF refused \/ conf = NoConf THEN @
                                  ELSE IF fault = "set_config" THEN NoConf ELSE conf]
  /\ UNCHANGED <<_useStaticIp, apConf, dhcps, smartVars>>

configSTA(local_ip, fault) ==
  LET failed == fault \in {"dhcpc_stop", "set_ip"} \/ (fault = "dhcpc_start" /\ local_ip = 0) IN
  /\ dhcp' = IF fault = "dhcpc_stop" THEN dhcp ELSE local_ip = 0 /\ ~failed
  /\ staIP' = IF fault \in {"dhcpc_stop", "set_ip"} THEN staIP ELSE local_ip
  /\ _useStaticIp' = IF failed THEN _useStaticIp ELSE local_ip # 0
  /\ promised' = [promised EXCEPT !.mode = @ \cup {"STA"}, !.ip = IF failed THEN Unknown ELSE local_ip]
  /\ UNCHANGED <<confs, smartVars>>

(* Mutant of softap_config_equal: pass phrases are not compared.            *)
softap_config_equalSsid(l, r) == l.ssid = r.ssid

softap_config_equal(l, r) == l.ssid = r.ssid /\ l.password = r.password

softAP(conf, fault) ==
  LET same == softap_config_equal(AccessPoint(conf), apConf)
      ok   == conf # Invalid /\ (same \/ fault # "set_config") IN
  /\ apConf' = IF ok /\ ~same THEN AccessPoint(conf) ELSE apConf
  /\ promised' = [promised EXCEPT !.mode = @ \cup {"AP"}, !.ap = IF ok THEN conf ELSE @]
  /\ UNCHANGED <<staConf, dhcps, address, smartVars>>

(* The addresses to lease follow the own one, of which the last part is     *)
(* counted up, modulo 2^8.                                                  *)
softAPConfig(octet, fault) ==
  LET moved == fault # "set_ip" IN
  /\ dhcps' = [on   |-> moved /\ fault # "dhcps_start",
               own  |-> IF moved THEN octet ELSE dhcps.own,
               from |-> IF moved THEN (octet + 1) % 256 ELSE dhcps.from,
               to   |-> IF moved THEN (octet + 11) % 256 ELSE dhcps.to]
  /\ promised' = [promised EXCEPT !.mode = @ \cup {"AP"}]
  /\ UNCHANGED <<staConf, apConf, address, smartVars>>

(* The flags follow in a step of their own.                                 *)
beginSmartConfig(fault) ==
  /\ smart' = IF smart = "off" /\ fault # "smart_start" THEN "on" ELSE smart
  /\ promised' = [promised EXCEPT !.mode = {"STA"}]
  /\ UNCHANGED <<_smartConfigStarted, _smartConfigDone, confs, address>>

Faults(op) ==
  {"none", "set_mode", "start"} \cup
  CASE op \in {"begin", "softAP"}  -> {"set_config"}
    [] op = "config"               -> {"dhcpc_stop", "set_ip", "dhcpc_start"}
    [] op = "softAPConfig"         -> {"set_ip", "dhcps_start"}
    [] op = "beginSmartConfig"     -> {"smart_start"}
    [] OTHER                       -> {}

FinishCall(call, fault) ==
  CASE call.op = "begin"            -> beginSTA(call.arg, fault)
    [] call.op = "config"           -> configSTA(call.arg, fault)
    [] call.op = "softAP"           -> softAP(call.arg, fault)
    [] call.op = "softAPConfig"     -> softAPConfig(call.arg, fault)
    [] call.op = "beginSmartConfig" -> beginSmartConfig(fault)
    [] call.op = "mode"             -> /\ promised' = [promised EXCEPT !.mode = (@ \ call.off) \cup call.on]
                                       /\ UNCHANGED <<confs, address, smartVars>>

StartsRadio(call) ==
  /\ call.op \notin {"mode", "beginSmartConfig"}
  /\ call.op \in {"begin", "softAP"} => call.arg # Invalid

Write(t, fault) ==
  LET call == calling[t]
      set  == IF WasSo(call) THEN [radio |-> radioState, started |-> _esp_wifi_started, ok |-> TRUE]
              ELSE mode(Asked(call), fault) IN
  /\ call # Free /\ call.op # "flags" /\ fault \in Faults(call.op) /\ RadioFault(fault)
  /\ WasSo(call) => fault \notin {"set_mode", "start"}
  /\ _esp_wifi_started' = set.started
  /\ radioState' = IF set.ok /\ StartsRadio(call) THEN [set.radio EXCEPT !.on = TRUE] ELSE set.radio
  /\ modeRaced' = (modeRaced \/ (call.read # radioState.mode /\ OneInterface(call)))
  /\ IF set.ok THEN FinishCall(call, fault)
     ELSE promised' = [promised EXCEPT !.mode = set.radio.mode] /\ UNCHANGED <<confs, address, smartVars>>
  /\ calling' = [calling EXCEPT ![t] =
                   IF call.op = "beginSmartConfig" /\ smart # smart' THEN [op |-> "flags"] ELSE Free]
  /\ UNCHANGED <<expiry, radioCalls>>

(***************************************************************************)
(* SmartConfig.  The driver calls back when it has heard a network and when *)
(* that was acknowledged; stopSmartConfig does nothing before the flag.     *)
(***************************************************************************)
(* Mutant of SmartFlags: what was done before is not forgotten.             *)
SmartFlagsKeepDone ==
  /\ calling["sketch"].op = "flags" /\ calling' = [calling EXCEPT !["sketch"] = Free]
  /\ _smartConfigStarted' = TRUE
  /\ UNCHANGED <<_smartConfigDone, smart, modeVars, confs, address, expiry, promised, modeRaced, radioCalls, errors>>

SmartFlags ==
  /\ calling["sketch"].op = "flags" /\ calling' = [calling EXCEPT !["sketch"] = Free]
  /\ _smartConfigStarted' = TRUE /\ _smartConfigDone' = FALSE
  /\ UNCHANGED <<smart, modeVars, confs, address, expiry, promised, modeRaced, radioCalls, errors>>

stopSmartConfig(fault) ==
  IF _smartConfigStarted /\ fault = "none"
  THEN _smartConfigStarted' = FALSE /\ smart' = "off"
  ELSE UNCHANGED <<_smartConfigStarted, smart>>

smartConfigDone == _smartConfigStarted /\ _smartConfigDone

smartConfigLink(conf) ==
  /\ smart = "on" /\ smart' = "linked" /\ _smartConfigDone' = TRUE
  /\ staConf' = conf /\ promised' = [promised EXCEPT !.sta = conf]
  /\ UNCHANGED <<_smartConfigStarted, apConf, dhcps, modeVars, address, expiry, calling, modeRaced, radioCalls,
                 errors>>

smartConfigOver(fault) ==
  /\ smart = "linked" /\ RadioFault(fault)
  /\ IF _smartConfigStarted /\ fault = "none" THEN stopSmartConfig(fault)
     ELSE smart' = "over" /\ UNCHANGED _smartConfigStarted
  /\ UNCHANGED <<_smartConfigDone, modeVars, confs, address, expiry, calling, promised, modeRaced, radioCalls>>

sketchStops(fault) ==
  /\ calling["sketch"] = Free /\ _smartConfigStarted /\ stopSmartConfig(fault) /\ RadioFault(fault)
  /\ UNCHANGED <<_smartConfigDone, modeVars, confs, address, expiry, calling, promised, modeRaced, radioCalls>>

RadioNext ==
  \/ SketchCalls
  \/ Expire \/ eventReconnects
  \/ \E wifioff \in BOOLEAN, fault \in {"none", "set_config"} :
       disconnectSTA(wifioff, fault) \/ softAPdisconnect(wifioff, fault)
  \/ \E t \in Callers, fault \in UNION {Faults(call.op) : call \in Calls} : Write(t, fault)
  \/ SmartFlags
  \/ \E conf \in StaConfs : smartConfigLink(conf)
  \/ \E fault \in {"none", "smart_stop"} : smartConfigOver(fault) \/ sketchStops(fault)

RadioSpec == RadioInit /\ [][RadioNext]_radioVars

(***************************************************************************)
(* Properties.                                                              *)
(***************************************************************************)

(* The flag never says of a stopped radio that it runs, whatever has        *)
(* failed; while nothing has failed, a radio with a mode runs.              *)
FlagSafe ==
  /\ _esp_wifi_started => radioState.on
  /\ errors = 0 /\ radioState.mode # {} => radioState.on

(* The interfaces are the ones that were asked for, unless two tasks have   *)
(* changed the mode at once.                                                *)
ModeAsAsked == ~modeRaced => radioState.mode = promised.mode

(* The network and the access point are stored as they were last asked for. *)
ConfsAsAsked ==
  /\ promised.sta # NoConf => staConf = promised.sta
  /\ promised.ap # NoConf => apConf = AccessPoint(promised.ap)

(* While the last config() has not failed, the station has the address it   *)
(* was given, or a DHCP client and none of its own, whatever was begun      *)
(* since.                                                                   *)
AddressAsConfigured ==
  /\ dhcp => staIP = 0
  /\ promised.ip # Unknown => staIP = promised.ip /\ _useStaticIp = (staIP # 0)

(* An access point with an address up to 244 leases others than its own.    *)
LeasesOthers == dhcps.own <= 244 => dhcps.own < dhcps.from /\ dhcps.from < dhcps.to

(* SmartConfig: done is said only after a network was heard, and the flag   *)
(* agrees with the driver but while it is being started.                    *)
SmartAgrees ==
  /\ smartConfigDone => smart \in {"linked", "over"}
  /\ calling["sketch"].op # "flags" => _smartConfigStarted = (smart # "off")

(* Why: a call knows what it will turn on and off, for a driver that is     *)
(* ready; and while SmartConfig is being started no flag says so.           *)
Flags == [op |-> "flags"]

KnownCall(call) ==
  /\ call = [op |-> call.op, arg |-> call.arg, on |-> call.on, off |-> call.off, read |-> call.read]
  /\ call.on \in Modes /\ call.off \in Modes /\ call.read \in Modes
  /\ \/ call.op = "mode"
     \/ call.op = "begin" /\ call.on = {"STA"} /\ call.off = {}
        /\ call.arg \in StaConfs \cup {NoConf, Invalid}
     \/ call.op = "config" /\ call.on = {"STA"} /\ call.off = {} /\ call.arg \in {0, 1}
     \/ call.op = "softAP" /\ call.on = {"AP"} /\ call.off = {}
        /\ call.arg \in ApConfs \cup {Invalid}
     \/ call.op = "softAPConfig" /\ call.on = {"AP"} /\ call.off = {} /\ call.arg \in Octets
     \/ call.op = "beginSmartConfig" /\ call.on = {"STA"} /\ call.off = {"AP"}

CallsKnown ==
  /\ calling = [t \in Callers |-> calling[t]]
  /\ calling["sketch"] = Free \/ calling["sketch"] = Flags \/ KnownCall(calling["sketch"])
  /\ calling["event"] = Free \/ (KnownCall(calling["event"]) /\ calling["event"].op = "begin")

ReadyFirst ==
  /\ ~radioState.ready => radioState.mode = {}
  /\ expiry => radioState.ready
  /\ \A t \in Callers : calling[t] # Free => radioState.ready

PromisesKnown ==
  /\ promised = [mode |-> promised.mode, sta |-> promised.sta, ap |-> promised.ap, ip |-> promised.ip]
  /\ promised.mode \in Modes /\ promised.ip \in {0, 1, Unknown}

SmartStarting ==
  /\ calling["sketch"].op = "beginSmartConfig" => ~_smartConfigStarted
  /\ calling["sketch"].op = "flags" => ~_smartConfigStarted /\ smart # "off"

RadioIInv ==
  /\ RadioTypeOK /\ CallsKnown /\ ReadyFirst /\ PromisesKnown /\ SmartStarting
  /\ FlagSafe /\ ModeAsAsked /\ ConfsAsAsked /\ AddressAsConfigured /\ LeasesOthers /\ SmartAgrees

(* What holds of the radio at every step.                                   *)
RadioInv ==
  RadioTypeOK /\ FlagSafe /\ ModeAsAsked /\ ConfsAsAsked /\ AddressAsConfigured /\ LeasesOthers
  /\ SmartAgrees
=============================================================================
