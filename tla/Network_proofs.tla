--------------------------- MODULE Network_proofs ---------------------------
(***************************************************************************)
(* Proofs about the network library: the radio, the events, Ethernet, mDNS  *)
(* and the sockets, for every value of the constants, any number of calls   *)
(* and any failures of what lies below.                                     *)
(***************************************************************************)
EXTENDS WiFiRadio, WiFiEvents, ETHClass, MDNSResponder, WiFiClient, WiFiServer, WiFiUdp,
        SequenceTheorems, FiniteSetTheorems, WellFoundedInduction, TLAPS

(***************************************************************************)
(* The radio (WiFiRadio).                                                   *)
(***************************************************************************)
(* The calls that read the mode are known ones.                             *)
LEMMA CallsAreKnown ==
  ASSUME NEW call \in Calls \cup {Call("mode", NoConf, {}, {"STA"}), Call("mode", NoConf, {}, {"AP"})},
         NEW m \in Modes
  PROVE  KnownCall([call EXCEPT !.read = m])
<1>1. CASE call \in {Call("mode", NoConf, {}, {"STA"}), Call("mode", NoConf, {}, {"AP"})}
  BY <1>1 DEF Call, KnownCall, Modes
<1>2. CASE call \in Calls
  <2>1. CASE \E n \in Modes : call = Call("mode", NoConf, n, {"STA", "AP"} \ n)
    BY <2>1 DEF Call, KnownCall, Modes
  <2>2. CASE \E conf \in StaConfs \cup {NoConf, Invalid} : call = Call("begin", conf, {"STA"}, {})
    BY <2>2 DEF Call, KnownCall, Modes
  <2>3. CASE \E a \in {0, 1} : call = Call("config", a, {"STA"}, {})
    BY <2>3 DEF Call, KnownCall, Modes
  <2>4. CASE \E conf \in ApConfs \cup {Invalid} : call = Call("softAP", conf, {"AP"}, {})
    BY <2>4 DEF Call, KnownCall, Modes
  <2>5. CASE \E n \in Octets : call = Call("softAPConfig", n, {"AP"}, {})
    BY <2>5 DEF Call, KnownCall, Modes
  <2>6. CASE call = Call("beginSmartConfig", NoConf, {"STA"}, {"AP"})
    BY <2>6 DEF Call, KnownCall, Modes
  <2> QED BY <1>2, <2>1, <2>2, <2>3, <2>4, <2>5, <2>6 DEF Calls
<1> QED BY <1>1, <1>2

LEMMA RadioInitial == RadioInit => RadioIInv
<1> SUFFICES ASSUME RadioInit PROVE RadioIInv
  OBVIOUS
<1> USE RadioAssumption
<1>1. RadioTypeOK
  <2>1. radioState \in [ready : BOOLEAN, mode : Modes, on : BOOLEAN] /\ _esp_wifi_started \in BOOLEAN
    BY DEF RadioInit, Modes
  <2>2. {_useStaticIp, dhcp, _smartConfigStarted, _smartConfigDone, expiry, modeRaced} \subseteq BOOLEAN
    BY Zenon DEF RadioInit
  <2>3. /\ staIP \in {0, 1} /\ smart \in {"off", "on", "linked", "over"}
        /\ {dhcps.from, dhcps.to} \subseteq 0 .. 255
        /\ radioCalls \in 0 .. MaxRadioCalls /\ errors \in 0 .. MaxErrors
    BY DEF RadioInit
  <2>4. dhcps.on \in BOOLEAN
    BY DEF RadioInit
  <2> QED BY <2>1, <2>2, <2>3, <2>4 DEF RadioInit, RadioTypeOK
<1>2. CallsKnown /\ ReadyFirst /\ SmartStarting
  BY DEF RadioInit, CallsKnown, ReadyFirst, SmartStarting, Callers, Free
<1>3. PromisesKnown
  BY DEF RadioInit, PromisesKnown, Modes
<1>4. FlagSafe /\ ModeAsAsked /\ ConfsAsAsked /\ AddressAsConfigured /\ LeasesOthers
  <2>1. FlagSafe /\ ModeAsAsked
    BY DEF RadioInit, FlagSafe, ModeAsAsked
  <2>2. ConfsAsAsked
    BY DEF RadioInit, ConfsAsAsked
  <2>3. AddressAsConfigured
    BY DEF RadioInit, AddressAsConfigured, Unknown
  <2>4. LeasesOthers
    BY DEF RadioInit, LeasesOthers
  <2> QED BY <2>1, <2>2, <2>3, <2>4
<1>5. SmartAgrees
  BY DEF RadioInit, SmartAgrees, smartConfigDone
<1> QED BY <1>1, <1>2, <1>3, <1>4, <1>5 DEF RadioIInv

(* mode: what it says, writes and starts, and what the flag is then.        *)
LEMMA ModeWrites ==
  ASSUME RadioIInv, NEW m \in Modes, NEW fault
  PROVE  LET new == mode(m, fault)
         IN  /\ new.radio \in [ready : BOOLEAN, mode : Modes, on : BOOLEAN]
             /\ new.started \in BOOLEAN
             /\ new.radio.ready = radioState.ready
             /\ new.ok => new.radio.mode = m
             /\ new.started => new.radio.on
             /\ errors = 0 /\ fault = "none" /\ new.radio.mode # {} => new.radio.on
<1>1. /\ radioState = [ready |-> radioState.ready, mode |-> radioState.mode, on |-> radioState.on]
      /\ radioState.ready \in BOOLEAN /\ radioState.on \in BOOLEAN /\ radioState.mode \in Modes
      /\ _esp_wifi_started \in BOOLEAN
  BY DEF RadioIInv, RadioTypeOK
<1>2. /\ _esp_wifi_started => radioState.on
      /\ errors = 0 /\ radioState.mode # {} => radioState.on
  BY DEF RadioIInv, FlagSafe
<1> DEFINE new == mode(m, fault)
<1>3. CASE m = radioState.mode \/ fault = "set_mode"
  <2>1. /\ new.radio = radioState /\ new.started = _esp_wifi_started
        /\ new.ok = (m = radioState.mode)
    BY <1>3 DEF mode
  <2> QED BY <1>1, <1>2, <2>1, Zenon DEF RadioIInv, RadioTypeOK
<1>4. CASE ~(m = radioState.mode \/ fault = "set_mode") /\ _esp_wifi_started = (m # {})
  <2>1. /\ new.radio = [ready |-> radioState.ready, mode |-> m, on |-> radioState.on]
        /\ new.started = _esp_wifi_started
    BY <1>1, <1>4 DEF mode
  <2>2. m # {} => radioState.on
    BY <1>2, <1>4
  <2> QED BY <1>1, <1>2, <2>1, <2>2
<1>5. CASE ~(m = radioState.mode \/ fault = "set_mode") /\ ~(_esp_wifi_started = (m # {}))
           /\ fault = "start"
  <2>1. /\ new.radio = [ready |-> radioState.ready, mode |-> m, on |-> radioState.on]
        /\ new.started = _esp_wifi_started
    BY <1>1, <1>5 DEF mode
  <2> QED BY <1>1, <1>2, <1>5, <2>1
<1>6. CASE ~(m = radioState.mode \/ fault = "set_mode") /\ ~(_esp_wifi_started = (m # {}))
           /\ fault # "start"
  <2>1. /\ new.radio = [ready |-> radioState.ready, mode |-> m, on |-> m # {}]
        /\ new.started = (m # {})
    BY <1>1, <1>6 DEF mode
  <2>2. new.radio.ready = radioState.ready /\ new.radio.mode = m
    BY <2>1
  <2>3. new.radio.on = (m # {})
    BY <2>1
  <2>4. new.radio \in [ready : BOOLEAN, mode : Modes, on : BOOLEAN]
    <3> DEFINE runs == m # {}
    <3>1. runs \in BOOLEAN
      BY Zenon
    <3>2. new.radio = [ready |-> radioState.ready, mode |-> m, on |-> runs]
      BY <2>1
    <3> HIDE DEF new, runs
    <3> QED BY <1>1, <3>1, <3>2
  <2>5. new.started \in BOOLEAN
    BY <2>1, Zenon
  <2>6. new.ok => new.radio.mode = m
    BY <2>2
  <2> HIDE DEF new
  <2>7. new.started => new.radio.on
    BY <2>1, <2>3, Zenon
  <2>8. new.radio.mode # {} => new.radio.on
    BY <2>2, <2>3, Zenon
  <2> QED BY <2>2, <2>4, <2>5, <2>6, <2>7, <2>8 DEF new
<1> QED BY <1>3, <1>4, <1>5, <1>6

(* What Write does to the radio, and which call it finishes.                *)
LEMMA WriteRadio ==
  ASSUME RadioIInv, NEW t \in Callers, NEW fault, Write(t, fault)
  PROVE  /\ radioState' \in [ready : BOOLEAN, mode : Modes, on : BOOLEAN]
         /\ _esp_wifi_started' \in BOOLEAN
         /\ radioState'.ready = radioState.ready
         /\ FlagSafe'
         /\ \/ /\ FinishCall(calling[t], fault)
               /\ \/ radioState'.mode = Asked(calling[t])
                  \/ OneInterface(calling[t]) /\ calling[t].read # radioState.mode
            \/ /\ promised' = [promised EXCEPT !.mode = radioState'.mode]
               /\ UNCHANGED <<confs, address, smartVars>>
<1> DEFINE call == calling[t]
           set == IF WasSo(call) THEN [radio |-> radioState, started |-> _esp_wifi_started, ok |-> TRUE]
                  ELSE mode(Asked(call), fault)
<1>1. KnownCall(call)
  BY DEF Write, RadioIInv, CallsKnown, Callers, Flags
<1>2. Asked(call) \in Modes
  BY <1>1 DEF KnownCall, Asked, Modes
<1>3. /\ set.radio \in [ready : BOOLEAN, mode : Modes, on : BOOLEAN]
      /\ set.started \in BOOLEAN
      /\ set.radio.ready = radioState.ready
      /\ set.ok => \/ set.radio.mode = Asked(call)
                   \/ OneInterface(call) /\ call.read # radioState.mode
      /\ set.started => set.radio.on
      /\ errors = 0 /\ fault = "none" /\ set.radio.mode # {} => set.radio.on
  <2>1. CASE WasSo(call)
    <3>1. set.radio = radioState /\ set.started = _esp_wifi_started
      BY <2>1
    <3>2. Asked(call) = call.read /\ OneInterface(call)
      BY <2>1 DEF WasSo
    <3> QED BY <3>1, <3>2, Zenon DEF RadioIInv, RadioTypeOK, FlagSafe
  <2>2. CASE ~WasSo(call)
    BY <1>2, <2>2, ModeWrites
  <2> QED BY <2>1, <2>2
<1>4. /\ _esp_wifi_started' = set.started
      /\ radioState' = IF set.ok /\ StartsRadio(call) THEN [set.radio EXCEPT !.on = TRUE] ELSE set.radio
      /\ RadioFault(fault)
      /\ IF set.ok THEN FinishCall(call, fault)
         ELSE /\ promised' = [promised EXCEPT !.mode = set.radio.mode]
              /\ UNCHANGED <<confs, address, smartVars>>
  BY DEF Write
<1>5. errors' = 0 => errors = 0 /\ fault = "none"
  BY <1>4 DEF RadioFault, RadioIInv, RadioTypeOK
<1> HIDE DEF set
<1>6. /\ radioState' \in [ready : BOOLEAN, mode : Modes, on : BOOLEAN]
      /\ radioState'.ready = set.radio.ready /\ radioState'.mode = set.radio.mode
      /\ radioState'.on \/ radioState'.on = set.radio.on
  BY <1>3, <1>4
<1>7. FlagSafe'
  BY <1>3, <1>4, <1>5, <1>6, Zenon DEF FlagSafe
<1> QED BY <1>3, <1>4, <1>6, <1>7

(* What holds of the settings, and what a call leaves of it that has got    *)
(* its mode.                                                                *)
SettingsOK ==
  /\ staConf \in StaConfs \cup {NoConf}
  /\ apConf \in {AccessPoint(conf) : conf \in ApConfs \cup {NoConf}}
  /\ _useStaticIp \in BOOLEAN /\ dhcp \in BOOLEAN /\ staIP \in {0, 1}
  /\ dhcps.on \in BOOLEAN /\ {dhcps.from, dhcps.to} \subseteq 0 .. 255
  /\ PromisesKnown /\ ConfsAsAsked /\ AddressAsConfigured /\ LeasesOthers

SmartOK ==
  /\ _smartConfigStarted \in BOOLEAN /\ _smartConfigDone \in BOOLEAN
  /\ smart \in {"off", "on", "linked", "over"}

LEMMA SettingsHold == RadioIInv => SettingsOK /\ SmartOK
<1> SUFFICES ASSUME RadioIInv PROVE SettingsOK /\ SmartOK
  OBVIOUS
<1>1. /\ _useStaticIp \in BOOLEAN /\ dhcp \in BOOLEAN
      /\ _smartConfigStarted \in BOOLEAN /\ _smartConfigDone \in BOOLEAN
  BY Zenon DEF RadioIInv, RadioTypeOK
<1> QED BY <1>1 DEF RadioIInv, RadioTypeOK, SettingsOK, SmartOK

LEMMA BeginKeeps ==
  ASSUME SettingsOK, NEW conf \in StaConfs \cup {NoConf, Invalid}, NEW fault, beginSTA(conf, fault)
  PROVE  /\ SettingsOK' /\ UNCHANGED smartVars
         /\ promised'.mode = promised.mode \cup {"STA"}
<1>1. UNCHANGED <<_useStaticIp, apConf, dhcps, smartVars>>
  BY DEF beginSTA
<1>2. /\ promised'.mode = promised.mode \cup {"STA"} /\ promised'.ap = promised.ap
      /\ promised'.ip = promised.ip
      /\ promised' = [mode |-> promised'.mode, sta |-> promised'.sta, ap |-> promised'.ap,
                      ip |-> promised'.ip]
      /\ promised'.sta = IF conf = Invalid \/ conf = NoConf THEN promised.sta
                         ELSE IF fault = "set_config" THEN NoConf ELSE conf
  BY Zenon DEF beginSTA, SettingsOK, PromisesKnown
<1>3. PromisesKnown'
  BY <1>2 DEF SettingsOK, PromisesKnown, Modes
<1>4. /\ staConf' \in StaConfs \cup {NoConf}
      /\ promised'.sta # NoConf => staConf' = promised'.sta
  <2>1. staConf' = IF conf = Invalid \/ (conf = NoConf \/ conf = staConf) \/ fault = "set_config"
                   THEN staConf ELSE conf
    BY DEF beginSTA
  <2> QED BY <1>2, <2>1 DEF SettingsOK, ConfsAsAsked
<1>5. ConfsAsAsked'
  BY <1>1, <1>2, <1>4 DEF SettingsOK, ConfsAsAsked
<1>6. /\ dhcp' = IF conf = Invalid THEN dhcp ELSE ~_useStaticIp
      /\ staIP' = IF dhcp' THEN 0 ELSE staIP
  BY DEF beginSTA
<1>7. dhcp' \in BOOLEAN /\ staIP' \in {0, 1}
  <2>1. dhcp' \in BOOLEAN
    BY <1>6, Zenon DEF SettingsOK
  <2>2. staIP' \in {0, 1}
    BY <1>6 DEF SettingsOK
  <2> QED BY <2>1, <2>2
<1>8. AddressAsConfigured'
  <2>1. dhcp' => staIP' = 0
    BY <1>6
  <2>2. promised.ip # Unknown => staIP' = staIP
    BY <1>6 DEF SettingsOK, AddressAsConfigured
  <2> QED BY <1>1, <1>2, <2>1, <2>2 DEF SettingsOK, AddressAsConfigured
<1> QED BY <1>1, <1>2, <1>3, <1>4, <1>5, <1>7, <1>8 DEF SettingsOK, LeasesOthers

LEMMA ConfigKeeps ==
  ASSUME SettingsOK, NEW local_ip \in {0, 1}, NEW fault, configSTA(local_ip, fault)
  PROVE  /\ SettingsOK' /\ UNCHANGED smartVars
         /\ promised'.mode = promised.mode \cup {"STA"}
<1> DEFINE failed == fault \in {"dhcpc_stop", "set_ip"} \/ (fault = "dhcpc_start" /\ local_ip = 0)
<1>1. UNCHANGED <<staConf, apConf, dhcps, smartVars>>
  BY DEF configSTA, confs
<1>2. /\ promised'.mode = promised.mode \cup {"STA"} /\ promised'.ap = promised.ap
      /\ promised'.sta = promised.sta
      /\ promised' = [mode |-> promised'.mode, sta |-> promised'.sta, ap |-> promised'.ap,
                      ip |-> promised'.ip]
      /\ promised'.ip = IF failed THEN Unknown ELSE local_ip
  BY Zenon DEF configSTA, SettingsOK, PromisesKnown
<1>3. /\ dhcp' = IF fault = "dhcpc_stop" THEN dhcp ELSE local_ip = 0 /\ ~failed
      /\ staIP' = IF fault \in {"dhcpc_stop", "set_ip"} THEN staIP ELSE local_ip
      /\ _useStaticIp' = IF failed THEN _useStaticIp ELSE local_ip # 0
  BY DEF configSTA
<1>4. dhcp' \in BOOLEAN /\ _useStaticIp' \in BOOLEAN
  <2> DEFINE leased == local_ip = 0 /\ ~failed
             own    == local_ip # 0
  <2>1. leased \in BOOLEAN /\ own \in BOOLEAN
    BY Zenon
  <2>2. dhcp' = dhcp \/ dhcp' = leased
    BY <1>3
  <2>3. _useStaticIp' = _useStaticIp \/ _useStaticIp' = own
    BY <1>3
  <2> HIDE DEF leased, own
  <2> QED BY <2>1, <2>2, <2>3, Zenon DEF SettingsOK
<1>5. staIP' \in {0, 1}
  BY <1>3 DEF SettingsOK
<1>6. PromisesKnown'
  BY <1>2 DEF SettingsOK, PromisesKnown, Modes
<1>7. ConfsAsAsked' /\ LeasesOthers'
  BY <1>1, <1>2 DEF SettingsOK, ConfsAsAsked, LeasesOthers
<1>8. AddressAsConfigured'
  <2>1. dhcp' => staIP' = 0
    BY <1>3 DEF SettingsOK, AddressAsConfigured
  <2>2. ~failed => staIP' = local_ip /\ _useStaticIp' = (local_ip # 0) /\ promised'.ip = local_ip
    BY <1>2, <1>3
  <2>3. failed => promised'.ip = Unknown
    BY <1>2
  <2> HIDE DEF failed
  <2> QED BY <2>1, <2>2, <2>3, Zenon DEF AddressAsConfigured
<1> QED BY <1>1, <1>2, <1>4, <1>5, <1>6, <1>7, <1>8 DEF SettingsOK

LEMMA SoftAPKeeps ==
  ASSUME SettingsOK, NEW conf \in ApConfs \cup {Invalid}, NEW fault, softAP(conf, fault)
  PROVE  /\ SettingsOK' /\ UNCHANGED smartVars
         /\ promised'.mode = promised.mode \cup {"AP"}
<1> DEFINE same == softap_config_equal(AccessPoint(conf), apConf)
           ok   == conf # Invalid /\ (same \/ fault # "set_config")
<1>1. UNCHANGED <<staConf, dhcps, _useStaticIp, staIP, dhcp, smartVars>>
  BY DEF softAP, address
<1>2. /\ promised'.mode = promised.mode \cup {"AP"} /\ promised'.sta = promised.sta
      /\ promised'.ip = promised.ip
      /\ promised' = [mode |-> promised'.mode, sta |-> promised'.sta, ap |-> promised'.ap,
                      ip |-> promised'.ip]
      /\ promised'.ap = IF ok THEN conf ELSE promised.ap
  BY Zenon DEF softAP, SettingsOK, PromisesKnown
<1>3. apConf' = IF ok /\ ~same THEN AccessPoint(conf) ELSE apConf
  BY DEF softAP
<1>4. same => apConf = AccessPoint(conf)
  <2>1. PICK c \in ApConfs \cup {NoConf} : apConf = AccessPoint(c)
    BY DEF SettingsOK
  <2> QED BY <2>1 DEF softap_config_equal, AccessPoint
<1>5. ok => conf \in ApConfs /\ apConf' = AccessPoint(conf)
  BY <1>3, <1>4
<1>6. ~ok => apConf' = apConf
  BY <1>3
<1> HIDE DEF ok, same
<1>7. PromisesKnown'
  BY <1>2 DEF SettingsOK, PromisesKnown, Modes
<1>8. ConfsAsAsked'
  BY <1>1, <1>2, <1>5, <1>6 DEF SettingsOK, ConfsAsAsked
<1>9. apConf' \in {AccessPoint(c) : c \in ApConfs \cup {NoConf}}
  BY <1>5, <1>6 DEF SettingsOK
<1>10. AddressAsConfigured' /\ LeasesOthers'
  BY <1>1, <1>2 DEF SettingsOK, AddressAsConfigured, LeasesOthers
<1> QED BY <1>1, <1>2, <1>7, <1>8, <1>9, <1>10 DEF SettingsOK

LEMMA SoftAPConfigKeeps ==
  ASSUME SettingsOK, NEW octet \in Octets, NEW fault, softAPConfig(octet, fault)
  PROVE  /\ SettingsOK' /\ UNCHANGED smartVars
         /\ promised'.mode = promised.mode \cup {"AP"}
<1> USE RadioAssumption
<1> DEFINE moved == fault # "set_ip"
           runs  == moved /\ fault # "dhcps_start"
           first == (octet + 1) % 256
           last  == (octet + 11) % 256
<1>1. UNCHANGED <<staConf, apConf, _useStaticIp, staIP, dhcp, smartVars>>
  BY DEF softAPConfig, address
<1>2. /\ promised'.mode = promised.mode \cup {"AP"} /\ promised'.sta = promised.sta
      /\ promised'.ip = promised.ip /\ promised'.ap = promised.ap
      /\ promised' = [mode |-> promised'.mode, sta |-> promised'.sta, ap |-> promised'.ap,
                      ip |-> promised'.ip]
  BY Zenon DEF softAPConfig, SettingsOK, PromisesKnown
<1>3. /\ dhcps'.on = runs
      /\ dhcps'.own = IF moved THEN octet ELSE dhcps.own
      /\ dhcps'.from = IF moved THEN first ELSE dhcps.from
      /\ dhcps'.to = IF moved THEN last ELSE dhcps.to
  BY DEF softAPConfig
<1>4. /\ first \in 0 .. 255 /\ last \in 0 .. 255
      /\ octet <= 244 => octet < first /\ first < last
  OBVIOUS
<1>5. runs \in BOOLEAN
  BY Zenon
<1> HIDE DEF runs, moved, first, last
<1>6. dhcps'.on \in BOOLEAN /\ {dhcps'.from, dhcps'.to} \subseteq 0 .. 255
  <2>1. dhcps'.on \in BOOLEAN
    BY <1>3, <1>5, Zenon
  <2>2. dhcps'.from \in 0 .. 255 /\ dhcps'.to \in 0 .. 255
    BY <1>3, <1>4 DEF SettingsOK
  <2> QED BY <2>1, <2>2
<1>7. LeasesOthers'
  <2>1. CASE moved
    BY <1>3, <1>4, <2>1 DEF LeasesOthers
  <2>2. CASE ~moved
    BY <1>3, <2>2 DEF SettingsOK, LeasesOthers
  <2> QED BY <2>1, <2>2
<1>8. PromisesKnown'
  BY <1>2 DEF SettingsOK, PromisesKnown, Modes
<1>9. ConfsAsAsked' /\ AddressAsConfigured'
  BY <1>1, <1>2 DEF SettingsOK, ConfsAsAsked, AddressAsConfigured
<1> QED BY <1>1, <1>2, <1>6, <1>7, <1>8, <1>9 DEF SettingsOK

LEMMA PromiseKeeps ==
  ASSUME SettingsOK, NEW m \in Modes, promised' = [promised EXCEPT !.mode = m],
         UNCHANGED <<confs, address>>
  PROVE  SettingsOK' /\ promised'.mode = m
<1>1. UNCHANGED <<staConf, apConf, dhcps, _useStaticIp, staIP, dhcp>>
  BY DEF confs, address
<1>2. /\ promised'.mode = m /\ promised'.sta = promised.sta
      /\ promised'.ip = promised.ip /\ promised'.ap = promised.ap
      /\ promised' = [mode |-> promised'.mode, sta |-> promised'.sta, ap |-> promised'.ap,
                      ip |-> promised'.ip]
  BY Zenon DEF SettingsOK, PromisesKnown
<1>3. PromisesKnown'
  BY <1>2 DEF SettingsOK, PromisesKnown
<1>4. ConfsAsAsked' /\ AddressAsConfigured' /\ LeasesOthers'
  BY <1>1, <1>2 DEF SettingsOK, ConfsAsAsked, AddressAsConfigured, LeasesOthers
<1> QED BY <1>1, <1>2, <1>3, <1>4 DEF SettingsOK

(* The rest of any call: what it turns on and off is promised, and only     *)
(* beginSmartConfig touches SmartConfig.                                    *)
LEMMA CallKeeps ==
  ASSUME SettingsOK, NEW call, KnownCall(call), NEW fault, FinishCall(call, fault)
  PROVE  /\ SettingsOK'
         /\ promised'.mode = (promised.mode \ call.off) \cup call.on
         /\ call.op # "beginSmartConfig" => UNCHANGED smartVars
         /\ call.op = "beginSmartConfig" =>
              UNCHANGED <<_smartConfigStarted, _smartConfigDone>>
              /\ smart' = IF smart = "off" /\ fault # "smart_start" THEN "on" ELSE smart
<1>1. promised.mode \in Modes
  BY DEF SettingsOK, PromisesKnown
<1>2. CASE call.op = "begin"
  <2>1. /\ call.on = {"STA"} /\ call.off = {} /\ call.arg \in StaConfs \cup {NoConf, Invalid}
        /\ beginSTA(call.arg, fault)
    BY <1>2 DEF KnownCall, FinishCall
  <2>2. SettingsOK' /\ UNCHANGED smartVars /\ promised'.mode = promised.mode \cup {"STA"}
    BY <2>1, BeginKeeps
  <2> QED BY <1>2, <2>1, <2>2
<1>3. CASE call.op = "config"
  <2>1. /\ call.on = {"STA"} /\ call.off = {} /\ call.arg \in {0, 1}
        /\ configSTA(call.arg, fault)
    BY <1>3 DEF KnownCall, FinishCall
  <2>2. SettingsOK' /\ UNCHANGED smartVars /\ promised'.mode = promised.mode \cup {"STA"}
    BY <2>1, ConfigKeeps
  <2> QED BY <1>3, <2>1, <2>2
<1>4. CASE call.op = "softAP"
  <2>1. /\ call.on = {"AP"} /\ call.off = {} /\ call.arg \in ApConfs \cup {Invalid}
        /\ softAP(call.arg, fault)
    BY <1>4 DEF KnownCall, FinishCall
  <2>2. SettingsOK' /\ UNCHANGED smartVars /\ promised'.mode = promised.mode \cup {"AP"}
    BY <2>1, SoftAPKeeps
  <2> QED BY <1>4, <2>1, <2>2
<1>5. CASE call.op = "softAPConfig"
  <2>1. /\ call.on = {"AP"} /\ call.off = {} /\ call.arg \in Octets
        /\ softAPConfig(call.arg, fault)
    BY <1>5 DEF KnownCall, FinishCall
  <2>2. SettingsOK' /\ UNCHANGED smartVars /\ promised'.mode = promised.mode \cup {"AP"}
    BY <2>1, SoftAPConfigKeeps
  <2> QED BY <1>5, <2>1, <2>2
<1>6. CASE call.op = "beginSmartConfig"
  <2>1. call.on = {"STA"} /\ call.off = {"AP"} /\ beginSmartConfig(fault)
    BY <1>6 DEF KnownCall, FinishCall
  <2>2. {"STA"} \in Modes
    BY DEF Modes
  <2>3. SettingsOK' /\ promised'.mode = {"STA"}
    BY <2>1, <2>2, PromiseKeeps DEF beginSmartConfig
  <2>4. promised'.mode = (promised.mode \ call.off) \cup call.on
    BY <1>1, <2>1, <2>3 DEF Modes
  <2> QED BY <1>6, <2>1, <2>3, <2>4 DEF beginSmartConfig
<1>7. CASE call.op = "mode"
  <2> DEFINE m == (promised.mode \ call.off) \cup call.on
  <2>1. promised' = [promised EXCEPT !.mode = m] /\ UNCHANGED <<confs, address, smartVars>>
    BY <1>7 DEF FinishCall
  <2>2. m \in Modes
    BY <1>1 DEF Modes, KnownCall
  <2> QED BY <1>7, <2>1, <2>2, PromiseKeeps
<1> QED BY <1>2, <1>3, <1>4, <1>5, <1>6, <1>7 DEF KnownCall

LEMMA WriteKeeps ==
  ASSUME RadioIInv, NEW t \in Callers, NEW fault, Write(t, fault)
  PROVE  RadioIInv'
<1> DEFINE call == calling[t]
<1>1. SettingsOK /\ SmartOK
  BY SettingsHold
<1>2. KnownCall(call) /\ call # Free /\ call.op # "flags"
  BY DEF Write, RadioIInv, CallsKnown, Callers, Flags
<1>3. /\ radioState' \in [ready : BOOLEAN, mode : Modes, on : BOOLEAN]
      /\ _esp_wifi_started' \in BOOLEAN
      /\ radioState'.ready = radioState.ready
      /\ FlagSafe'
  BY WriteRadio
<1>4. \/ /\ FinishCall(call, fault)
         /\ \/ radioState'.mode = Asked(call)
            \/ OneInterface(call) /\ call.read # radioState.mode
      \/ /\ promised' = [promised EXCEPT !.mode = radioState'.mode]
         /\ UNCHANGED <<confs, address, smartVars>>
  BY WriteRadio
<1>5. /\ RadioFault(fault) /\ UNCHANGED <<expiry, radioCalls>>
      /\ modeRaced' = (modeRaced \/ (call.read # radioState.mode /\ OneInterface(call)))
      /\ calling' = [calling EXCEPT ![t] =
                       IF call.op = "beginSmartConfig" /\ smart # smart' THEN [op |-> "flags"] ELSE Free]
  BY DEF Write
<1>6. radioState'.mode \in Modes
  BY <1>3
<1>7. SettingsOK'
  BY <1>1, <1>2, <1>4, <1>6, CallKeeps, PromiseKeeps
<1>8. /\ UNCHANGED <<_smartConfigStarted, _smartConfigDone>>
      /\ \/ UNCHANGED smart
         \/ call.op = "beginSmartConfig" /\ smart = "off" /\ smart' = "on"
  BY <1>1, <1>2, <1>4, CallKeeps DEF smartVars
<1>9. SmartOK'
  BY <1>1, <1>8 DEF SmartOK
<1>10. ModeAsAsked'
  <2> SUFFICES ASSUME ~modeRaced' PROVE radioState'.mode = promised'.mode
    BY DEF ModeAsAsked
  <2>1. ~modeRaced /\ ~(call.read # radioState.mode /\ OneInterface(call))
    BY <1>5, Zenon
  <2>2. radioState.mode = promised.mode /\ promised.mode \in Modes
    BY <1>1, <2>1 DEF RadioIInv, ModeAsAsked, SettingsOK, PromisesKnown
  <2>3. CASE FinishCall(call, fault) /\ radioState'.mode = Asked(call)
    <3>1. promised'.mode = (promised.mode \ call.off) \cup call.on
      BY <1>1, <1>2, <2>3, CallKeeps
    <3>2. CASE call.read = radioState.mode
      BY <2>2, <2>3, <3>1, <3>2 DEF Asked
    <3>3. CASE ~OneInterface(call)
      BY <1>2, <2>2, <2>3, <3>1, <3>3 DEF Asked, OneInterface, KnownCall, Modes
    <3> QED BY <2>1, <3>2, <3>3
  <2>4. CASE /\ promised' = [promised EXCEPT !.mode = radioState'.mode]
             /\ UNCHANGED <<confs, address, smartVars>>
    BY <1>1, <1>6, <2>4, PromiseKeeps
  <2> QED BY <1>4, <2>1, <2>3, <2>4
<1>11. RadioTypeOK'
  <2>1. errors' \in 0 .. MaxErrors /\ radioCalls' \in 0 .. MaxRadioCalls
    BY <1>5, RadioAssumption DEF RadioFault, RadioIInv, RadioTypeOK
  <2>2. modeRaced' \in BOOLEAN /\ expiry' \in BOOLEAN
    <3>1. expiry \in BOOLEAN
      BY Zenon DEF RadioIInv, RadioTypeOK
    <3> QED BY <1>5, <3>1, Zenon
  <2>3. {_useStaticIp, dhcp, _smartConfigStarted, _smartConfigDone, expiry, modeRaced}' \subseteq BOOLEAN
    BY <1>7, <1>9, <2>2, Zenon DEF SettingsOK, SmartOK
  <2> QED BY <1>3, <1>7, <1>9, <2>1, <2>3, Zenon DEF SettingsOK, SmartOK, RadioTypeOK
<1>12. CallsKnown'
  <2>1. \/ calling' = [calling EXCEPT ![t] = Free]
        \/ call.op = "beginSmartConfig" /\ calling' = [calling EXCEPT ![t] = Flags]
    BY <1>5 DEF Flags
  <2>2. CASE t = "event"
    <3>1. call.op = "begin"
      BY <1>2, <2>2 DEF RadioIInv, CallsKnown
    <3>2. calling' = [calling EXCEPT !["event"] = Free]
      BY <2>1, <2>2, <3>1
    <3>3. /\ calling' = [u \in Callers |-> calling'[u]]
          /\ calling'["sketch"] = calling["sketch"] /\ calling'["event"] = Free
      BY <3>2 DEF RadioIInv, CallsKnown, Callers
    <3> QED BY <3>3 DEF RadioIInv, CallsKnown
  <2>3. CASE t = "sketch"
    <3>1. /\ calling' = [u \in Callers |-> calling'[u]]
          /\ calling'["event"] = calling["event"]
          /\ calling'["sketch"] = Free \/ calling'["sketch"] = Flags
      BY <2>1, <2>3 DEF RadioIInv, CallsKnown, Callers
    <3> QED BY <3>1 DEF RadioIInv, CallsKnown
  <2> QED BY <2>2, <2>3 DEF Callers
<1>13. ReadyFirst'
  <2>1. radioState.ready
    BY <1>2 DEF RadioIInv, ReadyFirst
  <2> QED BY <1>3, <2>1 DEF ReadyFirst
<1>14. SmartStarting' /\ SmartAgrees'
  <2>1. CASE t = "event"
    <3>1. call.op = "begin" /\ calling'["sketch"] = calling["sketch"]
      BY <1>2, <1>5, <2>1 DEF RadioIInv, CallsKnown, Callers
    <3>2. UNCHANGED <<_smartConfigStarted, _smartConfigDone, smart>>
      BY <1>8, <3>1
    <3> QED BY <3>1, <3>2 DEF RadioIInv, SmartStarting, SmartAgrees, smartConfigDone
  <2>2. CASE t = "sketch"
    <3>1. calling'["sketch"] =
            IF call.op = "beginSmartConfig" /\ smart # smart' THEN [op |-> "flags"] ELSE Free
      BY <1>5, <2>2 DEF RadioIInv, CallsKnown, Callers
    <3>2. /\ call.op = "beginSmartConfig" => ~_smartConfigStarted
          /\ _smartConfigStarted = (smart # "off")
          /\ smartConfigDone => smart \in {"linked", "over"}
      BY <1>2, <2>2 DEF RadioIInv, SmartStarting, SmartAgrees
    <3>3. CASE UNCHANGED smart
      <4>1. calling'["sketch"] = Free
        BY <3>1, <3>3
      <4> QED BY <1>8, <3>2, <3>3, <4>1 DEF SmartStarting, SmartAgrees, smartConfigDone, Free
    <3>4. CASE call.op = "beginSmartConfig" /\ smart = "off" /\ smart' = "on"
      <4>1. calling'["sketch"] = [op |-> "flags"]
        BY <3>1, <3>4
      <4> QED BY <1>8, <3>2, <3>4, <4>1 DEF SmartStarting, SmartAgrees, smartConfigDone
    <3> QED BY <1>8, <3>3, <3>4
  <2> QED BY <2>1, <2>2 DEF Callers
<1> QED BY <1>3, <1>7, <1>10, <1>11, <1>12, <1>13, <1>14, Zenon DEF SettingsOK, RadioIInv

(* Making the driver ready changes no mode, since there is none before.     *)
LEMMA InitKeeps ==
  ASSUME RadioIInv, NEW fault
  PROVE  LET new == wifiLowLevelInit(fault)
         IN  /\ new = [ready |-> new.ready, mode |-> radioState.mode, on |-> radioState.on]
             /\ new.ready \in BOOLEAN
             /\ radioState.ready => new.ready
             /\ fault # "init" => new.ready
<1> DEFINE new == wifiLowLevelInit(fault)
<1>1. /\ radioState = [ready |-> radioState.ready, mode |-> radioState.mode, on |-> radioState.on]
      /\ radioState.ready \in BOOLEAN
  BY DEF RadioIInv, RadioTypeOK
<1>2. CASE radioState.ready \/ fault = "init"
  <2>1. new = radioState
    BY <1>2 DEF wifiLowLevelInit
  <2> QED BY <1>1, <1>2, <2>1, Zenon
<1>3. CASE ~radioState.ready /\ fault # "init"
  <2>1. new = [ready |-> TRUE, mode |-> {}, on |-> radioState.on]
    BY <1>1, <1>3 DEF wifiLowLevelInit
  <2>2. radioState.mode = {}
    BY <1>3 DEF RadioIInv, ReadyFirst
  <2> QED BY <1>3, <2>1, <2>2
<1> QED BY <1>2, <1>3

LEMMA FaultKeeps ==
  ASSUME RadioIInv, NEW fault, RadioFault(fault)
  PROVE  errors' \in 0 .. MaxErrors /\ (errors' = 0 => errors = 0)
BY RadioAssumption DEF RadioFault, RadioIInv, RadioTypeOK

(* The first step of a call of the sketch.                                  *)
LEMMA ReadKeeps ==
  ASSUME RadioIInv, NEW fault, UNCHANGED smartVars,
         NEW call \in Calls \cup {Call("mode", NoConf, {}, {"STA"}), Call("mode", NoConf, {}, {"AP"})},
         ReadMode("sketch", call, fault),
         call.op = "beginSmartConfig" => ~_smartConfigStarted
  PROVE  /\ CallsKnown' /\ SmartStarting' /\ SmartAgrees'
         /\ \A t \in Callers : calling'[t] # Free => wifiLowLevelInit(fault).ready
<1> DEFINE new == wifiLowLevelInit(fault)
           begun == [call EXCEPT !.read = new.mode]
<1>1. new.mode \in Modes
  BY InitKeeps DEF RadioIInv, RadioTypeOK
<1>2. KnownCall(begun)
  BY <1>1, CallsAreKnown
<1>3. begun.op = call.op
  BY DEF Calls, Call
<1>4. /\ calling["sketch"] = Free
      /\ calling' = [calling EXCEPT !["sketch"] = IF fault = "init" THEN Free ELSE begun]
  BY DEF ReadMode
<1> HIDE DEF begun
<1>5. /\ calling' = [t \in Callers |-> calling'[t]]
      /\ calling'["event"] = calling["event"]
      /\ calling'["sketch"] = IF fault = "init" THEN Free ELSE begun
  BY <1>4 DEF RadioIInv, CallsKnown, Callers
<1>6. CallsKnown'
  BY <1>2, <1>5 DEF RadioIInv, CallsKnown
<1>7. calling'["sketch"].op # "flags" /\ (calling'["sketch"].op = "beginSmartConfig" => ~_smartConfigStarted)
  BY <1>2, <1>3, <1>5 DEF KnownCall, Free
<1>8. calling["sketch"].op # "flags"
  BY <1>4 DEF Free
<1>9. SmartStarting' /\ SmartAgrees'
  BY <1>7, <1>8 DEF SmartStarting, SmartAgrees, smartConfigDone, smartVars, RadioIInv
<1>10. calling'["event"] # Free => new.ready
  BY <1>5, InitKeeps DEF RadioIInv, ReadyFirst, Callers
<1>11. calling'["sketch"] # Free => new.ready
  BY <1>5, InitKeeps
<1> QED BY <1>6, <1>9, <1>10, <1>11 DEF Callers

(* What follows of the radio when only the driver was made ready.           *)
LEMMA ReadyKeeps ==
  ASSUME RadioIInv, NEW fault, radioState' = wifiLowLevelInit(fault) \/ radioState' = radioState,
         UNCHANGED <<_esp_wifi_started, promised, modeRaced>>, errors' = 0 => errors = 0
  PROVE  /\ radioState' \in [ready : BOOLEAN, mode : Modes, on : BOOLEAN]
         /\ FlagSafe' /\ ModeAsAsked'
         /\ ~radioState'.ready => radioState'.mode = {}
         /\ radioState.ready => radioState'.ready
<1>1. /\ radioState' = [ready |-> radioState'.ready, mode |-> radioState.mode, on |-> radioState.on]
      /\ radioState'.ready \in BOOLEAN
      /\ radioState.ready => radioState'.ready
      /\ ~radioState'.ready => ~radioState.ready
  BY InitKeeps DEF RadioIInv, RadioTypeOK
<1>2. radioState'.mode = radioState.mode /\ radioState'.on = radioState.on
  BY <1>1
<1>3. radioState' \in [ready : BOOLEAN, mode : Modes, on : BOOLEAN]
  BY <1>1 DEF RadioIInv, RadioTypeOK
<1>4. FlagSafe' /\ ModeAsAsked'
  BY <1>2 DEF RadioIInv, FlagSafe, ModeAsAsked
<1>5. ~radioState'.ready => radioState'.mode = {}
  BY <1>1, <1>2 DEF RadioIInv, ReadyFirst
<1> QED BY <1>1, <1>3, <1>4, <1>5

(* The types at the end of a step, from those of its parts.                 *)
LEMMA TypesKept ==
  ASSUME radioState' \in [ready : BOOLEAN, mode : Modes, on : BOOLEAN],
         _esp_wifi_started' \in BOOLEAN, SettingsOK', SmartOK',
         expiry' \in BOOLEAN, modeRaced' \in BOOLEAN,
         radioCalls' \in 0 .. MaxRadioCalls, errors' \in 0 .. MaxErrors
  PROVE  RadioTypeOK'
<1>1. {_useStaticIp, dhcp, _smartConfigStarted, _smartConfigDone, expiry, modeRaced}' \subseteq BOOLEAN
  BY Zenon DEF SettingsOK, SmartOK
<1> QED BY <1>1, Zenon DEF SettingsOK, SmartOK, RadioTypeOK

LEMMA OldTypes ==
  ASSUME RadioIInv
  PROVE  /\ radioState \in [ready : BOOLEAN, mode : Modes, on : BOOLEAN]
         /\ _esp_wifi_started \in BOOLEAN /\ expiry \in BOOLEAN /\ modeRaced \in BOOLEAN
         /\ radioCalls \in 0 .. MaxRadioCalls /\ errors \in 0 .. MaxErrors
BY Zenon DEF RadioIInv, RadioTypeOK

LEMMA SettingsUnchanged ==
  ASSUME SettingsOK, UNCHANGED <<confs, address, promised>>
  PROVE  SettingsOK'
BY DEF SettingsOK, confs, address, PromisesKnown, ConfsAsAsked, AddressAsConfigured, LeasesOthers

LEMMA SmartUnchanged == ASSUME SmartOK, UNCHANGED smartVars PROVE SmartOK'
BY DEF SmartOK, smartVars

LEMMA SketchKeeps == ASSUME RadioIInv, SketchCalls PROVE RadioIInv'
<1> PICK call \in Calls, fault \in {"none", "init"} :
      /\ call.op = "beginSmartConfig" => ~_smartConfigStarted
      /\ ReadMode("sketch", call, fault) /\ radioState' = wifiLowLevelInit(fault)
      /\ radioCalls < MaxRadioCalls /\ radioCalls' = radioCalls + 1
      /\ UNCHANGED <<_esp_wifi_started, confs, address, smartVars, expiry, promised, modeRaced>>
  BY DEF SketchCalls
<1>1. /\ CallsKnown' /\ SmartStarting' /\ SmartAgrees'
      /\ \A t \in Callers : calling'[t] # Free => radioState'.ready
  BY ReadKeeps
<1>2. errors' \in 0 .. MaxErrors /\ (errors' = 0 => errors = 0)
  BY FaultKeeps DEF ReadMode
<1>3. /\ radioState' \in [ready : BOOLEAN, mode : Modes, on : BOOLEAN]
      /\ FlagSafe' /\ ModeAsAsked'
      /\ ~radioState'.ready => radioState'.mode = {}
      /\ radioState.ready => radioState'.ready
  BY <1>2, ReadyKeeps
<1>4. ReadyFirst'
  BY <1>1, <1>3 DEF RadioIInv, ReadyFirst
<1>5. SettingsOK' /\ SmartOK'
  BY SettingsHold, SettingsUnchanged, SmartUnchanged
<1>6. radioCalls' \in 0 .. MaxRadioCalls
  BY RadioAssumption DEF RadioIInv, RadioTypeOK
<1>7. RadioTypeOK'
  BY <1>2, <1>3, <1>5, <1>6, OldTypes, TypesKept
<1> QED BY <1>1, <1>3, <1>4, <1>5, <1>7, Zenon DEF SettingsOK, RadioIInv

LEMMA ExpireKeeps == ASSUME RadioIInv, Expire PROVE RadioIInv'
<1>1. /\ UNCHANGED <<radioState, _esp_wifi_started, confs, address, smartVars, calling, promised,
                     modeRaced, radioCalls, errors>>
      /\ expiry' = TRUE /\ "STA" \in radioState.mode
  BY DEF Expire, modeVars
<1>2. SettingsOK' /\ SmartOK'
  BY <1>1, SettingsHold, SettingsUnchanged, SmartUnchanged
<1>3. RadioTypeOK'
  BY <1>1, <1>2, OldTypes, TypesKept
<1>4. CallsKnown' /\ ReadyFirst'
  BY <1>1 DEF RadioIInv, CallsKnown, KnownCall, ReadyFirst
<1>5. SmartStarting' /\ SmartAgrees'
  BY <1>1 DEF RadioIInv, SmartStarting, SmartAgrees, smartConfigDone, smartVars
<1>6. FlagSafe' /\ ModeAsAsked'
  BY <1>1 DEF RadioIInv, FlagSafe, ModeAsAsked
<1> QED BY <1>2, <1>3, <1>4, <1>5, <1>6, Zenon DEF SettingsOK, RadioIInv

LEMMA ReconnectKeeps == ASSUME RadioIInv, eventReconnects PROVE RadioIInv'
<1> DEFINE call == Call("begin", NoConf, {"STA"}, {})
           begun == [call EXCEPT !.read = radioState.mode]
<1>1. /\ UNCHANGED <<radioState, _esp_wifi_started, confs, address, smartVars, promised,
                     modeRaced, radioCalls>>
      /\ expiry /\ expiry' = FALSE /\ ReadMode("event", call, "none")
  BY DEF eventReconnects, modeVars
<1>2. radioState.ready
  BY <1>1 DEF RadioIInv, ReadyFirst
<1>3. calling' = [calling EXCEPT !["event"] = begun]
  BY <1>1, <1>2 DEF ReadMode, wifiLowLevelInit
<1>4. call \in Calls /\ radioState.mode \in Modes
  BY OldTypes DEF Calls
<1>5. KnownCall(begun) /\ begun.op = "begin"
  BY <1>4, CallsAreKnown DEF Call
<1> HIDE DEF call, begun
<1>6. /\ calling' = [t \in Callers |-> calling'[t]]
      /\ calling'["sketch"] = calling["sketch"] /\ calling'["event"] = begun
  BY <1>3 DEF RadioIInv, CallsKnown, Callers
<1>7. CallsKnown'
  BY <1>5, <1>6 DEF RadioIInv, CallsKnown
<1>8. ReadyFirst'
  BY <1>1, <1>2 DEF RadioIInv, ReadyFirst
<1>9. SettingsOK' /\ SmartOK'
  BY <1>1, SettingsHold, SettingsUnchanged, SmartUnchanged
<1>10. errors' \in 0 .. MaxErrors /\ (errors' = 0 => errors = 0)
  BY <1>1, FaultKeeps DEF ReadMode
<1>11. RadioTypeOK'
  BY <1>1, <1>9, <1>10, OldTypes, TypesKept
<1>12. SmartStarting' /\ SmartAgrees'
  BY <1>1, <1>6 DEF RadioIInv, SmartStarting, SmartAgrees, smartConfigDone, smartVars
<1>13. FlagSafe' /\ ModeAsAsked'
  BY <1>1, <1>10 DEF RadioIInv, FlagSafe, ModeAsAsked
<1> QED BY <1>7, <1>8, <1>9, <1>11, <1>12, <1>13, Zenon DEF SettingsOK, RadioIInv

LEMMA DisconnectKeeps ==
  ASSUME RadioIInv, NEW wifioff \in BOOLEAN, NEW fault, disconnectSTA(wifioff, fault)
  PROVE  RadioIInv'
<1> DEFINE new == wifiLowLevelInit(fault)
<1>1. /\ UNCHANGED <<_esp_wifi_started, apConf, dhcps, _useStaticIp, staIP, dhcp, smartVars, expiry,
                     modeRaced>>
      /\ radioCalls < MaxRadioCalls /\ radioCalls' = radioCalls + 1
      /\ radioState' = [new EXCEPT !.on = TRUE]
      /\ calling["sketch"] = Free
  BY DEF disconnectSTA, address
<1>2. \/ ReadMode("sketch", Call("mode", NoConf, {}, {"STA"}), fault)
      \/ RadioFault(fault) /\ UNCHANGED calling
  BY DEF disconnectSTA
<1>3. errors' \in 0 .. MaxErrors /\ (errors' = 0 => errors = 0)
  BY <1>2, FaultKeeps DEF ReadMode
<1>4. /\ radioState' = [ready |-> new.ready, mode |-> radioState.mode, on |-> TRUE]
      /\ new.ready \in BOOLEAN /\ (radioState.ready => new.ready)
  <2>1. /\ new = [ready |-> new.ready, mode |-> radioState.mode, on |-> radioState.on]
        /\ new.ready \in BOOLEAN /\ (radioState.ready => new.ready)
    BY InitKeeps
  <2> HIDE DEF new
  <2>2. PICK r : new = [ready |-> r, mode |-> radioState.mode, on |-> radioState.on]
    BY <2>1
  <2>3. radioState' = [[ready |-> r, mode |-> radioState.mode, on |-> radioState.on]
                         EXCEPT !.on = TRUE]
    BY <1>1, <2>2, Zenon
  <2>4. radioState' = [ready |-> r, mode |-> radioState.mode, on |-> TRUE]
    BY <2>3
  <2> QED BY <2>1, <2>2, <2>4
<1>5. radioState' \in [ready : BOOLEAN, mode : Modes, on : BOOLEAN]
  BY <1>4, OldTypes
<1>6. FlagSafe'
  BY <1>4 DEF FlagSafe
<1>7. /\ CallsKnown' /\ SmartStarting' /\ SmartAgrees'
      /\ \A t \in Callers : calling'[t] # Free => new.ready
  <2>1. CASE ReadMode("sketch", Call("mode", NoConf, {}, {"STA"}), fault)
    <3>1. Call("mode", NoConf, {}, {"STA"}).op # "beginSmartConfig"
      BY DEF Call
    <3> QED BY <1>1, <2>1, <3>1, ReadKeeps
  <2>2. CASE UNCHANGED calling
    BY <1>1, <1>4, <2>2 DEF RadioIInv, CallsKnown, KnownCall, SmartStarting, SmartAgrees,
                            smartConfigDone, smartVars, ReadyFirst
  <2> QED BY <1>2, <2>1, <2>2
<1>8. ReadyFirst'
  BY <1>1, <1>4, <1>7 DEF RadioIInv, ReadyFirst
<1>9. SettingsOK /\ SmartOK
  BY SettingsHold
<1>10. /\ promised' = [mode |-> promised.mode, sta |-> promised'.sta, ap |-> promised.ap, ip |-> promised.ip]
       /\ \/ UNCHANGED <<staConf, promised>>
          \/ staConf' = NoConf /\ promised'.sta = NoConf
  BY <1>9 DEF disconnectSTA, SettingsOK, PromisesKnown
<1>11. SettingsOK'
  <2>1. PromisesKnown'
    BY <1>9, <1>10 DEF SettingsOK, PromisesKnown
  <2>2. ConfsAsAsked'
    BY <1>1, <1>9, <1>10 DEF SettingsOK, ConfsAsAsked
  <2>3. AddressAsConfigured' /\ LeasesOthers'
    BY <1>1, <1>9, <1>10 DEF SettingsOK, AddressAsConfigured, LeasesOthers
  <2> QED BY <1>1, <1>9, <1>10, <2>1, <2>2, <2>3 DEF SettingsOK
<1>12. SmartOK'
  BY <1>1, <1>9, SmartUnchanged
<1>13. ModeAsAsked'
  BY <1>1, <1>4, <1>10 DEF RadioIInv, ModeAsAsked
<1>14. radioCalls' \in 0 .. MaxRadioCalls
  BY <1>1, RadioAssumption DEF RadioIInv, RadioTypeOK
<1>15. RadioTypeOK'
  BY <1>1, <1>3, <1>5, <1>11, <1>12, <1>14, OldTypes, TypesKept
<1> QED BY <1>6, <1>7, <1>8, <1>11, <1>13, <1>15, Zenon DEF SettingsOK, RadioIInv

LEMMA SoftAPDisconnectKeeps ==
  ASSUME RadioIInv, NEW wifioff \in BOOLEAN, NEW fault, softAPdisconnect(wifioff, fault)
  PROVE  RadioIInv'
<1>1. /\ UNCHANGED <<radioState, _esp_wifi_started, staConf, dhcps, _useStaticIp, staIP, dhcp,
                     smartVars, expiry, modeRaced>>
      /\ radioCalls < MaxRadioCalls /\ radioCalls' = radioCalls + 1
      /\ calling["sketch"] = Free /\ radioState.ready
  BY DEF softAPdisconnect, address, modeVars
<1>2. \/ ReadMode("sketch", Call("mode", NoConf, {}, {"AP"}), fault)
      \/ RadioFault(fault) /\ UNCHANGED calling
  BY DEF softAPdisconnect
<1>3. errors' \in 0 .. MaxErrors /\ (errors' = 0 => errors = 0)
  BY <1>2, FaultKeeps DEF ReadMode
<1>4. CallsKnown' /\ SmartStarting' /\ SmartAgrees'
  <2>1. CASE ReadMode("sketch", Call("mode", NoConf, {}, {"AP"}), fault)
    <3>1. Call("mode", NoConf, {}, {"AP"}).op # "beginSmartConfig"
      BY DEF Call
    <3> QED BY <1>1, <2>1, <3>1, ReadKeeps
  <2>2. CASE UNCHANGED calling
    BY <1>1, <2>2 DEF RadioIInv, CallsKnown, KnownCall, SmartStarting, SmartAgrees,
                      smartConfigDone, smartVars
  <2> QED BY <1>2, <2>1, <2>2
<1>5. ReadyFirst'
  BY <1>1 DEF ReadyFirst
<1>6. SettingsOK /\ SmartOK
  BY SettingsHold
<1>7. /\ promised' = [mode |-> promised.mode, sta |-> promised.sta, ap |-> promised'.ap, ip |-> promised.ip]
      /\ \/ UNCHANGED <<apConf, promised>>
         \/ apConf' = AccessPoint(NoConf) /\ promised'.ap = NoConf
  BY <1>6 DEF softAPdisconnect, SettingsOK, PromisesKnown
<1>8. SettingsOK'
  <2>1. PromisesKnown'
    BY <1>6, <1>7 DEF SettingsOK, PromisesKnown
  <2>2. ConfsAsAsked'
    BY <1>1, <1>6, <1>7 DEF SettingsOK, ConfsAsAsked
  <2>3. AddressAsConfigured' /\ LeasesOthers'
    BY <1>1, <1>6, <1>7 DEF SettingsOK, AddressAsConfigured, LeasesOthers
  <2> QED BY <1>1, <1>6, <1>7, <2>1, <2>2, <2>3 DEF SettingsOK
<1>9. SmartOK'
  BY <1>1, <1>6, SmartUnchanged
<1>10. FlagSafe' /\ ModeAsAsked'
  BY <1>1, <1>3, <1>7 DEF RadioIInv, FlagSafe, ModeAsAsked
<1>11. radioCalls' \in 0 .. MaxRadioCalls
  BY <1>1, RadioAssumption DEF RadioIInv, RadioTypeOK
<1>12. RadioTypeOK'
  BY <1>1, <1>3, <1>8, <1>9, <1>11, OldTypes, TypesKept
<1> QED BY <1>4, <1>5, <1>8, <1>10, <1>12, Zenon DEF SettingsOK, RadioIInv

(* A step that leaves the radio and the calls alone.                        *)
LEMMA RadioUnchanged ==
  ASSUME RadioIInv, UNCHANGED <<radioState, _esp_wifi_started, calling, expiry, modeRaced>>,
         promised'.mode = promised.mode, errors' = 0 => errors = 0
  PROVE  FlagSafe' /\ ModeAsAsked' /\ CallsKnown' /\ ReadyFirst'
<1>1. FlagSafe' /\ ModeAsAsked'
  BY DEF RadioIInv, FlagSafe, ModeAsAsked
<1>2. CallsKnown' /\ ReadyFirst'
  BY DEF RadioIInv, CallsKnown, KnownCall, ReadyFirst
<1> QED BY <1>1, <1>2

LEMMA FlagsKeep == ASSUME RadioIInv, SmartFlags PROVE RadioIInv'
<1>1. /\ UNCHANGED <<smart, radioState, _esp_wifi_started, confs, address, expiry, promised, modeRaced,
                     radioCalls, errors>>
      /\ calling["sketch"].op = "flags" /\ calling' = [calling EXCEPT !["sketch"] = Free]
      /\ _smartConfigStarted' = TRUE /\ _smartConfigDone' = FALSE
  BY DEF SmartFlags, modeVars
<1>2. /\ calling' = [t \in Callers |-> calling'[t]]
      /\ calling'["sketch"] = Free /\ calling'["event"] = calling["event"]
  BY <1>1 DEF RadioIInv, CallsKnown, Callers
<1>3. CallsKnown' /\ ReadyFirst'
  BY <1>1, <1>2 DEF RadioIInv, CallsKnown, ReadyFirst, Callers, KnownCall
<1>4. SettingsOK' /\ SmartOK'
  BY <1>1, SettingsHold, SettingsUnchanged DEF SmartOK
<1>5. SmartStarting' /\ SmartAgrees'
  <2>1. calling'["sketch"].op = "none" /\ smart' # "off"
    BY <1>1, <1>2 DEF RadioIInv, SmartStarting, Free
  <2>2. SmartStarting'
    BY <2>1 DEF SmartStarting
  <2>3. ~smartConfigDone'
    BY <1>1, Zenon DEF smartConfigDone
  <2>4. _smartConfigStarted' = (smart' # "off")
    BY <1>1, <2>1, Zenon
  <2> QED BY <2>2, <2>3, <2>4, Zenon DEF SmartAgrees
<1>6. FlagSafe' /\ ModeAsAsked'
  BY <1>1 DEF RadioIInv, FlagSafe, ModeAsAsked
<1>7. RadioTypeOK'
  BY <1>1, <1>4, OldTypes, TypesKept
<1> QED BY <1>3, <1>4, <1>5, <1>6, <1>7, Zenon DEF SettingsOK, RadioIInv

LEMMA LinkKeeps ==
  ASSUME RadioIInv, NEW conf \in StaConfs, smartConfigLink(conf)
  PROVE  RadioIInv'
<1>1. /\ UNCHANGED <<_smartConfigStarted, apConf, dhcps, radioState, _esp_wifi_started, _useStaticIp,
                     staIP, dhcp, expiry, calling, modeRaced, radioCalls, errors>>
      /\ smart = "on" /\ smart' = "linked" /\ _smartConfigDone' = TRUE
      /\ staConf' = conf
  BY DEF smartConfigLink, modeVars, address
<1>2. SettingsOK /\ SmartOK
  BY SettingsHold
<1>3. promised' = [mode |-> promised.mode, sta |-> conf, ap |-> promised.ap, ip |-> promised.ip]
  BY <1>2 DEF smartConfigLink, SettingsOK, PromisesKnown
<1>4. SettingsOK'
  <2>1. PromisesKnown' /\ ConfsAsAsked'
    BY <1>1, <1>2, <1>3 DEF SettingsOK, PromisesKnown, ConfsAsAsked
  <2>2. AddressAsConfigured' /\ LeasesOthers'
    BY <1>1, <1>2, <1>3 DEF SettingsOK, AddressAsConfigured, LeasesOthers
  <2> QED BY <1>1, <1>2, <2>1, <2>2 DEF SettingsOK
<1>5. SmartOK'
  BY <1>1, <1>2 DEF SmartOK
<1>6. SmartStarting' /\ SmartAgrees'
  BY <1>1 DEF RadioIInv, SmartStarting, SmartAgrees, smartConfigDone
<1>7. FlagSafe' /\ ModeAsAsked' /\ CallsKnown' /\ ReadyFirst'
  BY <1>1, <1>3, RadioUnchanged
<1>8. RadioTypeOK'
  BY <1>1, <1>4, <1>5, OldTypes, TypesKept
<1> QED BY <1>4, <1>6, <1>7, <1>8, Zenon DEF SettingsOK, RadioIInv

(* The driver says that the network was acknowledged, or the sketch stops.  *)
LEMMA StopKeeps ==
  ASSUME RadioIInv, NEW fault, smartConfigOver(fault) \/ sketchStops(fault)
  PROVE  RadioIInv'
<1>1. /\ UNCHANGED <<_smartConfigDone, radioState, _esp_wifi_started, confs, address, expiry, calling,
                     promised, modeRaced, radioCalls>>
      /\ RadioFault(fault)
  BY DEF smartConfigOver, sketchStops, modeVars
<1>2. \/ _smartConfigStarted /\ _smartConfigStarted' = FALSE /\ smart' = "off"
      \/ smart = "linked" /\ smart' = "over" /\ UNCHANGED _smartConfigStarted
      \/ UNCHANGED <<_smartConfigStarted, smart>>
  BY DEF smartConfigOver, sketchStops, stopSmartConfig
<1>3. SettingsOK /\ SmartOK
  BY SettingsHold
<1>4. SettingsOK'
  BY <1>1, <1>3, SettingsUnchanged
<1>5. SmartOK'
  BY <1>1, <1>2, <1>3 DEF SmartOK
<1>6. SmartStarting' /\ SmartAgrees'
  <2>1. /\ calling["sketch"].op = "beginSmartConfig" => ~_smartConfigStarted
        /\ calling["sketch"].op = "flags" => ~_smartConfigStarted /\ smart # "off"
        /\ _smartConfigStarted /\ _smartConfigDone => smart \in {"linked", "over"}
        /\ calling["sketch"].op # "flags" => _smartConfigStarted = (smart # "off")
    BY DEF RadioIInv, SmartStarting, SmartAgrees, smartConfigDone
  <2>2. CASE _smartConfigStarted /\ _smartConfigStarted' = FALSE /\ smart' = "off"
    BY <1>1, <2>1, <2>2 DEF SmartStarting, SmartAgrees, smartConfigDone
  <2>3. CASE smart = "linked" /\ smart' = "over" /\ UNCHANGED _smartConfigStarted
    <3>1. smart # "off" /\ smart' # "off"
      BY <2>3
    <3>2. SmartStarting'
      BY <1>1, <2>1, <2>3, <3>1 DEF SmartStarting
    <3>3. calling'["sketch"].op # "flags" => _smartConfigStarted' = (smart' # "off")
      BY <1>1, <2>1, <2>3, <3>1, Zenon
    <3> QED BY <2>3, <3>2, <3>3, Zenon DEF SmartAgrees
  <2>4. CASE UNCHANGED <<_smartConfigStarted, smart>>
    BY <1>1, <2>1, <2>4 DEF SmartStarting, SmartAgrees, smartConfigDone
  <2> QED BY <1>2, <2>2, <2>3, <2>4
<1>7. errors' \in 0 .. MaxErrors /\ (errors' = 0 => errors = 0)
  BY <1>1, FaultKeeps
<1>8. FlagSafe' /\ ModeAsAsked' /\ CallsKnown' /\ ReadyFirst'
  BY <1>1, <1>7, RadioUnchanged
<1>9. RadioTypeOK'
  BY <1>1, <1>4, <1>5, <1>7, OldTypes, TypesKept
<1> QED BY <1>4, <1>6, <1>8, <1>9, Zenon DEF SettingsOK, RadioIInv

LEMMA RadioStutters == ASSUME RadioIInv, UNCHANGED radioVars PROVE RadioIInv'
<1>1. UNCHANGED <<radioState, _esp_wifi_started, confs, address, smartVars, expiry, calling, promised,
                  modeRaced, radioCalls, errors>>
  BY DEF radioVars, modeVars
<1>2. SettingsOK' /\ SmartOK'
  BY <1>1, SettingsHold, SettingsUnchanged, SmartUnchanged
<1>3. SmartStarting' /\ SmartAgrees'
  BY <1>1 DEF RadioIInv, SmartStarting, SmartAgrees, smartConfigDone, smartVars
<1>4. FlagSafe' /\ ModeAsAsked' /\ CallsKnown' /\ ReadyFirst'
  BY <1>1, RadioUnchanged
<1>5. RadioTypeOK'
  BY <1>1, <1>2, OldTypes, TypesKept
<1> QED BY <1>2, <1>3, <1>4, <1>5, Zenon DEF SettingsOK, RadioIInv

LEMMA RadioStep == RadioIInv /\ [RadioNext]_radioVars => RadioIInv'
<1> SUFFICES ASSUME RadioIInv, [RadioNext]_radioVars PROVE RadioIInv'
  OBVIOUS
<1> QED BY RadioStutters, SketchKeeps, ExpireKeeps, ReconnectKeeps, DisconnectKeeps,
           SoftAPDisconnectKeeps, WriteKeeps, FlagsKeep, LinkKeeps, StopKeeps DEF RadioNext

(* The inductive invariant: whichever call of either task has read the mode *)
(* and not yet written it, it knows what to turn on and off.                *)
THEOREM RadioInvariant == RadioSpec => []RadioIInv
  BY RadioInitial, RadioStep, PTL DEF RadioSpec

(* The flag of the radio, its interfaces, networks, addresses and           *)
(* SmartConfig are as they were asked for, whichever calls of the driver    *)
(* fail and however the two tasks meet, with the exceptions the parts of    *)
(* RadioInv name (WiFiGeneric.cpp:384-452, WiFiSTA.cpp, WiFiAP.cpp).        *)
THEOREM RadioCorrect == RadioSpec => []RadioInv
<1>1. RadioIInv => RadioInv
  BY DEF RadioIInv, RadioInv
<1> QED BY <1>1, RadioInvariant, PTL

(***************************************************************************)
(* TCP connections (WiFiClient).                                            *)
(***************************************************************************)
LEMMA ClientInitial == ClientInit => ClientInv
<1> SUFFICES ASSUME ClientInit PROVE ClientInv
  OBVIOUS
<1>1. ClientTypeOK
  BY ClientAssumption DEF ClientInit, ClientTypeOK, Null, Sockets
<1>2. SocketsHeld
  BY DEF ClientInit, SocketsHeld, Null
<1>3. WriteIsPrefix
  BY DEF ClientInit, WriteIsPrefix
<1> QED BY <1>1, <1>2, <1>3 DEF ClientInv

(* An object lets go of its socket, and holds another one or none.          *)
LEMMA HoldKeeps ==
  ASSUME ClientTypeOK, SocketsHeld, NEW o \in Objects, NEW socket \in Sockets \cup {Null},
         NEW isConnected \in BOOLEAN, Hold(o, socket, isConnected),
         isConnected => socket # Null,
         openSockets' = (openSockets \ Closed(o)) \cup ({socket} \ {Null})
  PROVE  SocketsHeld'
<1>1. /\ clientSocketHandle' = [clientSocketHandle EXCEPT ![o] = socket]
      /\ _connected' = [_connected EXCEPT ![o] = isConnected]
  BY DEF Hold
<1>2. clientSocketHandle \in [Objects -> Sockets \cup {Null}] /\ _connected \in [Objects -> BOOLEAN]
  BY DEF ClientTypeOK
<1>3. openSockets = {clientSocketHandle[p] : p \in Objects} \ {Null}
  BY DEF SocketsHeld
<1>4. {clientSocketHandle'[p] : p \in Objects} = {clientSocketHandle[p] : p \in Objects \ {o}} \cup {socket}
  BY <1>1, <1>2
<1>5. openSockets' = {clientSocketHandle'[p] : p \in Objects} \ {Null}
  BY <1>3, <1>4 DEF Closed
<1>6. \A p \in Objects : _connected'[p] => clientSocketHandle'[p] # Null
  BY <1>1, <1>2 DEF SocketsHeld
<1> QED BY <1>5, <1>6 DEF SocketsHeld

LEMMA ClientTypesKept ==
  ASSUME ClientInv, [ClientNext]_clientVars
  PROVE  ClientTypeOK'
<1> USE ClientAssumption
<1> DEFINE WriteCalls == [object : Objects, size : WriteSizes, retry : 0 .. MaxRetry]
<1>1. ClientTypeOK
  BY DEF ClientInv
<1>2. ASSUME NEW o \in Objects, NEW socket \in Sockets \cup {Null}, NEW isConnected \in BOOLEAN,
             Hold(o, socket, isConnected)
      PROVE  /\ clientSocketHandle' \in [Objects -> Sockets \cup {Null}]
             /\ _connected' \in [Objects -> BOOLEAN]
  BY <1>1, <1>2 DEF Hold, ClientTypeOK
<1>3. \A o, p \in Objects :
        clientSocketHandle[p] \in Sockets \cup {Null} /\ _connected[p] \in BOOLEAN /\ Null \in Sockets \cup {Null}
  BY <1>1 DEF ClientTypeOK
<1>4. \A o \in Objects : \A S : S \subseteq 1 .. socketsMade => S \ Closed(o) \subseteq 1 .. socketsMade
  OBVIOUS
<1>5. ASSUME NEW o \in Objects, connect(o) PROVE ClientTypeOK'
  <2>1. /\ socketsMade' = socketsMade + 1 /\ socketsMade + 1 \in Sockets /\ socketsMade \in Nat
        /\ UNCHANGED <<brokenSockets, sending, totalBytesSent, accepted, returned, cause, writeCount>>
    BY <1>1, <1>5 DEF connect, writeVars, ClientTypeOK, Sockets
  <2>2. openSockets' \subseteq 1 .. socketsMade + 1
    <3>1. openSockets \subseteq 1 .. socketsMade + 1
      BY <1>1, <2>1 DEF ClientTypeOK
    <3>2. openSockets' \subseteq openSockets \cup {socketsMade + 1}
      BY <1>5, <2>1 DEF connect
    <3> QED BY <2>1, <3>1, <3>2
  <2>3. /\ clientSocketHandle' \in [Objects -> Sockets \cup {Null}] /\ _connected' \in [Objects -> BOOLEAN]
    BY <1>1, <1>2, <1>5, <2>1 DEF connect, ClientTypeOK
  <2> QED BY <1>1, <2>1, <2>2, <2>3 DEF ClientTypeOK, Sockets
<1>6. ASSUME NEW o \in Objects, Stop(o) \/ receive(o) PROVE ClientTypeOK'
  <2>1. /\ Hold(o, Null, FALSE) /\ openSockets' = openSockets \ Closed(o)
        /\ UNCHANGED <<socketsMade, brokenSockets, sending, totalBytesSent, accepted, returned, cause, writeCount>>
    BY <1>6 DEF Stop, receive, stopClient, writeVars
  <2>2. /\ clientSocketHandle' \in [Objects -> Sockets \cup {Null}] /\ _connected' \in [Objects -> BOOLEAN]
    BY <1>2, <2>1
  <2> QED BY <1>1, <2>1, <2>2 DEF ClientTypeOK
<1>7. ASSUME NEW o \in Objects, lookConnected(o) PROVE ClientTypeOK'
  BY <1>1, <1>7 DEF lookConnected, writeVars, ClientTypeOK
<1>8. ASSUME NEW o \in Objects, NEW other \in Objects, assign(o, other) PROVE ClientTypeOK'
  <2>1. /\ openSockets' = openSockets \ Closed(o)
        /\ UNCHANGED <<socketsMade, brokenSockets, sending, totalBytesSent, accepted, returned, cause, writeCount>>
    BY <1>8 DEF assign, writeVars
  <2>2. /\ clientSocketHandle' \in [Objects -> Sockets \cup {Null}] /\ _connected' \in [Objects -> BOOLEAN]
    BY <1>2, <1>3, <1>8 DEF assign
  <2> QED BY <1>1, <2>1, <2>2 DEF ClientTypeOK
<1>9. ASSUME NEW o \in Objects, NEW size \in WriteSizes, StartWrite(o, size) PROVE ClientTypeOK'
  <2>1. /\ sending' \in WriteCalls /\ writeCount' \in 0 .. MaxWrites
    BY <1>1, <1>9 DEF StartWrite, ClientTypeOK
  <2>2. /\ totalBytesSent' = 0 /\ accepted' = <<>> /\ cause' = "none"
        /\ UNCHANGED <<clientSocketHandle, _connected, openSockets, socketsMade, brokenSockets, returned>>
    BY <1>9 DEF StartWrite, handles
  <2> QED BY <1>1, <2>1, <2>2 DEF ClientTypeOK
<1>10. ASSUME NEW socket \in Sockets, ConnectionBreaks(socket) PROVE ClientTypeOK'
  BY <1>1, <1>10 DEF ConnectionBreaks, handles, writeVars, ClientTypeOK
<1>11. ASSUME NEW n \in Nat, Again(n), ~Resting
       PROVE  /\ sending' = ClientIdle \/ sending' \in WriteCalls
              /\ returned' \in Nat \cup {-1} /\ cause' \in {"none", "done", "tries", "select", "error"}
  <2>1. sending \in WriteCalls
    BY <1>1, <1>11 DEF Resting, ClientTypeOK
  <2>2. CASE sending.retry > 1
    <3>1. sending' \in WriteCalls
      BY <1>11, <2>1, <2>2 DEF Again
    <3> QED BY <1>1, <1>11, <2>2, <3>1 DEF Again, ClientTypeOK
  <2>3. CASE ~(sending.retry > 1)
    BY <1>11, <2>3 DEF Again, Finish
  <2> QED BY <2>2, <2>3
<1>12. ASSUME NEW n \in Nat, NEW why \in {"none", "done", "tries", "select", "error"}, Finish(n, why)
       PROVE  /\ sending' = ClientIdle \/ sending' \in WriteCalls
              /\ returned' \in Nat \cup {-1} /\ cause' \in {"none", "done", "tries", "select", "error"}
  BY <1>12 DEF Finish
<1>13. totalBytesSent \in Nat /\ accepted \in Seq(Nat)
  BY <1>1 DEF ClientTypeOK
<1>14. CASE SelectFails
  BY <1>1, <1>12, <1>14 DEF SelectFails, handles, ClientTypeOK
<1>15. CASE NotReady
  BY <1>1, <1>11, <1>13, <1>15 DEF NotReady, handles, ClientTypeOK
<1>16. CASE SendFails
  <2>1. /\ Hold(sending.object, Null, FALSE) /\ openSockets' = openSockets \ Closed(sending.object)
        /\ UNCHANGED <<socketsMade, brokenSockets, totalBytesSent, accepted, writeCount>>
        /\ Finish(totalBytesSent, "error") /\ ~Resting
    BY <1>16 DEF SendFails, stopClient
  <2>2. sending.object \in Objects
    BY <1>1, <2>1 DEF Resting, ClientTypeOK
  <2>3. /\ clientSocketHandle' \in [Objects -> Sockets \cup {Null}] /\ _connected' \in [Objects -> BOOLEAN]
    BY <1>2, <2>1, <2>2
  <2> QED BY <1>1, <1>12, <1>13, <2>1, <2>3 DEF ClientTypeOK
<1>17. ASSUME NEW n \in Nat, SendPiece(n) PROVE ClientTypeOK'
  <2> DEFINE c == totalBytesSent + n
  <2>1. /\ ~Resting /\ totalBytesSent' = c /\ c \in Nat
        /\ accepted' = accepted \o [k \in 1 .. n |-> Unsent(k)]
        /\ UNCHANGED <<clientSocketHandle, _connected, openSockets, socketsMade, brokenSockets, writeCount>>
    BY <1>13, <1>17 DEF SendPiece, handles
  <2>2. Finish(c, "done") \/ Again(c)
    BY <1>17 DEF SendPiece
  <2>3. [k \in 1 .. n |-> Unsent(k)] \in Seq(Nat)
    BY <1>13 DEF Unsent
  <2>4. accepted' \in Seq(Nat)
    BY <1>13, <2>1, <2>3
  <2>5. /\ sending' = ClientIdle \/ sending' \in WriteCalls
        /\ returned' \in Nat \cup {-1} /\ cause' \in {"none", "done", "tries", "select", "error"}
    BY <1>11, <1>12, <2>1, <2>2
  <2> QED BY <1>1, <2>1, <2>4, <2>5 DEF ClientTypeOK
<1>18. CASE UNCHANGED clientVars
  BY <1>1, <1>18 DEF clientVars, handles, writeVars, ClientTypeOK
<1>19. \A size \in WriteSizes : \A n \in 1 .. size : n \in Nat
  OBVIOUS
<1> QED
  BY <1>5, <1>6, <1>7, <1>8, <1>9, <1>10, <1>14, <1>15, <1>16, <1>17, <1>18, <1>19 DEF ClientNext

LEMMA SocketsHeldKept ==
  ASSUME ClientInv, [ClientNext]_clientVars
  PROVE  SocketsHeld'
<1>1. ClientTypeOK /\ SocketsHeld /\ socketsMade \in Nat
  BY ClientAssumption DEF ClientInv, ClientTypeOK
<1>2. ASSUME NEW o \in Objects, stopClient(o) PROVE SocketsHeld'
  BY <1>1, <1>2, HoldKeeps DEF stopClient
<1>3. ASSUME NEW o \in Objects, connect(o) PROVE SocketsHeld'
  <2>1. CASE Hold(o, socketsMade', TRUE) /\ openSockets' = (openSockets \ Closed(o)) \cup {socketsMade'}
    <3>1. socketsMade + 1 \in Sockets /\ socketsMade + 1 # Null /\ socketsMade' = socketsMade + 1
      BY <1>1, <1>3, ClientAssumption DEF connect, Sockets, Null, ClientTypeOK
    <3> QED BY <1>1, <2>1, <3>1, HoldKeeps
  <2>2. CASE UNCHANGED <<clientSocketHandle, _connected, openSockets>>
    BY <1>1, <2>2 DEF SocketsHeld
  <2> QED BY <1>3, <2>1, <2>2 DEF connect
<1>4. ASSUME NEW o \in Objects, NEW other \in Objects, assign(o, other) PROVE SocketsHeld'
  <2>1. CASE o = other
    BY <1>1, <1>4, <2>1, HoldKeeps DEF assign
  <2>2. CASE o # other
    <3> DEFINE socket == clientSocketHandle[other]
    <3>1. socket \in Sockets \cup {Null} /\ _connected[other] \in BOOLEAN /\ (_connected[other] => socket # Null)
      BY <1>1 DEF ClientTypeOK, SocketsHeld
    <3>2. {socket} \ {Null} \subseteq openSockets \ Closed(o)
      BY <1>1, <2>2 DEF Closed, SocketsHeld
    <3>3. Hold(o, socket, _connected[other])
          /\ openSockets' = (openSockets \ Closed(o)) \cup ({socket} \ {Null})
      BY <1>4, <2>2, <3>2 DEF assign
    <3> HIDE DEF socket
    <3> QED BY <1>1, <3>1, <3>3, HoldKeeps
  <2> QED BY <2>1, <2>2
<1>5. ASSUME NEW o \in Objects, lookConnected(o) PROVE SocketsHeld'
  BY <1>1, <1>5 DEF lookConnected, SocketsHeld, ClientTypeOK
<1>6. CASE SendFails
  <2>1. sending.object \in Objects
    BY <1>1, <1>6 DEF SendFails, Resting, ClientTypeOK
  <2> QED BY <1>2, <1>6, <2>1 DEF SendFails
<1>7. ASSUME UNCHANGED handles PROVE SocketsHeld'
  BY <1>1, <1>7 DEF handles, SocketsHeld
<1> QED
  BY <1>2, <1>3, <1>4, <1>5, <1>6, <1>7
  DEF ClientNext, Stop, receive, StartWrite, ConnectionBreaks, SelectFails, NotReady, SendPiece, clientVars

LEMMA WritesKept ==
  ASSUME ClientInv, [ClientNext]_clientVars
  PROVE  WriteIsPrefix'
<1>1. /\ WriteIsPrefix /\ totalBytesSent \in Nat /\ accepted \in Seq(Nat)
      /\ accepted = [k \in 1 .. totalBytesSent |-> k] /\ Len(accepted) = totalBytesSent
  BY DEF ClientInv, ClientTypeOK, WriteIsPrefix
<1>2. ASSUME UNCHANGED writeVars PROVE WriteIsPrefix'
  BY <1>1, <1>2 DEF writeVars, WriteIsPrefix, Resting
<1>3. ASSUME NEW o \in Objects, NEW size \in WriteSizes, StartWrite(o, size) PROVE WriteIsPrefix'
  <2>1. totalBytesSent' = 0 /\ accepted' = <<>> /\ cause' = "none"
    BY <1>3 DEF StartWrite
  <2> QED BY <2>1 DEF WriteIsPrefix
<1>4. ASSUME NEW n \in Nat, Again(n), ~Resting PROVE ~Resting' \/ returned' = n
  <2>1. sending \in [object : Objects, size : WriteSizes, retry : 0 .. MaxRetry]
    BY <1>4 DEF ClientInv, ClientTypeOK, Resting
  <2>2. CASE sending.retry > 1
    <3>1. sending'.size = sending.size /\ sending.size # 0 /\ ClientIdle.size = 0
      BY <1>4, <2>1, <2>2, ClientAssumption DEF Again, ClientIdle
    <3> QED BY <3>1 DEF Resting
  <2>3. CASE ~(sending.retry > 1)
    BY <1>4, <2>3 DEF Again, Finish
  <2> QED BY <2>2, <2>3
<1>5. CASE SelectFails
  BY <1>1, <1>5 DEF SelectFails, Finish, WriteIsPrefix
<1>6. CASE NotReady
  <2>1. UNCHANGED <<totalBytesSent, accepted>> /\ (~Resting' \/ returned' = totalBytesSent)
    BY <1>1, <1>4, <1>6 DEF NotReady
  <2> QED BY <1>1, <2>1 DEF WriteIsPrefix
<1>7. CASE SendFails
  <2>1. UNCHANGED <<totalBytesSent, accepted>> /\ returned' = totalBytesSent
    BY <1>7 DEF SendFails, Finish
  <2> QED BY <1>1, <2>1 DEF WriteIsPrefix
<1>8. ASSUME NEW n \in Nat, SendPiece(n) PROVE WriteIsPrefix'
  <2> DEFINE c == totalBytesSent + n
             piece == [k \in 1 .. n |-> Unsent(k)]
  <2>1. /\ ~Resting /\ totalBytesSent' = c /\ c \in Nat /\ accepted' = accepted \o piece
    BY <1>1, <1>8 DEF SendPiece
  <2>2. piece \in Seq(Nat) /\ Len(piece) = n /\ \A k \in 1 .. n : piece[k] = totalBytesSent + k
    BY <1>1 DEF Unsent
  <2>3. accepted' = [k \in 1 .. c |-> k] /\ Len(accepted') = c
    <3> HIDE DEF piece
    <3>1. accepted \o piece = [k \in 1 .. c |-> k] /\ Len(accepted \o piece) = c
      BY <1>1, <2>2
    <3> QED BY <2>1, <3>1
  <2>4. ~Resting' \/ returned' = c
    BY <1>4, <1>8, <2>1 DEF SendPiece, Finish
  <2> HIDE DEF c
  <2> QED BY <2>1, <2>3, <2>4 DEF WriteIsPrefix
<1>9. \A size \in WriteSizes : \A n \in 1 .. size : n \in Nat
  OBVIOUS
<1> QED
  BY <1>2, <1>3, <1>5, <1>6, <1>7, <1>8, <1>9
  DEF ClientNext, connect, Stop, lookConnected, receive, assign, ConnectionBreaks, clientVars

LEMMA ClientKept ==
  ASSUME ClientInv, [ClientNext]_clientVars
  PROVE  ClientInv'
BY ClientTypesKept, SocketsHeldKept, WritesKept DEF ClientInv

(***************************************************************************)
(* Sequences.                                                               *)
(***************************************************************************)
LEMMA AppendAdds ==
  ASSUME NEW S, NEW s \in Seq(S), NEW e \in S
  PROVE  /\ Append(s, e) \in Seq(S) /\ Len(Append(s, e)) = Len(s) + 1
         /\ DOMAIN s = 1 .. Len(s) /\ DOMAIN Append(s, e) = 1 .. Len(s) + 1 /\ Len(s) \in Nat
         /\ \A i \in 1 .. Len(s) : Append(s, e)[i] = s[i]
         /\ Append(s, e)[Len(s) + 1] = e
         /\ ToSet(Append(s, e)) = ToSet(s) \cup {e}
<1>1. /\ Append(s, e) \in Seq(S) /\ Len(Append(s, e)) = Len(s) + 1 /\ Len(s) \in Nat
      /\ DOMAIN s = 1 .. Len(s) /\ DOMAIN Append(s, e) = 1 .. Len(s) + 1
  OBVIOUS
<1>2. \A i \in 1 .. Len(s) : Append(s, e)[i] = s[i]
  OBVIOUS
<1>3. Append(s, e)[Len(s) + 1] = e
  OBVIOUS
<1> DEFINE t == Append(s, e)
<1> HIDE DEF t
<1>4. ToSet(t) = ToSet(s) \cup {e}
  <2>1. \A i \in 1 .. Len(s) + 1 : i \in 1 .. Len(s) \/ i = Len(s) + 1
    BY <1>1
  <2>2. DOMAIN t = 1 .. Len(s) + 1 /\ (\A i \in 1 .. Len(s) : t[i] = s[i]) /\ t[Len(s) + 1] = e
    BY <1>1, <1>2, <1>3 DEF t
  <2> QED BY <1>1, <2>1, <2>2 DEF ToSet
<1> QED BY <1>1, <1>2, <1>3, <1>4 DEF t

LEMMA HeadTaken ==
  ASSUME NEW S, NEW s \in Seq(S), s # <<>>
  PROVE  /\ Head(s) = s[1] /\ Head(s) \in S /\ Tail(s) \in Seq(S) /\ 1 \in DOMAIN s
         /\ Len(s) \in Nat \ {0} /\ DOMAIN s = 1 .. Len(s) /\ DOMAIN Tail(s) = 1 .. Len(s) - 1
         /\ \A i \in 1 .. Len(s) - 1 : Tail(s)[i] = s[i + 1] /\ i + 1 \in DOMAIN s
         /\ ToSet(s) = {Head(s)} \cup ToSet(Tail(s))
<1>1. /\ Head(s) = s[1] /\ Head(s) \in S /\ Tail(s) \in Seq(S) /\ Len(s) \in Nat \ {0}
      /\ DOMAIN s = 1 .. Len(s) /\ DOMAIN Tail(s) = 1 .. Len(s) - 1
  OBVIOUS
<1>2. \A i \in 1 .. Len(s) - 1 : Tail(s)[i] = s[i + 1] /\ i + 1 \in DOMAIN s
  OBVIOUS
<1> DEFINE t == Tail(s)
           h == Head(s)
           n == Len(s)
<1> HIDE DEF t, h, n
<1>3. ToSet(s) = {h} \cup ToSet(t)
  <2>1. /\ \A i \in 1 .. n - 1 : t[i] = s[i + 1]
        /\ h = s[1] /\ n \in Nat \ {0} /\ DOMAIN s = 1 .. n /\ DOMAIN t = 1 .. n - 1
    BY <1>1, <1>2 DEF t, h, n
  <2>2. ASSUME NEW x \in ToSet(s) PROVE x \in {h} \cup ToSet(t)
    <3>1. PICK i \in 1 .. n : x = s[i]
      BY <2>1, <2>2 DEF ToSet
    <3>2. CASE i = 1
      BY <2>1, <3>1, <3>2
    <3>3. CASE i # 1
      <4>1. i - 1 \in 1 .. n - 1 /\ (i - 1) + 1 = i
        BY <2>1, <3>3
      <4>2. x = t[i - 1] /\ i - 1 \in DOMAIN t
        BY <2>1, <3>1, <4>1
      <4> QED BY <4>2 DEF ToSet
    <3> QED BY <3>2, <3>3
  <2>3. ASSUME NEW x \in {h} \cup ToSet(t) PROVE x \in ToSet(s)
    <3>1. CASE x = h
      BY <2>1, <3>1 DEF ToSet
    <3>2. CASE x \in ToSet(t)
      <4>1. PICK i \in 1 .. n - 1 : x = t[i]
        BY <2>1, <3>2 DEF ToSet
      <4>2. x = s[i + 1] /\ i + 1 \in DOMAIN s
        BY <2>1, <4>1
      <4> QED BY <4>2 DEF ToSet
    <3> QED BY <2>3, <3>1, <3>2
  <2> QED BY <2>2, <2>3
<1> QED BY <1>1, <1>2, <1>3 DEF t, h, n

(***************************************************************************)
(* The listening socket (WiFiServer).                                       *)
(***************************************************************************)
LEMMA ServerInitial == ServerInit => ServerIInv
<1> SUFFICES ASSUME ServerInit PROVE ServerIInv
  OBVIOUS
<1>1. ServerTypeOK
  <2>1. {_listening, _noDelay} \subseteq BOOLEAN
    BY DEF ServerInit
  <2>2. 0 \in 0 .. MaxConnections /\ 0 \in 0 .. MaxListens /\ 0 \in 0 .. MaxServerFaults
    BY ServerAssumption
  <2> QED BY <2>1, <2>2 DEF ServerInit, ServerTypeOK, NoSocket
<1>2. HandedOutInOrder /\ OneListener
  BY DEF ServerInit, HandedOutInOrder, OneListener, NoSocket
<1>3. NobodyForgotten
  BY DEF ServerInit, NobodyForgotten
<1>4. ServerKnown
  BY DEF ServerInit, ServerKnown, InTurn, Returned, NoSocket
<1> QED BY <1>1, <1>2, <1>3, <1>4 DEF ServerIInv

(* What every step of the proof below starts from.                          *)
LEMMA ServerFacts ==
  ASSUME ServerIInv
  PROVE  /\ connections \in Nat /\ listens \in Nat /\ serverFaults \in Nat
         /\ _listening \in BOOLEAN /\ _noDelay \in BOOLEAN
         /\ waiting \in Seq(Nat) /\ DOMAIN waiting = 1 .. Len(waiting) /\ Len(waiting) \in Nat
         /\ handedOut \in Seq([client : Nat, noDelay : BOOLEAN])
         /\ DOMAIN handedOut = 1 .. Len(handedOut) /\ Len(handedOut) \in Nat
         /\ \A i \in DOMAIN waiting : waiting[i] \in 1 .. connections
         /\ \A i \in DOMAIN handedOut : handedOut[i].client \in 1 .. connections
         /\ ToSet(waiting) \subseteq 1 .. connections /\ Returned \subseteq 1 .. connections
         /\ dropped.clients \subseteq 1 .. connections
         /\ _accepted_sockfd \in {NoSocket} \cup 1 .. connections /\ NoSocket = 0
<1>1. /\ connections \in Nat /\ listens \in Nat /\ serverFaults \in Nat
      /\ _listening \in BOOLEAN /\ _noDelay \in BOOLEAN
  BY ServerAssumption DEF ServerIInv, ServerTypeOK
<1>2. /\ waiting \in Seq(Nat) /\ handedOut \in Seq([client : Nat, noDelay : BOOLEAN])
      /\ \A i \in DOMAIN waiting : waiting[i] \in 1 .. connections
      /\ \A i \in DOMAIN handedOut : handedOut[i].client \in 1 .. connections
      /\ dropped.clients \subseteq 1 .. connections
  BY DEF ServerIInv, ServerTypeOK, ServerKnown
<1>3. /\ DOMAIN waiting = 1 .. Len(waiting) /\ Len(waiting) \in Nat
      /\ DOMAIN handedOut = 1 .. Len(handedOut) /\ Len(handedOut) \in Nat
  BY <1>2
<1>4. ToSet(waiting) \subseteq 1 .. connections /\ Returned \subseteq 1 .. connections
  BY <1>2 DEF ToSet, Returned
<1> QED BY <1>1, <1>2, <1>3, <1>4 DEF ServerIInv, ServerTypeOK, NoSocket

LEMMA ClientConnectsKeeps ==
  ASSUME ServerIInv, ClientConnects
  PROVE  ServerIInv'
<1> DEFINE N == connections + 1
           w == Append(waiting, N)
           L == Len(waiting)
<1>1. /\ _listening /\ connections < MaxConnections /\ connections' = N /\ waiting' = w
      /\ UNCHANGED <<_listening, _noDelay, listener, _accepted_sockfd, reset, openListeners,
                     openClients, handedOut, dropped, listens, serverFaults>>
  BY DEF ClientConnects
<1>2. /\ w \in Seq(Nat) /\ DOMAIN w = 1 .. L + 1 /\ L \in Nat /\ w[L + 1] = N /\ N \in Nat
      /\ ToSet(w) = ToSet(waiting) \cup {N} /\ \A i \in 1 .. L : w[i] = waiting[i]
      /\ DOMAIN waiting = 1 .. L
  <2>1. waiting \in Seq(Nat) /\ N \in Nat
    BY ServerFacts
  <2> HIDE DEF N
  <2> QED BY <2>1, AppendAdds
<1> HIDE DEF w, L
<1>0. /\ connections \in Nat /\ (\A i \in DOMAIN waiting : waiting[i] \in 1 .. connections)
      /\ Returned \subseteq 1 .. connections /\ dropped.clients \subseteq 1 .. connections
      /\ _accepted_sockfd \in {NoSocket} \cup 1 .. connections /\ NoSocket = 0
  BY ServerFacts
<1>3. \A i \in 1 .. L + 1 : i \in 1 .. L \/ i = L + 1
  BY <1>2
<1>4. \A i \in DOMAIN w : w[i] \in 1 .. N
  BY <1>0, <1>2, <1>3
<1>5. \A c \in 1 .. connections : c \in 1 .. N
  BY <1>0
<1>6. ServerTypeOK'
  <2>1. N \in 0 .. MaxConnections
    BY <1>0, <1>1, ServerAssumption
  <2>2. \A i \in DOMAIN handedOut : handedOut[i].client \in 1 .. N
    BY <1>5, ServerFacts
  <2>3. /\ _accepted_sockfd \in {NoSocket} \cup (1 .. N) /\ openClients \subseteq 1 .. N
    BY <1>5 DEF ServerIInv, ServerTypeOK
  <2> HIDE DEF N
  <2> QED BY <1>1, <1>4, <2>1, <2>2, <2>3 DEF ServerIInv, ServerTypeOK
<1>7. HandedOutInOrder' /\ OneListener'
  BY <1>1 DEF ServerIInv, HandedOutInOrder, OneListener
<1>8. NobodyForgotten'
  <2>1. Returned' = Returned
    BY <1>1 DEF Returned
  <2>2. \A c \in 1 .. N : c \in 1 .. connections \/ c = N
    BY <1>0
  <2>3. NobodyForgotten
    BY DEF ServerIInv
  <2> QED BY <1>1, <1>2, <2>1, <2>2, <2>3 DEF NobodyForgotten
<1>9. InTurn'
  <2>1. Returned' = Returned /\ InTurn
    BY <1>1 DEF Returned, ServerIInv, ServerKnown
  <2>2. \A i, j \in DOMAIN w : i < j => w[i] < w[j]
    BY <1>2, <1>3, <1>0, <2>1 DEF InTurn
  <2>3. \A c \in Returned \cup dropped.clients : \A i \in DOMAIN w : c < w[i]
    BY <1>2, <1>3, <1>0, <2>1 DEF InTurn
  <2>4. _accepted_sockfd # NoSocket => \A i \in DOMAIN w : _accepted_sockfd < w[i]
    BY <1>1, <1>2, <1>3, <1>0, <2>1 DEF InTurn
  <2> QED BY <1>1, <2>1, <2>2, <2>3, <2>4 DEF InTurn
<1>10. ServerKnown'
  BY <1>1, <1>2, <1>5, <1>9 DEF ServerIInv, ServerKnown
<1> QED BY <1>6, <1>7, <1>8, <1>10 DEF ServerIInv

LEMMA BeginServerKeeps ==
  ASSUME ServerIInv, NEW failed \in BOOLEAN, beginServer(failed)
  PROVE  ServerIInv'
<1> DEFINE n == listens + 1
           lost == dropped.listeners \cup (IF failed THEN {n} ELSE {})
<1>1. /\ ~_listening /\ listens < MaxListens /\ listens' = n /\ listener' = n
      /\ openListeners' = openListeners \cup {n} /\ _listening' = ~failed
      /\ _noDelay' = (failed /\ _noDelay)
      /\ _accepted_sockfd' = IF failed THEN _accepted_sockfd ELSE NoSocket
      /\ UNCHANGED <<waiting, reset, openClients, handedOut, connections>>
  BY DEF beginServer
<1>2. /\ listens \in Nat /\ serverFaults \in 0 .. MaxServerFaults /\ connections \in Nat
      /\ openListeners \subseteq 1 .. listens /\ _noDelay \in BOOLEAN
      /\ dropped \in [listeners : SUBSET Nat, clients : SUBSET (1 .. connections)]
      /\ openListeners \subseteq dropped.listeners
      /\ _accepted_sockfd \in dropped.clients \cup {NoSocket}
  BY <1>1, ServerFacts DEF ServerIInv, ServerTypeOK, ServerKnown
<1>3. /\ dropped'.listeners = lost /\ dropped'.clients = dropped.clients
      /\ dropped' \in [listeners : SUBSET Nat, clients : SUBSET (1 .. connections)]
  <2>1. dropped' = [dropped EXCEPT !.listeners = @ \cup (IF failed THEN {n} ELSE {})]
    BY DEF beginServer
  <2>2. lost \subseteq Nat
    BY <1>2
  <2> QED BY <1>2, <2>1, <2>2
<1>4. Returned' = Returned /\ ToSet(waiting)' = ToSet(waiting)
  BY <1>1 DEF Returned, ToSet
<1>5. ServerTypeOK'
  <2>1. serverFaults' \in 0 .. MaxServerFaults
    BY <1>2, ServerAssumption DEF beginServer, Tally
  <2>2. _listening' \in BOOLEAN /\ _noDelay' \in BOOLEAN
    BY <1>1, <1>2
  <2>3. n \in 0 .. MaxListens /\ n \in 1 .. n /\ openListeners \cup {n} \subseteq 1 .. n
    BY <1>1, <1>2, ServerAssumption
  <2>4. _accepted_sockfd' \in {NoSocket} \cup (1 .. connections)
    BY <1>1, <1>2
  <2> HIDE DEF n
  <2> QED BY <1>1, <2>1, <2>2, <2>3, <2>4 DEF ServerIInv, ServerTypeOK
<1>6. HandedOutInOrder'
  BY <1>1 DEF ServerIInv, HandedOutInOrder
<1>7. OneListener'
  <2>1. n \in openListeners'
    BY <1>1
  <2>2. openListeners' \ dropped'.listeners \subseteq {n}
    BY <1>1, <1>2, <1>3
  <2> QED BY <1>1, <2>1, <2>2 DEF OneListener
<1>8. NobodyForgotten'
  <2>1. NobodyForgotten
    BY DEF ServerIInv
  <2>2. \A c \in 1 .. connections :
          c \in ToSet(waiting)' \cup {_accepted_sockfd'} \cup Returned' \cup reset' \cup dropped'.clients
    BY <1>1, <1>2, <1>3, <1>4, <2>1, ServerFacts DEF NobodyForgotten, NoSocket
  <2>3. _listening' => _accepted_sockfd' \notin Returned' \cup dropped'.clients
    BY <1>1, <1>3, <1>4, ServerFacts
  <2> QED BY <1>1, <2>2, <2>3 DEF NobodyForgotten
<1>9. InTurn'
  <2>1. InTurn
    BY DEF ServerIInv, ServerKnown
  <2>2. _listening' => _accepted_sockfd' = NoSocket'
    BY <1>1 DEF NoSocket
  <2> QED BY <1>1, <1>3, <1>4, <2>1, <2>2 DEF InTurn
<1>10. ServerKnown'
  <2>1. ~_listening' => openListeners' \subseteq dropped'.listeners
    BY <1>1, <1>2, <1>3
  <2>2. ~_listening' => _accepted_sockfd' \in dropped'.clients \cup {NoSocket}
    BY <1>1, <1>2, <1>3
  <2> QED BY <1>1, <1>3, <1>9, <2>1, <2>2 DEF ServerIInv, ServerKnown, NoSocket
<1> QED BY <1>5, <1>6, <1>7, <1>8, <1>10 DEF ServerIInv

(* A step that leaves the connections and the listener as they were.        *)
LEMMA ServerQuietKeeps ==
  ASSUME ServerIInv, \/ UNCHANGED serverVars
                     \/ \E nodelay \in BOOLEAN : setNoDelay(nodelay)
  PROVE  ServerIInv'
<1>1. /\ UNCHANGED <<_listening, listener, _accepted_sockfd, waiting, reset, openListeners, openClients,
                     handedOut, dropped, connections, listens, serverFaults>>
  BY DEF serverVars, setNoDelay
<1>2. _noDelay' \in BOOLEAN /\ _listening' \in BOOLEAN
  BY ServerFacts DEF serverVars, setNoDelay
<1>3. ServerTypeOK'
  BY <1>1, <1>2 DEF ServerIInv, ServerTypeOK
<1>4. HandedOutInOrder' /\ NobodyForgotten' /\ OneListener'
  BY <1>1 DEF ServerIInv, HandedOutInOrder, NobodyForgotten, OneListener, Returned, ToSet
<1>5. ServerKnown'
  BY <1>1 DEF ServerIInv, ServerKnown, InTurn, Returned
<1> QED BY <1>3, <1>4, <1>5 DEF ServerIInv

(* hasClient() takes the first of those that wait.                          *)
LEMMA HasClientKeeps ==
  ASSUME ServerIInv, hasClient
  PROVE  ServerIInv'
<1> DEFINE h == Head(waiting)
           t == Tail(waiting)
           L == Len(waiting)
<1>1. /\ _listening /\ _accepted_sockfd = NoSocket /\ waiting # <<>>
      /\ _accepted_sockfd' = h /\ waiting' = t /\ openClients' = openClients \cup {h}
      /\ UNCHANGED <<_listening, _noDelay, listener, reset, openListeners, handedOut, dropped,
                     connections, listens, serverFaults>>
  BY DEF hasClient, Taken, Left
<1>2. /\ h = waiting[1] /\ t \in Seq(Nat) /\ L \in Nat \ {0} /\ DOMAIN waiting = 1 .. L
      /\ DOMAIN t = 1 .. L - 1 /\ \A i \in 1 .. L - 1 : t[i] = waiting[i + 1] /\ i + 1 \in DOMAIN waiting
      /\ ToSet(waiting) = {h} \cup ToSet(t) /\ 1 \in DOMAIN waiting
  BY <1>1, ServerFacts, HeadTaken
<1> HIDE DEF h, t, L
<1>3. /\ connections \in Nat /\ (\A i \in DOMAIN waiting : waiting[i] \in 1 .. connections)
      /\ Returned \subseteq 1 .. connections /\ dropped.clients \subseteq 1 .. connections
      /\ _accepted_sockfd \in {NoSocket} \cup 1 .. connections /\ NoSocket = 0
  BY ServerFacts
<1>4. h \in 1 .. connections /\ \A i \in DOMAIN t : t[i] \in 1 .. connections
  BY <1>2, <1>3
<1>5. ServerTypeOK'
  BY <1>1, <1>4 DEF ServerIInv, ServerTypeOK
<1>6. HandedOutInOrder' /\ OneListener'
  BY <1>1 DEF ServerIInv, HandedOutInOrder, OneListener
<1>7. Returned' = Returned /\ InTurn /\ NobodyForgotten
  BY <1>1 DEF Returned, ServerIInv, ServerKnown
<1>8. /\ \A i, j \in DOMAIN t : i < j => t[i] < t[j]
      /\ \A c \in Returned \cup dropped.clients : c < h /\ \A i \in DOMAIN t : c < t[i]
      /\ \A i \in DOMAIN t : h < t[i]
  <2>1. ASSUME NEW i \in DOMAIN t, NEW j \in DOMAIN t, i < j PROVE t[i] < t[j]
    <3>1. i + 1 \in DOMAIN waiting /\ j + 1 \in DOMAIN waiting /\ i + 1 < j + 1
      BY <1>2, <2>1
    <3>2. t[i] = waiting[i + 1] /\ t[j] = waiting[j + 1]
      BY <1>2
    <3> QED BY <1>7, <3>1, <3>2 DEF InTurn
  <2>2. \A c \in Returned \cup dropped.clients : c < h /\ \A i \in DOMAIN t : c < t[i]
    BY <1>2, <1>7 DEF InTurn
  <2>3. ASSUME NEW i \in DOMAIN t PROVE h < t[i]
    <3>1. i + 1 \in DOMAIN waiting /\ 1 \in DOMAIN waiting /\ 1 < i + 1
      BY <1>2
    <3>2. t[i] = waiting[i + 1] /\ h = waiting[1]
      BY <1>2
    <3> QED BY <1>7, <3>1, <3>2 DEF InTurn
  <2> QED BY <2>1, <2>2, <2>3
<1>9. InTurn'
  BY <1>1, <1>7, <1>8 DEF InTurn
<1>10. NobodyForgotten'
  <2>1. h \notin Returned \cup dropped.clients
    BY <1>3, <1>4, <1>8
  <2>2. \A c \in 1 .. connections : c \in ToSet(t) \cup {h} \cup Returned \cup reset \cup dropped.clients
    BY <1>1, <1>2, <1>3, <1>7 DEF NobodyForgotten
  <2> QED BY <1>1, <1>7, <2>1, <2>2 DEF NobodyForgotten
<1>11. ServerKnown'
  BY <1>1, <1>2, <1>9 DEF ServerIInv, ServerKnown
<1> QED BY <1>5, <1>6, <1>10, <1>11 DEF ServerIInv

(* end() leaves nobody waiting.                                             *)
LEMMA EndServerKeeps ==
  ASSUME ServerIInv, endServer
  PROVE  ServerIInv'
<1> DEFINE held == IF _accepted_sockfd = NoSocket THEN {} ELSE {_accepted_sockfd}
<1>1. /\ _listening' = FALSE /\ listener' = NoSocket
      /\ openListeners' = openListeners \ {listener}
      /\ reset' = reset \cup ToSet(waiting) /\ waiting' = <<>>
      /\ UNCHANGED <<_noDelay, _accepted_sockfd, openClients, handedOut, connections, listens, serverFaults>>
  BY DEF endServer
<1>2. /\ held \subseteq 1 .. connections
      /\ dropped \in [listeners : SUBSET Nat, clients : SUBSET (1 .. connections)]
  BY ServerFacts DEF ServerIInv, ServerKnown
<1>3. /\ dropped'.clients = dropped.clients \cup held /\ dropped'.listeners = dropped.listeners
      /\ dropped' \in [listeners : SUBSET Nat, clients : SUBSET (1 .. connections)]
  <2>1. dropped' = [dropped EXCEPT !.clients = @ \cup held]
    BY DEF endServer
  <2> HIDE DEF held
  <2> QED BY <1>2, <2>1
<1>4. /\ Returned' = Returned /\ ToSet(waiting)' = {} /\ DOMAIN waiting' = {}
  BY <1>1 DEF Returned, ToSet
<1>5. ServerTypeOK'
  <2>1. _listening' \in BOOLEAN /\ _noDelay' \in BOOLEAN
    BY <1>1, ServerFacts
  <2>2. waiting' = <<>> /\ NoSocket \in {NoSocket} \cup (1 .. listens)
    BY <1>1
  <2> QED BY <1>1, <1>4, <2>1 DEF ServerIInv, ServerTypeOK, NoSocket
<1>6. HandedOutInOrder' /\ OneListener'
  BY <1>1, <1>3 DEF ServerIInv, HandedOutInOrder, OneListener
<1>7. NobodyForgotten'
  <2>1. NobodyForgotten
    BY DEF ServerIInv
  <2> QED BY <1>1, <1>3, <1>4, <2>1 DEF NobodyForgotten
<1>8. InTurn'
  BY <1>1, <1>4 DEF InTurn
<1>9. ServerKnown'
  <2>1. openListeners' \subseteq dropped'.listeners
    BY <1>1, <1>3 DEF ServerIInv, OneListener
  <2>2. _accepted_sockfd' \in dropped'.clients \cup {NoSocket}
    BY <1>1, <1>3
  <2>3. waiting' \in Seq(Nat)
    BY <1>1
  <2> QED BY <1>1, <1>3, <1>8, <2>1, <2>2, <2>3 DEF ServerIInv, ServerKnown, NoSocket
<1> QED BY <1>5, <1>6, <1>7, <1>9 DEF ServerIInv

(* available() returns the connection hasClient() holds, or takes the first *)
(* of those that wait.                                                      *)
LEMMA AvailableKeeps ==
  ASSUME ServerIInv, NEW failed \in BOOLEAN, available(failed)
  PROVE  ServerIInv'
<1> DEFINE next == NextClient
           w == IF _accepted_sockfd # NoSocket THEN waiting ELSE Left
           h == Append(handedOut, [client |-> next, noDelay |-> _noDelay])
           L == Len(handedOut)
           gone == IF failed THEN {next} ELSE {}
<1>1. /\ _listening /\ (failed => next # NoSocket)
      /\ _accepted_sockfd' = NoSocket /\ waiting' = w
      /\ openClients' = IF next = NoSocket THEN openClients ELSE openClients \cup {next}
      /\ handedOut' = IF next = NoSocket \/ failed THEN handedOut ELSE h
      /\ UNCHANGED <<_listening, _noDelay, listener, reset, openListeners, connections, listens>>
  BY DEF available
<1>2. dropped' = [dropped EXCEPT !.clients = @ \cup gone]
  BY DEF available
<1>0. /\ connections \in Nat /\ (\A i \in DOMAIN waiting : waiting[i] \in 1 .. connections)
      /\ Returned \subseteq 1 .. connections /\ dropped.clients \subseteq 1 .. connections
      /\ _accepted_sockfd \in {NoSocket} \cup 1 .. connections /\ NoSocket = 0
      /\ waiting \in Seq(Nat) /\ InTurn /\ NobodyForgotten /\ HandedOutInOrder
      /\ (\A i \in DOMAIN handedOut : handedOut[i].client \in 1 .. connections)
      /\ dropped \in [listeners : SUBSET Nat, clients : SUBSET (1 .. connections)]
      /\ handedOut \in Seq([client : Nat, noDelay : BOOLEAN]) /\ _noDelay \in BOOLEAN
      /\ openClients \subseteq 1 .. connections
  BY ServerFacts DEF ServerIInv, ServerKnown, ServerTypeOK
(* Who is next, and who waits behind.                                       *)
<1>3. /\ w \in Seq(Nat) /\ next \in {NoSocket} \cup 1 .. connections
      /\ \A i \in DOMAIN w : w[i] \in 1 .. connections
      /\ \A i, j \in DOMAIN w : i < j => w[i] < w[j]
      /\ \A c \in Returned \cup dropped.clients : \A i \in DOMAIN w : c < w[i]
      /\ next # NoSocket => /\ \A c \in Returned \cup dropped.clients : c < next
                            /\ \A i \in DOMAIN w : next < w[i]
      /\ ToSet(waiting) \cup {_accepted_sockfd} \subseteq ToSet(w) \cup {next, NoSocket}
  <2>1. CASE _accepted_sockfd # NoSocket
    <3>1. w = waiting /\ next = _accepted_sockfd
      BY <2>1 DEF NextClient
    <3> HIDE DEF w, next
    <3> QED BY <1>0, <1>1, <2>1, <3>1 DEF InTurn
  <2>2. CASE _accepted_sockfd = NoSocket /\ waiting = <<>>
    <3>1. w = <<>> /\ next = NoSocket /\ DOMAIN w = {} /\ w = waiting
      BY <2>2 DEF NextClient, Taken, Left
    <3>2. w \in Seq(Nat)
      BY <1>0, <3>1
    <3> HIDE DEF w, next
    <3> QED BY <1>0, <2>2, <3>1, <3>2
  <2>3. CASE _accepted_sockfd = NoSocket /\ waiting # <<>>
    <3> DEFINE N == Len(waiting)
    <3>1. w = Tail(waiting) /\ next = Head(waiting)
      BY <2>3 DEF NextClient, Taken, Left
    <3> HIDE DEF w, next
    <3>2. /\ next = waiting[1] /\ w \in Seq(Nat) /\ N \in Nat \ {0} /\ DOMAIN waiting = 1 .. N
          /\ DOMAIN w = 1 .. N - 1 /\ \A i \in 1 .. N - 1 : w[i] = waiting[i + 1] /\ i + 1 \in DOMAIN waiting
          /\ ToSet(waiting) = {next} \cup ToSet(w) /\ 1 \in DOMAIN waiting
      BY <1>0, <2>3, <3>1, HeadTaken
    <3> HIDE DEF N
    <3>3. ASSUME NEW i \in DOMAIN w, NEW j \in DOMAIN w, i < j PROVE w[i] < w[j]
      <4>1. i + 1 \in DOMAIN waiting /\ j + 1 \in DOMAIN waiting /\ i + 1 < j + 1
        BY <3>2, <3>3
      <4>2. w[i] = waiting[i + 1] /\ w[j] = waiting[j + 1]
        BY <3>2
      <4> QED BY <1>0, <4>1, <4>2 DEF InTurn
    <3>4. ASSUME NEW i \in DOMAIN w PROVE next < w[i] /\ w[i] \in 1 .. connections
      <4>1. i + 1 \in DOMAIN waiting /\ 1 \in DOMAIN waiting /\ 1 < i + 1
        BY <3>2
      <4>2. w[i] = waiting[i + 1] /\ next = waiting[1]
        BY <3>2
      <4> QED BY <1>0, <4>1, <4>2 DEF InTurn
    <3>5. \A c \in Returned \cup dropped.clients : c < next /\ \A i \in DOMAIN w : c < w[i]
      BY <1>0, <3>2 DEF InTurn
    <3>6. next \in 1 .. connections
      BY <1>0, <3>2
    <3> QED BY <2>3, <3>2, <3>3, <3>4, <3>5, <3>6
  <2> QED BY <2>1, <2>2, <2>3
<1>4. /\ h \in Seq([client : Nat, noDelay : BOOLEAN]) /\ L \in Nat /\ DOMAIN h = 1 .. L + 1
      /\ DOMAIN handedOut = 1 .. L
      /\ \A i \in 1 .. L : h[i] = handedOut[i]
      /\ h[L + 1].client = next
  <2> DEFINE e == [client |-> next, noDelay |-> _noDelay]
             E == [client : Nat, noDelay : BOOLEAN]
  <2>1. e \in E /\ e.client = next
    BY <1>0, <1>3
  <2>2. handedOut \in Seq(E)
    BY <1>0
  <2> HIDE DEF e, E
  <2>3. Append(handedOut, e) \in Seq(E) /\ L \in Nat /\ DOMAIN Append(handedOut, e) = 1 .. L + 1
        /\ DOMAIN handedOut = 1 .. L /\ (\A i \in 1 .. L : Append(handedOut, e)[i] = handedOut[i])
        /\ Append(handedOut, e)[L + 1] = e
    BY <2>1, <2>2, AppendAdds
  <2> QED BY <2>1, <2>3 DEF e, E
<1>5. /\ dropped'.clients = dropped.clients \cup gone /\ dropped'.listeners = dropped.listeners
      /\ dropped' \in [listeners : SUBSET Nat, clients : SUBSET (1 .. connections)]
      /\ gone \subseteq 1 .. connections
  <2>1. gone \subseteq 1 .. connections
    BY <1>0, <1>1, <1>3
  <2> HIDE DEF gone
  <2> QED BY <1>0, <1>2, <2>1
<1> HIDE DEF h, w, next, L
<1>8. /\ HandedOutInOrder' /\ handedOut' \in Seq([client : Nat, noDelay : BOOLEAN])
      /\ \A i \in DOMAIN handedOut' : handedOut'[i].client \in 1 .. connections
      /\ Returned' \cup dropped'.clients \subseteq Returned \cup dropped.clients \cup ({next} \ {NoSocket})
      /\ {next} \ {NoSocket} \subseteq Returned' \cup dropped'.clients
      /\ Returned \cup dropped.clients \subseteq Returned' \cup dropped'.clients
  <2>1. CASE next = NoSocket \/ failed
    <3>1. /\ handedOut' = handedOut /\ Returned' = Returned
          /\ (next # NoSocket => next \in dropped'.clients)
          /\ dropped'.clients \subseteq dropped.clients \cup ({next} \ {NoSocket})
          /\ dropped.clients \subseteq dropped'.clients
      BY <1>1, <1>5, <2>1 DEF Returned
    <3>2. HandedOutInOrder' /\ \A i \in DOMAIN handedOut' : handedOut'[i].client \in 1 .. connections
      BY <1>0, <3>1 DEF HandedOutInOrder
    <3>3. handedOut' \in Seq([client : Nat, noDelay : BOOLEAN])
      BY <1>0, <3>1
    <3> QED BY <3>1, <3>2, <3>3
  <2>2. CASE ~(next = NoSocket \/ failed)
    <3>1. handedOut' = h /\ dropped'.clients = dropped.clients /\ next \in 1 .. connections /\ next # NoSocket
      BY <1>1, <1>3, <1>5, <2>2
    <3>2. \A i \in 1 .. L + 1 : i \in 1 .. L \/ i = L + 1
      BY <1>4
    <3>3. L + 1 \in 1 .. L + 1 /\ \A i \in 1 .. L : i \in 1 .. L + 1
      BY <1>4
    <3>4. \A i \in DOMAIN h : h[i].client \in 1 .. connections
      BY <1>0, <1>4, <3>1, <3>2
    <3>5. {h[i].client : i \in DOMAIN h} = {handedOut[i].client : i \in DOMAIN handedOut} \cup {next}
      BY <1>4, <3>2, <3>3
    <3>6. Returned' = Returned \cup {next}
      BY <3>1, <3>5 DEF Returned
    <3>7. \A i \in 1 .. L : handedOut[i].client \in Returned
      BY <1>4 DEF Returned
    <3>8. \A i, j \in DOMAIN h : i < j => h[i].client < h[j].client
      <4> SUFFICES ASSUME NEW i \in 1 .. L + 1, NEW j \in 1 .. L + 1, i < j
                   PROVE  h[i].client < h[j].client
        BY <1>4
      <4>1. i \in 1 .. L
        BY <1>4
      <4>2. CASE j \in 1 .. L
        BY <1>0, <1>4, <4>1, <4>2 DEF HandedOutInOrder
      <4>3. CASE j = L + 1
        BY <1>3, <1>4, <3>1, <3>7, <4>1, <4>3
      <4> QED BY <3>2, <4>2, <4>3
    <3>9. HandedOutInOrder' /\ \A i \in DOMAIN handedOut' : handedOut'[i].client \in 1 .. connections
      BY <3>1, <3>4, <3>8 DEF HandedOutInOrder
    <3> QED BY <1>4, <3>1, <3>6, <3>9
  <2> QED BY <2>1, <2>2
<1>9. ServerTypeOK'
  <2>1. serverFaults' \in 0 .. MaxServerFaults
    BY ServerAssumption DEF ServerIInv, ServerTypeOK, available, Tally
  <2>2. openClients' \subseteq 1 .. connections
    BY <1>0, <1>1, <1>3
  <2>3. \A i \in DOMAIN waiting' : waiting'[i] \in 1 .. connections
    BY <1>1, <1>3
  <2>4. _accepted_sockfd' \in {NoSocket} \cup (1 .. connections)
    BY <1>1
  <2> QED BY <1>1, <1>8, <2>1, <2>2, <2>3, <2>4 DEF ServerIInv, ServerTypeOK
<1>10. OneListener'
  BY <1>1, <1>5 DEF ServerIInv, OneListener
<1>11. InTurn'
  BY <1>0, <1>1, <1>3, <1>8 DEF InTurn, NoSocket
<1>12. NobodyForgotten'
  <2>1. NoSocket \notin Returned' \cup dropped'.clients
    BY <1>0, <1>3, <1>8
  <2>2. \A c \in 1 .. connections : c # NoSocket
    BY <1>0
  <2>3. ASSUME NEW c \in 1 .. connections
        PROVE  c \in ToSet(w) \cup {NoSocket} \cup Returned' \cup reset \cup dropped'.clients
    BY <1>0, <1>3, <1>8, <2>2, <2>3 DEF NobodyForgotten
  <2> QED BY <1>1, <2>1, <2>3 DEF NobodyForgotten
<1>13. ServerKnown'
  BY <1>1, <1>3, <1>5, <1>8, <1>11 DEF ServerKnown
<1> QED BY <1>8, <1>9, <1>10, <1>12, <1>13 DEF ServerIInv

LEMMA ServerKept ==
  ASSUME ServerIInv, [ServerNext]_serverVars
  PROVE  ServerIInv'
BY ClientConnectsKeeps, BeginServerKeeps, ServerQuietKeeps, HasClientKeeps, EndServerKeeps, AvailableKeeps
DEF ServerNext

(***************************************************************************)
(* UDP (WiFiUdp).                                                           *)
(***************************************************************************)
LEMMA UdpNumbers ==
  /\ BUFSIZE \in Nat \ {0} /\ Group \notin Peers /\ DatagramSizes \subseteq Nat
  /\ MaxOpens \in Nat /\ MaxPackets \in Nat /\ MaxBytesOut \in Nat
BY UdpAssumption

LEMMA UdpInitial == UdpInit => UdpIInv
<1> SUFFICES ASSUME UdpInit PROVE UdpIInv
  OBVIOUS
<1>1. UdpTypeOK
  <2>1. packet.written = 0 /\ udpDatagram.read = 0 /\ udpDatagram.size = 0
    BY DEF UdpInit, NoPacket
  <2>2. 0 \in 0 .. MaxBytesOut /\ 0 \in 0 .. 0
    BY UdpNumbers
  <2> QED BY <2>1, <2>2 DEF UdpInit, UdpTypeOK
<1>2. SocketHeld /\ PacketWhole /\ DatagramInOrder
  BY DEF UdpInit, SocketHeld, PacketWhole, DatagramInOrder, NoPacket
<1>3. UdpKnown
  BY UdpNumbers DEF UdpInit, UdpKnown, NoPacket, Begun
<1> QED BY <1>1, <1>2, <1>3 DEF UdpIInv

(* The object's own socket is the only one there is to close.               *)
LEMMA UdpAllClosed ==
  ASSUME UdpIInv
  PROVE  UdpClosed = {}
BY DEF UdpIInv, SocketHeld, UdpClosed

(* A step that leaves packet and buffers as they are keeps what holds of    *)
(* them.                                                                    *)
LEMMA StopUdpKeeps ==
  ASSUME UdpIInv, stopUdp
  PROVE  UdpIInv'
<1>1. /\ udp_server' = -1 /\ sockets' = {} /\ multicast_ip' = None
      /\ tx_buffer' = None /\ udp_rx_buffer' = None /\ udpInbox' = <<>> /\ packet' = NoPacket
      /\ UNCHANGED <<remote, server_port, udpDatagram, opens, packets, readBytes, udpFaults>>
  BY UdpAllClosed DEF stopUdp, counts, UdpIInv, UdpKnown
<1>2. UdpTypeOK'
  BY <1>1, UdpNumbers DEF UdpIInv, UdpTypeOK, NoPacket
<1>3. SocketHeld' /\ PacketWhole' /\ DatagramInOrder'
  BY <1>1 DEF SocketHeld, PacketWhole, DatagramInOrder, NoPacket
<1>4. UdpKnown'
  BY <1>1 DEF UdpIInv, UdpKnown, NoPacket, Begun
<1> QED BY <1>2, <1>3, <1>4 DEF UdpIInv

LEMMA BeginUdpKeeps ==
  ASSUME UdpIInv, NEW group \in {None, Group}, NEW fault \in {"none", "socket", "option"}, beginUdp(group, fault)
  PROVE  UdpIInv'
<1> DEFINE n == opens + packets + 1
<1>1. /\ opens < MaxOpens /\ opens' = opens + 1 /\ server_port' = TRUE /\ udp_rx_buffer' = None
      /\ udpInbox' = <<>> /\ packet' = NoPacket /\ tx_buffer' \in {None, <<>>}
      /\ UNCHANGED <<remote, udpDatagram, packets, readBytes>>
      /\ \/ udp_server' = n /\ sockets' = {[id |-> n, joined |-> group]} /\ multicast_ip' = group
         \/ udp_server' = -1 /\ sockets' = {} /\ multicast_ip' = None
  BY UdpAllClosed DEF beginUdp, NewSocket, UdpIInv, UdpKnown
<1>2. opens + 1 \in 0 .. MaxOpens /\ n \in 1 .. MaxOpens + MaxPackets /\ n # -1
  <2>1. opens \in 0 .. MaxOpens /\ packets \in 0 .. MaxPackets
    BY DEF UdpIInv, UdpKnown
  <2> QED BY <1>1, <2>1, UdpNumbers
<1> HIDE DEF n
<1>3. UdpTypeOK'
  BY <1>1, <1>2, UdpNumbers DEF UdpIInv, UdpTypeOK, NoPacket
<1>4. SocketHeld'
  BY <1>1, <1>2 DEF SocketHeld
<1>5. PacketWhole' /\ DatagramInOrder'
  BY <1>1 DEF PacketWhole, DatagramInOrder, NoPacket
<1>6. UdpKnown'
  BY <1>1, <1>2 DEF UdpIInv, UdpKnown, NoPacket, Begun
<1> QED BY <1>3, <1>4, <1>5, <1>6 DEF UdpIInv

LEMMA BeginPacketKeeps ==
  ASSUME UdpIInv, NEW to \in Peers \cup {Group}, NEW fails \in BOOLEAN, beginPacket(to, fails)
  PROVE  UdpIInv'
<1> DEFINE n == opens + packets + 1
<1>1. /\ packets < MaxPackets /\ packets' = packets + 1 /\ remote' = to /\ tx_buffer' = <<>>
      /\ packet' = (IF fails THEN NoPacket ELSE [NoPacket EXCEPT !.to = to])
      /\ \/ UNCHANGED <<udp_server, sockets>>
         \/ udp_server = -1 /\ udp_server' = n /\ sockets' = {[id |-> n, joined |-> None]}
      /\ UNCHANGED <<server_port, multicast_ip, udp_rx_buffer, udpInbox, udpDatagram, opens, readBytes>>
  BY DEF beginPacket, NewSocket, udpSocket, UdpIInv, SocketHeld
<1>2. packets + 1 \in 0 .. MaxPackets /\ n \in 1 .. MaxOpens + MaxPackets /\ n # -1
  <2>1. opens \in 0 .. MaxOpens /\ packets \in 0 .. MaxPackets
    BY DEF UdpIInv, UdpKnown
  <2> QED BY <1>1, <2>1, UdpNumbers
<1>3. /\ packet' = NoPacket \/ packet' = [NoPacket EXCEPT !.to = to]
      /\ packet'.written = 0 /\ packet'.sent = <<>> /\ packet'.lost = FALSE /\ packet'.ended = FALSE
      /\ packet'.stray = FALSE /\ packet'.to \in {None, to}
  BY <1>1 DEF NoPacket
<1> HIDE DEF n
<1>4. UdpTypeOK'
  BY <1>1, <1>2, <1>3, UdpNumbers DEF UdpIInv, UdpTypeOK
<1>5. SocketHeld'
  BY <1>1, <1>2 DEF UdpIInv, UdpKnown, SocketHeld
<1>6. PacketWhole'
  <2>1. \A i \in 1 .. 0 : FALSE
    OBVIOUS
  <2>2. Len(<<>>) = 0 /\ DOMAIN <<>> = {} /\ 0 = 0 * BUFSIZE + 0
    BY UdpNumbers
  <2> QED BY <1>1, <1>3, <2>1, <2>2 DEF PacketWhole, Behind
<1>7. DatagramInOrder'
  BY <1>1 DEF UdpIInv, DatagramInOrder
<1>8. UdpKnown'
  <2>1. packet' \in [to : Peers \cup {None, Group}, written : Nat, sent : {<<>>},
                     lost : BOOLEAN, ended : BOOLEAN, stray : BOOLEAN]
    <3> DEFINE R == [to : Peers \cup {None, Group}, written : Nat, sent : {<<>>},
                     lost : BOOLEAN, ended : BOOLEAN, stray : BOOLEAN]
    <3>1. NoPacket \in R
      BY DEF NoPacket
    <3>2. [NoPacket EXCEPT !.to = to] \in R
      BY DEF NoPacket
    <3> HIDE DEF R
    <3>3. packet' \in R
      BY <1>3, <3>1, <3>2
    <3> QED BY <3>3 DEF R
  <2>2. udp_server' = -1 => multicast_ip' = None
    BY <1>1, <1>2 DEF UdpIInv, UdpKnown
  <2>3. <<>> \in Seq([to : Peers \cup {None, Group}, data : Seq(Nat)])
    OBVIOUS
  <2>4. tx_buffer' \in Seq(Nat) /\ Len(tx_buffer') <= BUFSIZE
    <3>1. Len(<<>>) <= BUFSIZE /\ <<>> \in Seq(Nat)
      BY UdpNumbers
    <3> QED BY <1>1, <3>1
  <2>5. /\ packet' \in [to : Peers \cup {None, Group}, written : Nat, sent : {packet'.sent},
                       lost : BOOLEAN, ended : BOOLEAN, stray : BOOLEAN]
        /\ packet'.sent \in Seq([to : Peers \cup {None, Group}, data : Seq(Nat)])
    BY <1>3, <2>1, <2>3
  <2>6. packet'.to # None => packet'.to = to
    BY <1>3
  <2> QED BY <1>1, <1>2, <1>3, <2>2, <2>4, <2>5, <2>6 DEF UdpIInv, UdpKnown, Begun
<1> QED BY <1>4, <1>5, <1>6, <1>7, <1>8 DEF UdpIInv

(* Where the next byte goes in the packet.                                  *)
LEMMA NextOffset == \A n \in Nat : (n + 1) * BUFSIZE = n * BUFSIZE + BUFSIZE /\ n * BUFSIZE \in Nat
BY UdpNumbers

(* The buffer goes out as a datagram, or is lost.                           *)
LEMMA PacketSentGrows ==
  ASSUME UdpIInv, Begun, NEW fails \in BOOLEAN
  PROVE  LET p == PacketSent(fails)
             n == Len(packet.sent)
         IN  /\ n \in Nat /\ DOMAIN packet.sent = 1 .. n
             /\ p.sent \in Seq([to : Peers \cup {None, Group}, data : Seq(Nat)])
             /\ p \in [to : Peers \cup {None, Group}, written : Nat, sent : {p.sent},
                       lost : BOOLEAN, ended : BOOLEAN, stray : BOOLEAN]
             /\ p.to = packet.to /\ p.written = packet.written /\ p.stray = packet.stray
             /\ p.ended = packet.ended /\ p.lost = (packet.lost \/ fails)
             /\ ~p.lost => /\ Len(p.sent) = n + 1 /\ p.sent # <<>>
                           /\ \A i \in 1 .. n : p.sent[i] = packet.sent[i]
                           /\ p.sent[n + 1].data = tx_buffer
             /\ ~p.stray => \A i \in DOMAIN p.sent : p.sent[i].to = packet.to
<1> DEFINE D == [to : Peers \cup {None, Group}, data : Seq(Nat)]
           d == [to |-> remote, data |-> tx_buffer]
           s == packet.sent
           a == Append(s, d)
           out == IF fails THEN s ELSE a
           p == PacketSent(fails)
           n == Len(s)
<1>1. /\ s \in Seq(D) /\ tx_buffer \in Seq(Nat) /\ remote \in Peers \cup {None, Group}
      /\ packet \in [to : Peers \cup {None, Group}, written : Nat, sent : {s},
                     lost : BOOLEAN, ended : BOOLEAN, stray : BOOLEAN]
      /\ packet.stray \/ remote = packet.to
      /\ ~packet.stray => \A i \in DOMAIN s : s[i].to = packet.to
  BY DEF UdpIInv, UdpTypeOK, UdpKnown, PacketWhole, Begun
<1>2. d \in D /\ d.to = remote /\ d.data = tx_buffer
  BY <1>1
<1> HIDE DEF D, d, s
<1>3. /\ a \in Seq(D) /\ Len(a) = n + 1 /\ DOMAIN s = 1 .. n /\ DOMAIN a = 1 .. n + 1 /\ n \in Nat
      /\ (\A i \in 1 .. n : a[i] = s[i]) /\ a[n + 1] = d
  BY <1>1, <1>2, AppendAdds
<1> HIDE DEF a, n
<1>4. p = [packet EXCEPT !.sent = out, !.lost = @ \/ fails]
  BY DEF PacketSent, a, d, s
<1>5. out \in Seq(D)
  BY <1>1, <1>3
<1> HIDE DEF out, p
<1>6. /\ p.sent = out /\ p.to = packet.to /\ p.written = packet.written /\ p.stray = packet.stray
      /\ p.ended = packet.ended /\ p.lost = (packet.lost \/ fails)
      /\ p \in [to : Peers \cup {None, Group}, written : Nat, sent : {p.sent},
                lost : BOOLEAN, ended : BOOLEAN, stray : BOOLEAN]
  BY <1>1, <1>4
<1>7. ~p.lost => out = a
  BY <1>6 DEF out
<1>8. a # <<>>
  BY <1>3
<1>9. ~packet.stray => \A i \in DOMAIN out : out[i].to = packet.to
  <2>1. \A i \in 1 .. n + 1 : i \in 1 .. n \/ i = n + 1
    BY <1>3
  <2>2. ~packet.stray => \A i \in DOMAIN a : a[i].to = packet.to
    BY <1>1, <1>2, <1>3, <2>1
  <2> QED BY <1>1, <2>2 DEF out
<1> QED
  BY <1>2, <1>3, <1>5, <1>6, <1>7, <1>8, <1>9 DEF p, n, s, D

LEMMA PacketCounts ==
  ASSUME NEW T, NEW S, NEW b \in Nat,
         NEW p \in [to : T, written : Nat, sent : S, lost : BOOLEAN, ended : BOOLEAN, stray : BOOLEAN]
  PROVE  LET q == [p EXCEPT !.written = b] IN
         /\ q \in [to : T, written : Nat, sent : S, lost : BOOLEAN, ended : BOOLEAN, stray : BOOLEAN]
         /\ q.sent = p.sent
OBVIOUS

LEMMA WriteUdpKeeps ==
  ASSUME UdpIInv, NEW fails \in BOOLEAN, writeUdp(fails)
  PROVE  UdpIInv'
<1> DEFINE n == Len(packet.sent)
           b == packet.written + 1
           full == Len(tx_buffer) = BUFSIZE
           rest == IF full THEN <<>> ELSE tx_buffer
           txd == Append(rest, b)
           p == IF full THEN PacketSent(fails) ELSE packet
           D == [to : Peers \cup {None, Group}, data : Seq(Nat)]
           R(q) == q \in [to : Peers \cup {None, Group}, written : Nat, sent : {q.sent},
                          lost : BOOLEAN, ended : BOOLEAN, stray : BOOLEAN]
<1>1. /\ Begun /\ packet.written < MaxBytesOut /\ tx_buffer' = txd
      /\ packet' = [p EXCEPT !.written = @ + 1]
      /\ UNCHANGED <<udp_server, sockets, remote, server_port, multicast_ip, udp_rx_buffer, udpInbox,
                     udpDatagram, opens, packets, readBytes>>
  BY DEF writeUdp, Buffered, udpSocket, peer
<1>2. /\ tx_buffer \in Seq(Nat) /\ Len(tx_buffer) <= BUFSIZE /\ Len(tx_buffer) \in Nat
      /\ DOMAIN tx_buffer = 1 .. Len(tx_buffer) /\ packet.written \in Nat /\ b \in 0 .. MaxBytesOut
      /\ b \in Nat /\ BUFSIZE \in Nat \ {0} /\ packet.to # None /\ ~packet.ended
      /\ packet.sent \in Seq(D) /\ R(packet) /\ (packet.stray \/ remote = packet.to)
  BY <1>1, UdpNumbers DEF UdpIInv, UdpKnown, UdpTypeOK, Begun
<1>3. /\ n \in Nat /\ p.sent \in Seq(D) /\ R(p)
      /\ p.to = packet.to /\ p.written = packet.written /\ p.stray = packet.stray
      /\ p.ended = packet.ended /\ (~p.lost => ~packet.lost)
      /\ ~p.lost => IF full THEN /\ Len(p.sent) = n + 1 /\ p.sent[n + 1].data = tx_buffer
                                 /\ \A i \in 1 .. n : p.sent[i] = packet.sent[i]
                            ELSE p.sent = packet.sent
      /\ ~p.stray => \A i \in DOMAIN p.sent : p.sent[i].to = packet.to
  <2>1. CASE full
    BY <1>1, <2>1, PacketSentGrows
  <2>2. CASE ~full
    <3>1. ~packet.stray => \A i \in DOMAIN packet.sent : packet.sent[i].to = packet.to
      BY <1>2 DEF UdpIInv, PacketWhole
    <3>2. p = packet /\ ~full
      BY <2>2
    <3>3. n \in Nat
      BY <1>2
    <3> HIDE DEF p, n, D, full
    <3>4. ~p.lost => IF full THEN /\ Len(p.sent) = n + 1 /\ p.sent[n + 1].data = tx_buffer
                                  /\ \A i \in 1 .. n : p.sent[i] = packet.sent[i]
                             ELSE p.sent = packet.sent
      BY <3>2
    <3>5. p.sent \in Seq(D) /\ R(p)
      <4>1. packet.sent \in Seq(D) /\ R(packet)
        BY <1>2
      <4> QED BY <3>2, <4>1, Zenon
    <3>6. /\ p.to = packet.to /\ p.written = packet.written /\ p.stray = packet.stray
          /\ p.ended = packet.ended /\ (~p.lost => ~packet.lost)
          /\ ~p.stray => \A i \in DOMAIN p.sent : p.sent[i].to = packet.to
      BY <3>1, <3>2
    <3> QED BY <3>3, <3>4, <3>5, <3>6
  <2> QED BY <2>1, <2>2
<1>4. /\ rest \in Seq(Nat) /\ txd \in Seq(Nat) /\ Len(txd) = Len(rest) + 1 /\ Len(rest) \in Nat
      /\ DOMAIN txd = 1 .. Len(rest) + 1 /\ txd[Len(rest) + 1] = b
      /\ Len(txd) <= BUFSIZE /\ (\A k \in 1 .. Len(rest) : txd[k] = rest[k])
      /\ Len(rest) = (IF full THEN 0 ELSE Len(tx_buffer))
  <2>1. rest \in Seq(Nat) /\ Len(rest) = (IF full THEN 0 ELSE Len(tx_buffer)) /\ Len(rest) < BUFSIZE
    BY <1>2
  <2> HIDE DEF rest, b
  <2> QED BY <1>2, <2>1, AppendAdds
<1> HIDE DEF txd, p, b
<1>5. /\ packet'.to = packet.to /\ packet'.stray = packet.stray /\ packet'.ended = FALSE
      /\ packet'.sent = p.sent /\ packet'.lost = p.lost /\ packet'.written = b
      /\ R(packet')
  <2>1. R([p EXCEPT !.written = @ + 1])
    <3>1. p.written + 1 \in Nat /\ R(p)
      BY <1>2, <1>3
    <3> QED BY <3>1, PacketCounts
  <2> QED BY <1>1, <1>2, <1>3, <2>1 DEF b
<1> HIDE DEF D
<1>6. UdpTypeOK'
  <2>1. tx_buffer' # None => Len(tx_buffer') <= BUFSIZE
    BY <1>1, <1>4
  <2>2. packet'.written \in 0 .. MaxBytesOut
    BY <1>2, <1>5
  <2> QED BY <1>1, <2>1, <2>2 DEF UdpIInv, UdpTypeOK
<1>7. SocketHeld' /\ DatagramInOrder'
  BY <1>1 DEF UdpIInv, SocketHeld, DatagramInOrder
<1>8. PacketWhole'
  <2>1. ASSUME ~p.lost
        PROVE  LET m == Len(p.sent) IN
               /\ \A i \in 1 .. m : Len(p.sent[i].data) = BUFSIZE /\ Behind((i - 1) * BUFSIZE, p.sent[i].data)
               /\ Behind(m * BUFSIZE, txd) /\ b = m * BUFSIZE + Len(txd)
    <3>1. /\ \A i \in 1 .. n : /\ Len(packet.sent[i].data) = BUFSIZE
                               /\ Behind((i - 1) * BUFSIZE, packet.sent[i].data)
          /\ Behind(n * BUFSIZE, tx_buffer) /\ packet.written = n * BUFSIZE + Len(tx_buffer)
      BY <1>2, <1>3, <2>1 DEF UdpIInv, PacketWhole
    <3>2. \A k \in DOMAIN txd : k \in 1 .. Len(rest) \/ k = Len(rest) + 1
      BY <1>4
    <3>3. CASE full
      <4> DEFINE m == n + 1
      <4>1. (n + 1) * BUFSIZE = n * BUFSIZE + BUFSIZE /\ n * BUFSIZE \in Nat /\ (n + 1) - 1 = n
        BY <1>3, NextOffset
      <4>2. /\ Len(p.sent) = m /\ p.sent[m].data = tx_buffer
            /\ \A i \in 1 .. n : p.sent[i] = packet.sent[i]
        BY <1>3, <2>1, <3>3
      <4>3. \A i \in 1 .. m : i \in 1 .. n \/ i = m
        BY <1>3
      <4>4. b = m * BUFSIZE + 1 /\ Len(rest) = 0
        BY <1>2, <1>4, <3>1, <3>3, <4>1 DEF b
      <4>5. Behind(m * BUFSIZE, txd) /\ b = m * BUFSIZE + Len(txd)
        BY <1>4, <3>2, <4>4 DEF Behind
      <4>6. \A i \in 1 .. m : Len(p.sent[i].data) = BUFSIZE /\ Behind((i - 1) * BUFSIZE, p.sent[i].data)
        BY <3>1, <3>3, <4>1, <4>2, <4>3
      <4> HIDE DEF m
      <4> QED BY <4>2, <4>5, <4>6
    <3>4. CASE ~full
      <4>1. p.sent = packet.sent /\ rest = tx_buffer
        BY <1>3, <2>1, <3>4
      <4>2. n * BUFSIZE \in Nat
        BY <1>3, NextOffset
      <4>3. b = n * BUFSIZE + (Len(rest) + 1)
        <5> DEFINE l == Len(tx_buffer)
                   N == n * BUFSIZE
        <5>1. packet.written = N + l /\ l \in Nat /\ N \in Nat /\ Len(rest) = l
          BY <1>2, <3>1, <4>1, <4>2
        <5> HIDE DEF l, N, rest
        <5>2. b = N + (Len(rest) + 1)
          BY <5>1 DEF b
        <5> QED BY <5>2 DEF N
      <4>4. Behind(n * BUFSIZE, txd) /\ b = n * BUFSIZE + Len(txd)
        <5>1. \A k \in 1 .. Len(rest) : rest[k] = n * BUFSIZE + k
          BY <1>2, <3>1, <4>1 DEF Behind
        <5> HIDE DEF rest
        <5> QED BY <1>4, <3>2, <4>3, <5>1 DEF Behind
      <4> QED BY <3>1, <4>1, <4>4
    <3> QED BY <3>3, <3>4
  <2>2. packet'.lost = p.lost /\ tx_buffer' = txd /\ packet'.sent = p.sent /\ packet'.ended = FALSE
    BY <1>1, <1>5
  <2>3. ~packet'.stray => \A i \in DOMAIN packet'.sent : packet'.sent[i].to = packet'.to
    BY <1>3, <1>5
  <2> HIDE DEF n, full, rest
  <2> QED BY <1>5, <2>1, <2>2, <2>3 DEF PacketWhole, Behind
<1>9. UdpKnown'
  <2>1. tx_buffer' \in Seq(Nat) /\ Len(tx_buffer') <= BUFSIZE
    BY <1>1, <1>4
  <2>2. packet'.stray \/ remote' = packet'.to
    BY <1>1, <1>2, <1>5
  <2>3. packet'.sent \in Seq([to : Peers \cup {None, Group}, data : Seq(Nat)])
    BY <1>3, <1>5 DEF D
  <2> QED BY <1>1, <1>5, <2>1, <2>2, <2>3 DEF UdpIInv, UdpKnown, Begun
<1> QED BY <1>6, <1>7, <1>8, <1>9 DEF UdpIInv

LEMMA EndPacketKeeps ==
  ASSUME UdpIInv, NEW fails \in BOOLEAN, endPacket(fails)
  PROVE  UdpIInv'
<1> DEFINE n == Len(packet.sent)
           p == PacketSent(fails)
           D == [to : Peers \cup {None, Group}, data : Seq(Nat)]
           R(q) == q \in [to : Peers \cup {None, Group}, written : Nat, sent : {q.sent},
                          lost : BOOLEAN, ended : BOOLEAN, stray : BOOLEAN]
<1>1. /\ Begun /\ packet' = [p EXCEPT !.ended = TRUE]
      /\ UNCHANGED <<udp_server, sockets, remote, server_port, multicast_ip, tx_buffer, udp_rx_buffer,
                     udpInbox, udpDatagram, opens, packets, readBytes>>
  BY DEF endPacket, udpSocket, peer
<1>2. /\ n \in Nat /\ p.sent \in Seq(D) /\ R(p)
      /\ p.to = packet.to /\ p.written = packet.written /\ p.stray = packet.stray
      /\ p.lost = (packet.lost \/ fails)
      /\ ~p.lost => /\ Len(p.sent) = n + 1 /\ p.sent # <<>> /\ p.sent[n + 1].data = tx_buffer
                    /\ \A i \in 1 .. n : p.sent[i] = packet.sent[i]
      /\ ~p.stray => \A i \in DOMAIN p.sent : p.sent[i].to = packet.to
  BY <1>1, PacketSentGrows
<1>3. /\ packet.to # None /\ ~packet.ended /\ packet.written \in 0 .. MaxBytesOut
  BY <1>1 DEF UdpIInv, UdpTypeOK, Begun
<1> HIDE DEF p, D
<1>4. /\ packet'.to = packet.to /\ packet'.stray = packet.stray /\ packet'.ended = TRUE
      /\ packet'.sent = p.sent /\ packet'.lost = p.lost /\ packet'.written = packet.written
      /\ R(packet')
  <2> DEFINE q == [p EXCEPT !.ended = TRUE]
  <2>1. /\ q.to = p.to /\ q.stray = p.stray /\ q.ended = TRUE /\ q.sent = p.sent /\ q.lost = p.lost
        /\ q.written = p.written /\ R(q)
    BY <1>2
  <2> HIDE DEF q
  <2>2. packet' = q
    BY <1>1 DEF q
  <2> QED BY <1>2, <2>1, <2>2
<1>5. UdpTypeOK'
  <2>1. packet'.written \in 0 .. MaxBytesOut
    BY <1>3, <1>4
  <2> QED BY <1>1, <2>1 DEF UdpIInv, UdpTypeOK
<1>6. SocketHeld' /\ DatagramInOrder'
  BY <1>1 DEF UdpIInv, SocketHeld, DatagramInOrder
<1>7. PacketWhole'
  <2>1. ASSUME ~p.lost
        PROVE  /\ \A i \in 1 .. n : /\ Len(p.sent[i].data) = BUFSIZE
                                    /\ Behind((i - 1) * BUFSIZE, p.sent[i].data)
               /\ Behind(n * BUFSIZE, p.sent[n + 1].data)
               /\ packet.written = n * BUFSIZE + Len(p.sent[n + 1].data)
    BY <1>2, <1>3, <2>1 DEF UdpIInv, PacketWhole
  <2>2. ~p.lost => Len(p.sent) - 1 = n
    BY <1>2
  <2>3. ~packet'.stray => \A i \in DOMAIN packet'.sent : packet'.sent[i].to = packet'.to
    BY <1>2, <1>4
  <2> HIDE DEF n
  <2> QED BY <1>4, <2>1, <2>2, <2>3 DEF PacketWhole, Behind
<1>8. UdpKnown'
  <2>1. packet'.sent \in Seq([to : Peers \cup {None, Group}, data : Seq(Nat)])
    BY <1>2, <1>4 DEF D
  <2>2. packet'.ended /\ ~packet'.lost => packet'.sent # <<>>
    BY <1>2, <1>4
  <2> QED BY <1>1, <1>4, <2>1, <2>2 DEF UdpIInv, UdpKnown, Begun
<1> QED BY <1>5, <1>6, <1>7, <1>8 DEF UdpIInv

LEMMA DatagramArrivesKeeps ==
  ASSUME UdpIInv, DatagramArrives
  PROVE  UdpIInv'
<1> DEFINE I == [from : Peers, size : DatagramSizes]
<1>1. /\ UNCHANGED <<udp_server, sockets, remote, server_port, multicast_ip, tx_buffer, udp_rx_buffer,
                     packet, udpDatagram, opens, packets>>
  BY DEF DatagramArrives, udpSocket, peer, udpHistory
<1>2. PICK d \in I : udpInbox' = Append(udpInbox, d)
  BY DEF DatagramArrives
<1>3. udpInbox \in Seq(I)
  BY DEF UdpIInv, UdpKnown
<1> HIDE DEF I
<1>4. Append(udpInbox, d) \in Seq(I)
  BY <1>2, <1>3
<1>5. udpInbox' \in Seq([from : Peers, size : DatagramSizes])
  BY <1>2, <1>4 DEF I
<1>6. UdpTypeOK' /\ SocketHeld' /\ PacketWhole' /\ DatagramInOrder'
  BY <1>1 DEF UdpIInv, UdpTypeOK, SocketHeld, PacketWhole, DatagramInOrder, Behind
<1>7. UdpKnown'
  BY <1>1, <1>5 DEF UdpIInv, UdpKnown, Begun
<1> QED BY <1>6, <1>7 DEF UdpIInv

LEMMA ParsePacketKeeps ==
  ASSUME UdpIInv, parsePacket
  PROVE  UdpIInv'
<1> DEFINE h == Head(udpInbox)
           len == FewerOf(h.size, BUFSIZE)
           I == [from : Peers, size : DatagramSizes]
           rxd == [k \in 1 .. len |-> k]
<1>1. /\ udpInbox # <<>> /\ udpInbox' = Tail(udpInbox) /\ remote' = h.from /\ udp_rx_buffer' = rxd
      /\ udpDatagram' = [size |-> len, read |-> 0]
      /\ packet' = [packet EXCEPT !.stray = @ \/ Begun]
      /\ UNCHANGED <<udp_server, sockets, server_port, multicast_ip, tx_buffer, opens, packets, readBytes>>
  BY DEF parsePacket, udpSocket, counts
<1>2. h \in I /\ Tail(udpInbox) \in Seq(I)
  BY <1>1, HeadTaken DEF UdpIInv, UdpKnown
<1>3. len \in Nat /\ len <= BUFSIZE /\ h.from \in Peers
  <2> DEFINE z == h.size
  <2>1. z \in Nat /\ h.from \in Peers
    BY <1>2, UdpNumbers
  <2>2. BUFSIZE \in Nat
    BY UdpNumbers
  <2> HIDE DEF z, h
  <2>3. FewerOf(z, BUFSIZE) \in Nat /\ FewerOf(z, BUFSIZE) <= BUFSIZE
    BY <2>1, <2>2 DEF FewerOf
  <2> QED BY <2>1, <2>3 DEF z
<1> HIDE DEF h, len
<1>4. rxd \in Seq(Nat) /\ Len(rxd) = len
  BY <1>3
<1>5. /\ packet'.to = packet.to /\ packet'.stray = (packet.stray \/ Begun) /\ packet'.ended = packet.ended
      /\ packet'.sent = packet.sent /\ packet'.lost = packet.lost /\ packet'.written = packet.written
      /\ packet' \in [to : Peers \cup {None, Group}, written : Nat, sent : {packet.sent},
                      lost : BOOLEAN, ended : BOOLEAN, stray : BOOLEAN]
  <2> DEFINE q == [packet EXCEPT !.stray = @ \/ Begun]
  <2>1. packet \in [to : Peers \cup {None, Group}, written : Nat, sent : {packet.sent},
                    lost : BOOLEAN, ended : BOOLEAN, stray : BOOLEAN]
    BY DEF UdpIInv, UdpKnown
  <2>2. Begun \in BOOLEAN
    BY DEF Begun
  <2>3. /\ q.to = packet.to /\ q.stray = (packet.stray \/ Begun) /\ q.ended = packet.ended
        /\ q.sent = packet.sent /\ q.lost = packet.lost /\ q.written = packet.written
        /\ q \in [to : Peers \cup {None, Group}, written : Nat, sent : {packet.sent},
                  lost : BOOLEAN, ended : BOOLEAN, stray : BOOLEAN]
    BY <2>1, <2>2
  <2> HIDE DEF q
  <2>4. packet' = q
    BY <1>1 DEF q
  <2> QED BY <2>3, <2>4
<1>6. udpDatagram'.size = len /\ udpDatagram'.read = 0 /\ udpDatagram' \in [size : Nat, read : Nat]
  BY <1>1, <1>3
<1> HIDE DEF rxd
<1>7. UdpTypeOK'
  <2>1. 0 \in 0 .. len
    BY <1>3
  <2> QED BY <1>1, <1>3, <1>4, <1>5, <1>6, <2>1 DEF UdpIInv, UdpTypeOK
<1>8. SocketHeld'
  BY <1>1 DEF UdpIInv, SocketHeld
<1>9. PacketWhole'
  BY <1>1, <1>5 DEF UdpIInv, PacketWhole, Behind
<1>10. DatagramInOrder'
  <2>1. rxd = [k \in 1 .. len - 0 |-> 0 + k]
    BY <1>3 DEF rxd
  <2> QED BY <1>1, <1>6, <2>1 DEF DatagramInOrder
<1>11. UdpKnown'
  <2>1. udpInbox' \in Seq([from : Peers, size : DatagramSizes])
    BY <1>1, <1>2
  <2>2. Begun' => packet'.stray \/ remote' = packet'.to
    BY <1>5 DEF Begun
  <2>3. Begun' => Begun
    BY <1>5 DEF Begun
  <2> QED BY <1>1, <1>4, <1>5, <1>6, <2>1, <2>2, <2>3 DEF UdpIInv, UdpKnown
<1> QED BY <1>7, <1>8, <1>9, <1>10, <1>11 DEF UdpIInv

LEMMA RestTaken ==
  ASSUME NEW S, NEW s \in Seq(S), NEW m \in Nat, m < Len(s)
  PROVE  LET t == SubSeq(s, m + 1, Len(s)) IN
         /\ t \in Seq(S) /\ Len(t) = Len(s) - m
         /\ t = [k \in 1 .. Len(s) - m |-> s[m + k]]
<1> DEFINE L == Len(s)
           t == SubSeq(s, m + 1, L)
<1>1. L \in Nat /\ m + 1 \in 1 .. L + 1 /\ L \in m .. L
  OBVIOUS
<1>2. /\ t \in Seq(S) /\ Len(t) = (IF m + 1 <= L THEN L - (m + 1) + 1 ELSE 0)
      /\ \A i \in 1 .. L - (m + 1) + 1 : t[i] = s[m + 1 + i - 1]
  <2>1. m + 1 \in 1 .. L + 1 /\ L \in (m + 1) - 1 .. L
    BY <1>1
  <2> QED BY <2>1, SubSeqProperties
<1> HIDE DEF t, L
<1>3. L - (m + 1) + 1 = L - m /\ m + 1 <= L
  BY <1>1 DEF L
<1>4. \A i \in 1 .. L - m : m + 1 + i - 1 = m + i
  BY <1>1
<1>5. Len(t) = L - m /\ \A i \in 1 .. L - m : t[i] = s[m + i]
  BY <1>2, <1>3, <1>4
<1>6. t = [k \in 1 .. Len(t) |-> t[k]]
  BY <1>2
<1> QED BY <1>2, <1>5, <1>6 DEF t, L

LEMMA ReadUdpKeeps ==
  ASSUME UdpIInv, NEW len \in Nat, readUdp(len)
  PROVE  UdpIInv'
<1> DEFINE L == Len(udp_rx_buffer)
           out == FewerOf(len, L)
           done == udpDatagram.read
           size == udpDatagram.size
           rest == SubSeq(udp_rx_buffer, out + 1, L)
<1>1. /\ udp_rx_buffer # None
      /\ udp_rx_buffer' = IF out = L THEN None ELSE rest
      /\ udpDatagram' = [udpDatagram EXCEPT !.read = @ + out]
      /\ UNCHANGED <<udp_server, sockets, remote, server_port, multicast_ip, tx_buffer, udpInbox, packet,
                     opens, packets, readBytes>>
  BY DEF readUdp, udpSocket, peer, counts
<1>2. /\ udp_rx_buffer \in Seq(Nat) /\ L \in Nat /\ L <= BUFSIZE /\ DOMAIN udp_rx_buffer = 1 .. L
      /\ udp_rx_buffer = [k \in 1 .. size - done |-> done + k]
      /\ udpDatagram \in [size : Nat, read : Nat] /\ done \in 0 .. size /\ size \in Nat
  BY <1>1 DEF UdpIInv, UdpKnown, UdpTypeOK, DatagramInOrder
<1>3. L = size - done
  BY <1>2
<1>4. out \in Nat /\ out <= L /\ (out = L \/ out < L)
  BY <1>2 DEF FewerOf
<1>5. udpDatagram'.size = size /\ udpDatagram'.read = done + out /\ udpDatagram' \in [size : Nat, read : Nat]
  BY <1>1, <1>2, <1>4
<1>6. out # L => /\ rest \in Seq(Nat) /\ Len(rest) = L - out
                 /\ rest = [k \in 1 .. size - (done + out) |-> (done + out) + k]
  <2>1. ASSUME out < L
        PROVE  /\ rest = [k \in 1 .. L - out |-> udp_rx_buffer[out + k]]
               /\ rest \in Seq(Nat) /\ Len(rest) = L - out
    <3> HIDE DEF out
    <3>1. udp_rx_buffer \in Seq(Nat) /\ out \in Nat /\ out < Len(udp_rx_buffer)
      BY <1>2, <1>4, <2>1
    <3> QED BY <3>1, RestTaken
  <2> HIDE DEF rest, out, L, size, done
  <2>2. L \in Nat /\ size \in Nat /\ done \in Nat /\ out \in Nat /\ L = size - done /\ done <= size
    BY <1>2, <1>3, <1>4
  <2>3. \A k \in 1 .. L - out : out + k \in 1 .. size - done /\ done + (out + k) = (done + out) + k
    BY <2>2
  <2>4. size - (done + out) = L - out
    BY <2>2
  <2>5. \A k \in 1 .. L - out : udp_rx_buffer[out + k] = (done + out) + k
    BY <1>2, <2>3
  <2> QED BY <1>4, <2>1, <2>4, <2>5
<1> HIDE DEF rest, out, L
<1>7. UdpTypeOK'
  <2>1. done + out \in 0 .. size
    BY <1>2, <1>3, <1>4
  <2>2. udp_rx_buffer' # None => Len(udp_rx_buffer') <= BUFSIZE
    <3>1. L \in Nat /\ L <= BUFSIZE /\ out \in Nat /\ BUFSIZE \in Nat
      BY <1>2, <1>4, UdpNumbers
    <3>2. L - out <= BUFSIZE
      BY <3>1
    <3> QED BY <1>1, <1>6, <3>2
  <2> QED BY <1>1, <1>5, <2>1, <2>2 DEF UdpIInv, UdpTypeOK
<1>8. SocketHeld' /\ PacketWhole'
  BY <1>1 DEF UdpIInv, SocketHeld, PacketWhole, Behind
<1>9. DatagramInOrder'
  BY <1>1, <1>5, <1>6 DEF DatagramInOrder
<1>10. UdpKnown'
  BY <1>1, <1>5, <1>6 DEF UdpIInv, UdpKnown, Begun
<1> QED BY <1>7, <1>8, <1>9, <1>10 DEF UdpIInv

LEMMA FlushUdpKeeps ==
  ASSUME UdpIInv, flushUdp \/ UNCHANGED udpVars
  PROVE  UdpIInv'
<1>1. /\ UNCHANGED <<udp_server, sockets, remote, server_port, multicast_ip, tx_buffer, udpInbox, packet,
                     udpDatagram, opens, packets>>
      /\ udp_rx_buffer' = None \/ udp_rx_buffer' = udp_rx_buffer
  BY DEF flushUdp, udpVars, udpSocket, peer, udpHistory, counts
<1>2. UdpTypeOK' /\ SocketHeld' /\ PacketWhole' /\ DatagramInOrder'
  BY <1>1 DEF UdpIInv, UdpTypeOK, SocketHeld, PacketWhole, DatagramInOrder, Behind
<1>3. UdpKnown'
  BY <1>1 DEF UdpIInv, UdpKnown, Begun
<1> QED BY <1>2, <1>3 DEF UdpIInv

LEMMA UdpKept ==
  ASSUME UdpIInv, [UdpNext]_udpVars
  PROVE  UdpIInv'
<1>1. ASSUME NEW fails \in BOOLEAN, beginMulticastPacket(fails) PROVE UdpIInv'
  <2>1. multicast_ip \in {Group} /\ beginPacket(multicast_ip, fails)
    BY <1>1 DEF beginMulticastPacket, UdpIInv, UdpTypeOK
  <2> QED BY <2>1, BeginPacketKeeps
<1>2. \A len \in 1 .. 2 : len \in Nat
  OBVIOUS
<1> QED
  BY <1>1, <1>2, StopUdpKeeps, BeginUdpKeeps, BeginPacketKeeps, WriteUdpKeeps, EndPacketKeeps,
     DatagramArrivesKeeps, ParsePacketKeeps, ReadUdpKeeps, FlushUdpKeeps
  DEF UdpNext

(***************************************************************************)
(* Network events (WiFiEvents).  The erasing of a registration is a         *)
(* recursive function; that it exists is proved by its least counterexample.*)
(***************************************************************************)
LEMMA LeastNatural ==
  ASSUME NEW T, T \subseteq Nat, T # {}
  PROVE  \E x \in T : \A y \in T : x <= y
<1>1. PICK x \in T : \A y \in T : ~ (<<y, x>> \in OpToRel(<, Nat))
  BY NatLessThanWellFounded, WFMin, Zenon
<1>2. \A y \in T : ~(y < x)
  <2>1. ASSUME NEW y \in T, y < x PROVE FALSE
    <3>1. <<y, x>> \in Nat \X Nat /\ <<y, x>>[1] < <<y, x>>[2]
      BY <2>1
    <3> QED BY <1>1, <3>1 DEF OpToRel
  <2> QED BY <2>1
<1> QED BY <1>2

IsErasing(g, list, entry, n) ==
  g = [i \in 0 .. n |-> IF i = 0 THEN list ELSE EraseAt(g[i - 1], i, entry)]

LEMMA ErasingExists ==
  ASSUME NEW list, NEW entry, NEW n \in Nat
  PROVE  \E g : IsErasing(g, list, entry, n)
<1> DEFINE T == {m \in Nat : ~ \E g : IsErasing(g, list, entry, m)}
<1> SUFFICES ASSUME T # {} PROVE FALSE
  OBVIOUS
<1>1. PICK m \in T : \A y \in T : m <= y
  BY LeastNatural
<1>2. CASE m = 0
  <2> DEFINE g == [i \in 0 .. 0 |-> list]
  <2>1. IsErasing(g, list, entry, 0)
    BY DEF IsErasing
  <2> QED BY <1>1, <1>2, <2>1
<1>3. CASE m # 0
  <2>1. m \in Nat /\ m - 1 \in Nat /\ ~(m <= m - 1)
    BY <1>1, <1>3
  <2>2. m - 1 \notin T
    BY <1>1, <2>1
  <2>3. PICK g : IsErasing(g, list, entry, m - 1)
    BY <2>1, <2>2
  <2> DEFINE h == [i \in 0 .. m |-> IF i = m THEN EraseAt(g[m - 1], m, entry) ELSE g[i]]
  <2>4. \A i \in 0 .. m - 1 : g[i] = IF i = 0 THEN list ELSE EraseAt(g[i - 1], i, entry)
    BY <2>3 DEF IsErasing
  <2>5. \A i \in 0 .. m : h[i] = IF i = 0 THEN list ELSE EraseAt(h[i - 1], i, entry)
    <3> SUFFICES ASSUME NEW i \in 0 .. m
                 PROVE  h[i] = IF i = 0 THEN list ELSE EraseAt(h[i - 1], i, entry)
      OBVIOUS
    <3>1. CASE i = m
      <4>1. m - 1 \in 0 .. m /\ m - 1 # m
        BY <2>1
      <4>2. h[m - 1] = g[m - 1]
        BY <4>1
      <4> QED BY <3>1, <4>2, <1>3
    <3>2. CASE i # m
      <4>1. i \in 0 .. m - 1 /\ (i # 0 => i - 1 \in 0 .. m /\ i - 1 # m)
        BY <3>2, <2>1
      <4>2. h[i] = g[i] /\ (i # 0 => h[i - 1] = g[i - 1])
        BY <3>2, <4>1
      <4> QED BY <2>4, <4>1, <4>2
    <3> QED BY <3>1, <3>2
  <2>6. h = [i \in 0 .. m |-> h[i]]
    OBVIOUS
  <2> HIDE DEF h
  <2>7. IsErasing(h, list, entry, m)
    BY <2>5, <2>6 DEF IsErasing
  <2> QED BY <1>1, <2>7
<1> QED BY <1>2, <1>3

LEMMA ErasingIs ==
  ASSUME NEW list, Len(list) \in Nat, NEW entry
  PROVE  \A i \in 0 .. Len(list) :
           Erasing(list, entry)[i] = IF i = 0 THEN list ELSE EraseAt(Erasing(list, entry)[i - 1], i, entry)
<1> DEFINE f == Erasing(list, entry)
<1>1. f = CHOOSE g : IsErasing(g, list, entry, Len(list))
  BY DEF Erasing, IsErasing
<1>2. \E g : IsErasing(g, list, entry, Len(list))
  BY ErasingExists
<1> HIDE DEF f
<1>3. IsErasing(f, list, entry, Len(list))
  BY <1>1, <1>2
<1> QED BY <1>3 DEF IsErasing, f

(* The registrations of a list are known ones, numbered in order.           *)
Entries  == [to : Registrations, id : Nat]
InOrder(s) == \A i, j \in DOMAIN s : i < j => s[i].id < s[j].id
OutOf(s, list) == \A j \in DOMAIN s : \E k \in DOMAIN list : j <= k /\ s[j] = list[k]

LEMMA Without ==
  ASSUME NEW E, NEW s \in Seq(E), NEW i \in 1 .. Len(s)
  PROVE  /\ RemoveAt(s, i) \in Seq(E) /\ Len(RemoveAt(s, i)) = Len(s) - 1
         /\ \A j \in 1 .. Len(s) - 1 : RemoveAt(s, i)[j] = IF j < i THEN s[j] ELSE s[j + 1]
<1> DEFINE a == SubSeq(s, 1, i - 1)
           b == SubSeq(s, i + 1, Len(s))
<1>1. /\ Len(s) \in Nat /\ i \in Nat /\ 1 <= i /\ i <= Len(s)
      /\ RemoveAt(s, i) = a \o b
  BY DEF RemoveAt
<1>2. a \in Seq(E) /\ Len(a) = i - 1 /\ \A j \in 1 .. i - 1 : a[j] = s[j]
  <2>1. \A j \in 1 .. i - 1 : s[j] \in E
    BY <1>1, ElementOfSeq
  <2> QED BY <1>1, <2>1, SubSeqProperties
<1>3. b \in Seq(E) /\ Len(b) = Len(s) - i /\ \A j \in 1 .. Len(s) - i : b[j] = s[i + j]
  <2>1. \A j \in i + 1 .. Len(s) : s[j] \in E
    BY <1>1, ElementOfSeq
  <2>2. /\ b = [j \in 1 .. (IF i + 1 <= Len(s) THEN Len(s) - (i + 1) + 1 ELSE 0) |-> s[i + 1 + j - 1]]
    BY <1>1, SubSeqProperties
  <2> QED BY <1>1, <2>1, <2>2, SubSeqProperties
<1> HIDE DEF a, b
<1>4. a \o b \in Seq(E) /\ Len(a \o b) = Len(a) + Len(b)
  BY <1>2, <1>3, ConcatProperties
<1>5. \A j \in 1 .. Len(a) + Len(b) : (a \o b)[j] = IF j <= Len(a) THEN a[j] ELSE b[j - Len(a)]
  BY <1>2, <1>3, ConcatProperties
<1>6. ASSUME NEW j \in 1 .. Len(s) - 1
      PROVE  (a \o b)[j] = IF j < i THEN s[j] ELSE s[j + 1]
  <2>1. /\ j \in 1 .. Len(a) + Len(b)
        /\ j < i => j <= Len(a) /\ j \in 1 .. i - 1
        /\ ~(j < i) => /\ ~(j <= Len(a)) /\ j - Len(a) \in 1 .. Len(s) - i
                       /\ i + (j - Len(a)) = j + 1
    BY <1>1, <1>2, <1>3
  <2> QED BY <2>1, <1>2, <1>3, <1>5
<1> QED BY <1>1, <1>2, <1>3, <1>4, <1>6

Thinned(s, list) ==
  s \in Seq(Entries) /\ Len(s) <= Len(list) /\ InOrder(s) /\ OutOf(s, list)

(* Up to i there is no entry any more, and behind i none stands twice in a  *)
(* row.                                                                     *)
Clean(s, i, entry) ==
  /\ \A j \in DOMAIN s : j <= i => s[j].to # entry
  /\ \A j \in DOMAIN s : i < j /\ j + 1 \in DOMAIN s => ~(s[j].to = entry /\ s[j + 1].to = entry)

LEMMA EraseAtKeeps ==
  ASSUME NEW list \in Seq(Entries), NEW s, Thinned(s, list), NEW i \in Nat \ {0}, NEW entry
  PROVE  /\ Thinned(EraseAt(s, i, entry), list)
         /\ Clean(s, i - 1, entry) => Clean(EraseAt(s, i, entry), i, entry)
<1>1. /\ s \in Seq(Entries) /\ Len(s) \in Nat /\ DOMAIN s = 1 .. Len(s)
      /\ Len(list) \in Nat /\ DOMAIN list = 1 .. Len(list) /\ Len(s) <= Len(list)
      /\ InOrder(s) /\ OutOf(s, list)
  BY LenProperties DEF Thinned
<1>2. CASE ~(i <= Len(s) /\ s[i].to = entry)
  <2>1. EraseAt(s, i, entry) = s
    BY <1>2 DEF EraseAt
  <2>2. \A j \in DOMAIN s : (j <= i => j <= i - 1 \/ j = i) /\ (i < j => i - 1 < j)
    BY <1>1
  <2>3. Clean(s, i - 1, entry) => Clean(s, i, entry)
    BY <1>1, <1>2, <2>2 DEF Clean
  <2> QED BY <2>1, <2>3
<1>3. CASE i <= Len(s) /\ s[i].to = entry
  <2> DEFINE r == RemoveAt(s, i)
  <2>1. EraseAt(s, i, entry) = r
    BY <1>3 DEF EraseAt
  <2>2. i \in 1 .. Len(s)
    BY <1>1, <1>3
  <2>3. /\ r \in Seq(Entries) /\ Len(r) = Len(s) - 1
        /\ \A j \in 1 .. Len(s) - 1 : r[j] = IF j < i THEN s[j] ELSE s[j + 1]
    BY <1>1, <2>2, Without
  <2> HIDE DEF r
  <2>4. DOMAIN r = 1 .. Len(s) - 1
    BY <2>3, LenProperties
  <2>5. \A j \in 1 .. Len(s) - 1 : j \in 1 .. Len(s) /\ j + 1 \in 1 .. Len(s) /\ j < j + 1
    BY <1>1
  <2>6. InOrder(r)
    <3> SUFFICES ASSUME NEW j \in 1 .. Len(s) - 1, NEW k \in 1 .. Len(s) - 1, j < k
                 PROVE  r[j].id < r[k].id
      BY <2>4 DEF InOrder
    <3> DEFINE a == IF j < i THEN j ELSE j + 1
               b == IF k < i THEN k ELSE k + 1
    <3>1. a \in 1 .. Len(s) /\ b \in 1 .. Len(s) /\ a < b
      BY <1>1
    <3>2. r[j] = s[a] /\ r[k] = s[b]
      BY <2>3
    <3> QED BY <3>1, <3>2, <1>1 DEF InOrder
  <2>7. OutOf(r, list)
    <3> SUFFICES ASSUME NEW j \in 1 .. Len(s) - 1
                 PROVE  \E k \in DOMAIN list : j <= k /\ r[j] = list[k]
      BY <2>4 DEF OutOf
    <3> DEFINE a == IF j < i THEN j ELSE j + 1
    <3>1. a \in DOMAIN s /\ j <= a /\ r[j] = s[a] /\ j \in Nat /\ a \in Nat
      BY <1>1, <2>3
    <3> HIDE DEF a
    <3>2. PICK k \in DOMAIN list : a <= k /\ s[a] = list[k]
      BY <1>1, <3>1 DEF OutOf
    <3>3. k \in Nat
      BY <1>1
    <3> QED BY <3>1, <3>2, <3>3
  <2>8. Len(r) <= Len(list)
    BY <1>1, <2>3
  <2>9. ASSUME Clean(s, i - 1, entry) PROVE Clean(r, i, entry)
    <3>1. \A j \in 1 .. Len(s) : j <= i - 1 => s[j].to # entry
      BY <1>1, <2>9 DEF Clean
    <3>2. \A j \in 1 .. Len(s) : i - 1 < j /\ j + 1 \in 1 .. Len(s) => ~(s[j].to = entry /\ s[j + 1].to = entry)
      BY <1>1, <2>9 DEF Clean
    <3>3. ASSUME NEW j \in 1 .. Len(s) - 1, j <= i PROVE r[j].to # entry
      <4>1. CASE j < i
        <5>1. j \in 1 .. Len(s) /\ j <= i - 1
          BY <1>1, <4>1
        <5> QED BY <3>1, <4>1, <5>1, <2>3
      <4>2. CASE j = i
        <5>1. i \in 1 .. Len(s) /\ i + 1 \in 1 .. Len(s) /\ i - 1 < i /\ ~(j < i)
          BY <1>1, <3>3, <4>2
        <5>2. s[i + 1].to # entry
          BY <1>3, <3>2, <5>1
        <5> QED BY <4>2, <5>1, <5>2, <2>3
      <4> QED BY <3>3, <4>1, <4>2
    <3>4. ASSUME NEW j \in 1 .. Len(s) - 1, i < j, j + 1 \in 1 .. Len(s) - 1
          PROVE  ~(r[j].to = entry /\ r[j + 1].to = entry)
      <4>1. /\ j + 1 \in 1 .. Len(s) /\ (j + 1) + 1 \in 1 .. Len(s) /\ i - 1 < j + 1
            /\ ~(j < i) /\ ~(j + 1 < i)
        BY <1>1, <3>4
      <4>2. r[j] = s[j + 1] /\ r[j + 1] = s[(j + 1) + 1]
        BY <4>1, <3>4, <2>3
      <4> QED BY <3>2, <4>1, <4>2
    <3> QED BY <2>4, <3>3, <3>4 DEF Clean
  <2> QED BY <2>1, <2>3, <2>6, <2>7, <2>8, <2>9 DEF Thinned
<1> QED BY <1>2, <1>3

(* What removeEvent leaves is taken from the list, and there is none of the *)
(* registration among it if the list never has it twice in a row.           *)
LEMMA ErasedKeeps ==
  ASSUME NEW list \in Seq(Entries), InOrder(list), NEW entry
  PROVE  /\ Thinned(Erased(list, entry), list)
         /\ Clean(list, 0, entry) => \A j \in DOMAIN Erased(list, entry) : Erased(list, entry)[j].to # entry
<1> DEFINE after == Erasing(list, entry)
           KeptAt(i) == /\ Thinned(after[i], list)
                        /\ Clean(list, 0, entry) => Clean(after[i], i, entry)
           T == {m \in 0 .. Len(list) : ~KeptAt(m)}
<1>1. Len(list) \in Nat /\ DOMAIN list = 1 .. Len(list)
  BY LenProperties
<1>2. \A i \in 0 .. Len(list) : after[i] = IF i = 0 THEN list ELSE EraseAt(after[i - 1], i, entry)
  BY <1>1, ErasingIs
<1> HIDE DEF after
<1>3. KeptAt(0)
  <2>1. after[0] = list
    BY <1>1, <1>2
  <2>2. OutOf(list, list)
    BY <1>1 DEF OutOf
  <2> QED BY <2>1, <2>2, <1>1 DEF Thinned
<1>4. T = {}
  <2> SUFFICES ASSUME T # {} PROVE FALSE
    OBVIOUS
  <2>1. T \subseteq Nat
    BY <1>1
  <2>2. PICK m \in T : \A y \in T : m <= y
    BY <2>1, LeastNatural
  <2>3. m # 0 /\ m \in 0 .. Len(list) /\ ~KeptAt(m)
    BY <1>3, <2>2
  <2>4. m - 1 \in 0 .. Len(list) /\ m \in Nat \ {0} /\ ~(m <= m - 1)
    BY <1>1, <2>3
  <2>5. KeptAt(m - 1)
    BY <2>2, <2>4
  <2>6. after[m] = EraseAt(after[m - 1], m, entry)
    BY <1>2, <2>3
  <2>7. KeptAt(m)
    BY <2>4, <2>5, <2>6, EraseAtKeeps
  <2> QED BY <2>3, <2>7
<1>5. KeptAt(Len(list))
  BY <1>1, <1>4
<1>6. Erased(list, entry) = after[Len(list)]
  BY DEF Erased, after
<1> DEFINE e == Erased(list, entry)
<1> HIDE DEF e
<1>7. Thinned(e, list) /\ (Clean(list, 0, entry) => Clean(e, Len(list), entry))
  BY <1>5, <1>6 DEF e
<1>8. \A j \in DOMAIN e : j <= Len(list)
  BY <1>1, <1>7, LenProperties DEF Thinned
<1> QED BY <1>7, <1>8 DEF Clean, e

ListKnown ==
  cbEventList \in Seq(Entries) /\ Len(cbEventList) <= adds /\ InOrder(cbEventList)

CalledInOrder ==
  /\ called \in Seq(1 .. adds)
  /\ \A i, j \in DOMAIN called : i < j => called[i] < called[j]

(* While an event is told, what was called lies before the place it has got *)
(* to, and all that was there before it for this event was called.          *)
ToldInTurn ==
  dispatch = Done \/
  /\ dispatch \in [event : NetEvents, i : Nat]
  /\ \A c \in DOMAIN called : \A j \in DOMAIN cbEventList :
       dispatch.i <= j => called[c] < cbEventList[j].id
  /\ ~removing => \A j \in DOMAIN cbEventList :
       j < dispatch.i /\ Concerns(cbEventList[j].to, dispatch.event) => cbEventList[j].id \in Range(called)

EventsIInv == EventsTypeOK /\ RemovedIsGone /\ ListKnown /\ CalledInOrder /\ ToldInTurn

LEMMA EventsInitial == EventsInit => EventsIInv
<1> SUFFICES ASSUME EventsInit PROVE EventsIInv
  OBVIOUS
<1>1. /\ cbEventList = <<>> /\ called = <<>> /\ dispatch = Done /\ adds = 0
      /\ removing = FALSE /\ unregistered = {} /\ dispatches = 0
      /\ DOMAIN cbEventList = {} /\ Len(cbEventList) = 0 /\ DOMAIN called = {}
      /\ cbEventList \in Seq(Entries) /\ called \in Seq(1 .. adds)
  BY EmptySeq DEF EventsInit
<1>2. EventsTypeOK
  <2>1. 0 \in 0 .. MaxAdds /\ 0 \in 0 .. MaxDispatches
    BY EventsAssumption
  <2>2. adds \in 0 .. MaxAdds /\ dispatches \in 0 .. MaxDispatches
    BY <1>1, <2>1
  <2>3. removing \in BOOLEAN /\ unregistered \subseteq Registrations
    BY <1>1
  <2>4. \A i \in DOMAIN cbEventList : cbEventList[i].to \in Registrations /\ cbEventList[i].id \in 1 .. adds
    BY <1>1
  <2> QED BY <1>1, <2>2, <2>3, <2>4 DEF EventsTypeOK
<1>3. RemovedIsGone /\ ListKnown /\ CalledInOrder /\ ToldInTurn
  BY <1>1 DEF RemovedIsGone, ListKnown, InOrder, CalledInOrder, ToldInTurn
<1> QED BY <1>2, <1>3 DEF EventsIInv

LEMMA EventsFacts ==
  ASSUME EventsIInv
  PROVE  /\ adds \in Nat /\ adds <= MaxAdds /\ MaxAdds \in Nat
         /\ Len(cbEventList) \in Nat /\ DOMAIN cbEventList = 1 .. Len(cbEventList)
         /\ Len(cbEventList) <= adds /\ cbEventList \in Seq(Entries)
         /\ \A j \in 1 .. Len(cbEventList) : /\ cbEventList[j] \in Entries
                                             /\ cbEventList[j].to \in Registrations
                                             /\ cbEventList[j].id \in 1 .. adds
         /\ Len(called) \in Nat /\ DOMAIN called = 1 .. Len(called) /\ called \in Seq(1 .. adds)
         /\ \A c \in 1 .. Len(called) : called[c] \in 1 .. adds
BY EventsAssumption, LenProperties, ElementOfSeq DEF EventsIInv, EventsTypeOK, ListKnown, CalledInOrder

(* A registration goes to the end, whatever event is being told.            *)
LEMMA OnEventKeeps ==
  ASSUME EventsIInv, NEW entry \in Registrations, onEvent(entry)
  PROVE  /\ ListKnown' /\ RemovedIsGone' /\ adds' = adds + 1 /\ adds' \in 0 .. MaxAdds
         /\ Len(cbEventList') = Len(cbEventList) + 1
         /\ \A j \in 1 .. Len(cbEventList') :
              cbEventList'[j] = IF j <= Len(cbEventList) THEN cbEventList[j] ELSE [to |-> entry, id |-> adds + 1]
         /\ \A j \in DOMAIN cbEventList' : cbEventList'[j].to \in Registrations /\ cbEventList'[j].id \in 1 .. adds'
         /\ unregistered' \subseteq Registrations /\ removing' = removing
<1> DEFINE L == Len(cbEventList)
           new == [to |-> entry, id |-> adds + 1]
<1>1. /\ adds \in Nat /\ L \in Nat /\ L <= adds /\ cbEventList \in Seq(Entries) /\ DOMAIN cbEventList = 1 .. L
      /\ \A j \in 1 .. L : cbEventList[j].to \in Registrations /\ cbEventList[j].id \in 1 .. adds
      /\ adds < MaxAdds /\ MaxAdds \in Nat /\ adds' = adds + 1
      /\ cbEventList' = Append(cbEventList, new)
      /\ unregistered' = unregistered \ {entry} /\ removing' = removing
  BY EventsFacts DEF onEvent
<1>2. new \in Entries /\ new.to = entry /\ new.id = adds + 1
  BY <1>1 DEF Entries
<1> HIDE DEF new
<1>3. /\ cbEventList' \in Seq(Entries) /\ Len(cbEventList') = L + 1 /\ DOMAIN cbEventList' = 1 .. L + 1
      /\ \A j \in 1 .. L : cbEventList'[j] = cbEventList[j]
      /\ cbEventList'[L + 1] = new
  BY <1>1, <1>2, AppendProperties, LenProperties
<1> HIDE DEF L
<1>4. \A j \in 1 .. L + 1 : j \in 1 .. L \/ j = L + 1
  BY <1>1
<1>5. \A j \in 1 .. L + 1 : cbEventList'[j].to \in Registrations /\ cbEventList'[j].id \in 1 .. adds + 1
  BY <1>1, <1>2, <1>3, <1>4
<1>6. InOrder(cbEventList')
  <2> SUFFICES ASSUME NEW i \in 1 .. L + 1, NEW j \in 1 .. L + 1, i < j
               PROVE  cbEventList'[i].id < cbEventList'[j].id
    BY <1>3 DEF InOrder
  <2>1. i \in 1 .. L /\ i < j
    BY <1>1
  <2>2. CASE j \in 1 .. L
    BY <1>1, <1>3, <2>1, <2>2 DEF EventsIInv, ListKnown, InOrder
  <2>3. CASE j = L + 1
    BY <1>1, <1>2, <1>3, <2>1, <2>3
  <2> QED BY <1>4, <2>2, <2>3
<1>7. ListKnown'
  BY <1>1, <1>3, <1>6 DEF ListKnown
<1>8. RemovedIsGone'
  BY <1>1, <1>2, <1>3, <1>4 DEF EventsIInv, RemovedIsGone
<1>9. \A j \in 1 .. Len(cbEventList') : cbEventList'[j] = IF j <= L THEN cbEventList[j] ELSE new
  BY <1>1, <1>3, <1>4
<1>10. unregistered' \subseteq Registrations
  BY <1>1 DEF EventsIInv, EventsTypeOK
<1>11. adds' \in 0 .. MaxAdds
  BY <1>1
<1> QED BY <1>1, <1>3, <1>5, <1>7, <1>8, <1>9, <1>10, <1>11 DEF L, new

(* What a removal leaves stands where it stood or before.                   *)
LEMMA RemoveEventKeeps ==
  ASSUME EventsIInv, NEW entry \in Registrations, removeEvent(entry)
  PROVE  /\ ListKnown' /\ RemovedIsGone' /\ adds' = adds
         /\ OutOf(cbEventList', cbEventList)
         /\ \A j \in DOMAIN cbEventList' : cbEventList'[j].to \in Registrations /\ cbEventList'[j].id \in 1 .. adds
         /\ unregistered' \subseteq Registrations /\ removing' = TRUE
<1>1. /\ adds \in Nat /\ Len(cbEventList) \in Nat /\ Len(cbEventList) <= adds
      /\ cbEventList \in Seq(Entries) /\ DOMAIN cbEventList = 1 .. Len(cbEventList)
      /\ \A j \in 1 .. Len(cbEventList) : cbEventList[j].to \in Registrations /\ cbEventList[j].id \in 1 .. adds
      /\ InOrder(cbEventList)
  BY EventsFacts DEF EventsIInv, ListKnown
<1>2. /\ \E i \in DOMAIN cbEventList : cbEventList[i].to = entry
      /\ cbEventList' = Erased(cbEventList, entry) /\ removing' = TRUE /\ adds' = adds
      /\ unregistered' = IF Repeated(entry) THEN unregistered ELSE unregistered \cup {entry}
  BY DEF removeEvent
<1>3. Thinned(cbEventList', cbEventList)
  BY <1>1, <1>2, ErasedKeeps
<1>4. Clean(cbEventList, 0, entry) => \A j \in DOMAIN cbEventList' : cbEventList'[j].to # entry
  BY <1>1, <1>2, ErasedKeeps
<1>5. \A j \in DOMAIN cbEventList' : \E k \in 1 .. Len(cbEventList) : cbEventList'[j] = cbEventList[k]
  BY <1>1, <1>3 DEF Thinned, OutOf
<1>6. \A j \in DOMAIN cbEventList' : cbEventList'[j].to \in Registrations /\ cbEventList'[j].id \in 1 .. adds
  BY <1>1, <1>5
<1>7. cbEventList' \in Seq(Entries) /\ Len(cbEventList') \in Nat /\ Len(cbEventList') <= Len(cbEventList)
  BY <1>3, LenProperties DEF Thinned
<1>8. ListKnown'
  <2>1. Len(cbEventList') <= adds
    BY <1>1, <1>7
  <2> QED BY <1>2, <1>3, <1>7, <2>1 DEF Thinned, ListKnown
<1>9. ~Repeated(entry) => Clean(cbEventList, 0, entry)
  <2> SUFFICES ASSUME ~Repeated(entry), NEW j \in 1 .. Len(cbEventList), j + 1 \in 1 .. Len(cbEventList)
               PROVE  ~(cbEventList[j].to = entry /\ cbEventList[j + 1].to = entry)
    <3>1. \A j \in 1 .. Len(cbEventList) : ~(j <= 0)
      BY <1>1
    <3> QED BY <1>1, <3>1 DEF Clean
  <2>1. cbEventList # <<>>
    BY <1>1, EmptySeq
  <2>2. Tail(cbEventList) \in Seq(Entries) /\ Len(Tail(cbEventList)) = Len(cbEventList) - 1
    BY <1>1, <2>1, HeadTailProperties
  <2>3. j \in DOMAIN Tail(cbEventList)
    <3>1. j \in 1 .. Len(cbEventList) - 1
      BY <1>1
    <3> QED BY <2>2, <3>1, LenProperties
  <2> QED BY <2>3 DEF Repeated
<1>10. RemovedIsGone'
  <2>1. \A j \in DOMAIN cbEventList' : cbEventList'[j].to \notin unregistered
    BY <1>1, <1>5 DEF EventsIInv, RemovedIsGone
  <2> QED BY <1>2, <1>4, <1>9, <2>1 DEF RemovedIsGone
<1>11. unregistered' \subseteq Registrations
  BY <1>2 DEF EventsIInv, EventsTypeOK
<1> QED BY <1>2, <1>3, <1>6, <1>8, <1>10, <1>11 DEF Thinned

LEMMA SketchRegistersKeeps ==
  ASSUME EventsIInv, SketchRegisters
  PROVE  EventsIInv'
<1>1. PICK entry \in Registrations : onEvent(entry) \/ removeEvent(entry)
  BY DEF SketchRegisters
<1>2. dispatch = Done /\ dispatch' = dispatch /\ called' = called /\ dispatches' = dispatches
  BY DEF SketchRegisters
<1>3. /\ ListKnown' /\ RemovedIsGone' /\ adds' \in 0 .. MaxAdds /\ adds <= adds'
      /\ \A j \in DOMAIN cbEventList' : cbEventList'[j].to \in Registrations /\ cbEventList'[j].id \in 1 .. adds'
      /\ unregistered' \subseteq Registrations /\ removing' \in BOOLEAN
  <2>1. adds \in 0 .. MaxAdds /\ removing \in BOOLEAN /\ adds <= adds /\ adds <= adds + 1
    BY EventsFacts DEF EventsIInv, EventsTypeOK
  <2>2. CASE onEvent(entry)
    BY <2>1, <2>2, OnEventKeeps
  <2>3. CASE removeEvent(entry)
    BY <2>1, <2>3, RemoveEventKeeps
  <2> QED BY <1>1, <2>2, <2>3
<1>4. EventsTypeOK'
  BY <1>2, <1>3 DEF EventsIInv, EventsTypeOK
<1>5. CalledInOrder'
  <2>1. 1 .. adds \subseteq 1 .. adds'
    BY <1>3, EventsFacts
  <2>2. called \in Seq(1 .. adds')
    BY <2>1, EventsFacts, SeqMonotonic
  <2> QED BY <1>2, <2>2 DEF EventsIInv, CalledInOrder
<1>6. ToldInTurn'
  BY <1>2 DEF ToldInTurn
<1> QED BY <1>3, <1>4, <1>5, <1>6 DEF EventsIInv

LEMMA EventArrivesKeeps ==
  ASSUME EventsIInv, EventArrives
  PROVE  EventsIInv'
<1>1. PICK event \in NetEvents : dispatch' = [event |-> event, i |-> 1]
  BY DEF EventArrives
<1>2. /\ called' = <<>> /\ removing' = FALSE /\ dispatches' = dispatches + 1 /\ dispatches < MaxDispatches
      /\ UNCHANGED <<cbEventList, unregistered, adds>>
      /\ DOMAIN called' = {} /\ called' \in Seq(1 .. adds)
  BY EmptySeq DEF EventArrives
<1>3. dispatches' \in 0 .. MaxDispatches /\ 1 \in 1 .. adds + 1
  BY <1>2, EventsAssumption, EventsFacts DEF EventsIInv, EventsTypeOK
<1>4. /\ dispatch' \in [event : NetEvents, i : Nat] /\ dispatch'.i = 1 /\ dispatch'.event = event
  BY <1>1
<1>5. EventsTypeOK'
  BY <1>2, <1>3, <1>4 DEF EventsIInv, EventsTypeOK
<1>6. ListKnown' /\ CalledInOrder' /\ RemovedIsGone'
  BY <1>2 DEF EventsIInv, ListKnown, InOrder, CalledInOrder, RemovedIsGone
<1>7. \A j \in DOMAIN cbEventList : ~(j < 1)
  BY EventsFacts
<1>8. ToldInTurn'
  BY <1>2, <1>4, <1>7 DEF ToldInTurn
<1> QED BY <1>5, <1>6, <1>8 DEF EventsIInv

LEMMA ToldAllKeeps ==
  ASSUME EventsIInv, ToldAll
  PROVE  EventsIInv'
<1>1. dispatch' = Done /\ UNCHANGED <<cbEventList, called, removing, unregistered, adds, dispatches>>
  BY DEF ToldAll
<1>2. EventsTypeOK' /\ ListKnown' /\ CalledInOrder' /\ RemovedIsGone' /\ ToldInTurn'
  BY <1>1 DEF EventsIInv, EventsTypeOK, ListKnown, InOrder, CalledInOrder, RemovedIsGone, ToldInTurn
<1> QED BY <1>2 DEF EventsIInv

(* A step of the dispatch goes on by one.  The registration there is called *)
(* if the event concerns it, and what it changes lies behind the place.     *)
LEMMA TellNextKeeps ==
  ASSUME EventsIInv, TellNext
  PROVE  EventsIInv'
<1> DEFINE L == Len(cbEventList)
           p == dispatch.i
           here == cbEventList[p]
<1>1. /\ L \in Nat /\ L <= adds /\ adds \in Nat /\ DOMAIN cbEventList = 1 .. L
      /\ \A j \in 1 .. L : cbEventList[j].to \in Registrations /\ cbEventList[j].id \in 1 .. adds
      /\ called \in Seq(1 .. adds) /\ DOMAIN called = 1 .. Len(called) /\ Len(called) \in Nat
      /\ \A c \in 1 .. Len(called) : called[c] \in 1 .. adds
  BY EventsFacts
<1>2. /\ dispatch # Done /\ p <= L /\ dispatch' = [dispatch EXCEPT !.i = p + 1] /\ dispatches' = dispatches
  BY DEF TellNext
<1>3. /\ dispatch \in [event : NetEvents, i : Nat] /\ p \in 1 .. adds + 1
      /\ \A c \in 1 .. Len(called) : \A j \in 1 .. L : p <= j => called[c] < cbEventList[j].id
      /\ ~removing => \A j \in 1 .. L :
           j < p /\ Concerns(cbEventList[j].to, dispatch.event) => cbEventList[j].id \in Range(called)
  BY <1>1, <1>2 DEF EventsIInv, EventsTypeOK, ToldInTurn
<1>4. /\ dispatch' \in [event : NetEvents, i : Nat] /\ dispatch'.i = p + 1 /\ dispatch'.event = dispatch.event
      /\ p \in Nat /\ p \in 1 .. L /\ p + 1 \in 1 .. adds + 1
  BY <1>1, <1>2, <1>3
<1> HIDE DEF L, p
<1>5. here.id \in 1 .. adds /\ \A j \in 1 .. L : p < j => here.id < cbEventList[j].id
  BY <1>1, <1>4 DEF EventsIInv, ListKnown, InOrder
<1> HIDE DEF here
<1>6. (* what is called now lies behind p in the list as it was *)
      /\ called' \in Seq(1 .. adds) /\ DOMAIN called' = 1 .. Len(called') /\ Len(called') \in Nat
      /\ \A i, j \in DOMAIN called' : i < j => called'[i] < called'[j]
      /\ \A c \in DOMAIN called' : called'[c] \in 1 .. adds /\ \A j \in 1 .. L : p < j => called'[c] < cbEventList[j].id
      /\ Range(called) \subseteq Range(called')
      /\ Concerns(here.to, dispatch.event) => here.id \in Range(called')
  <2>1. CASE Concerns(here.to, dispatch.event)
    <3>1. called' = Append(called, here.id)
      BY <2>1 DEF TellNext, here, p
    <3>2. /\ called' \in Seq(1 .. adds) /\ Len(called') = Len(called) + 1 /\ DOMAIN called' = 1 .. Len(called) + 1
          /\ \A c \in 1 .. Len(called) : called'[c] = called[c]
          /\ called'[Len(called) + 1] = here.id
      BY <1>1, <1>5, <3>1, AppendProperties, LenProperties
    <3>3. \A c \in 1 .. Len(called) + 1 : c \in 1 .. Len(called) \/ c = Len(called) + 1
      BY <1>1
    <3>4. \A c \in 1 .. Len(called) : called[c] < here.id
      <4>1. p <= p
        BY <1>4
      <4> QED BY <1>3, <1>4, <4>1 DEF here
    <3>5. \A i, j \in DOMAIN called' : i < j => called'[i] < called'[j]
      <4> SUFFICES ASSUME NEW i \in 1 .. Len(called) + 1, NEW j \in 1 .. Len(called) + 1, i < j
                   PROVE  called'[i] < called'[j]
        BY <3>2
      <4>1. i \in 1 .. Len(called)
        BY <1>1
      <4>2. CASE j \in 1 .. Len(called)
        BY <1>1, <3>2, <4>1, <4>2 DEF EventsIInv, CalledInOrder
      <4>3. CASE j = Len(called) + 1
        BY <3>2, <3>4, <4>1, <4>3
      <4> QED BY <3>3, <4>2, <4>3
    <3>6. \A c \in 1 .. Len(called) : \A j \in 1 .. L : p < j => called[c] < cbEventList[j].id
      <4>1. \A j \in 1 .. L : p < j => p <= j
        BY <1>1, <1>4
      <4> QED BY <1>3, <4>1
    <3>7. \A c \in DOMAIN called' :
             called'[c] \in 1 .. adds /\ \A j \in 1 .. L : p < j => called'[c] < cbEventList[j].id
      BY <1>1, <1>5, <3>2, <3>3, <3>6
    <3>8. Range(called) \subseteq Range(called') /\ here.id \in Range(called')
      <4>1. Len(called) + 1 \in DOMAIN called' /\ \A c \in 1 .. Len(called) : c \in DOMAIN called'
        BY <1>1, <3>2
      <4> QED BY <1>1, <3>2, <4>1 DEF Range
    <3>9. Len(called') \in Nat /\ DOMAIN called' = 1 .. Len(called')
      BY <1>1, <3>2
    <3> QED BY <3>2, <3>5, <3>7, <3>8, <3>9
  <2>2. CASE ~Concerns(here.to, dispatch.event)
    <3>1. called' = called
      BY <2>2 DEF TellNext, here, p
    <3>2. \A j \in 1 .. L : p < j => p <= j
      BY <1>1, <1>4
    <3>3. \A i, j \in DOMAIN called : i < j => called[i] < called[j]
      BY DEF EventsIInv, CalledInOrder
    <3> QED BY <1>1, <1>3, <2>2, <3>1, <3>2, <3>3
  <2> QED BY <2>1, <2>2
<1>7. ~removing => \A j \in 1 .. L :
        j < p + 1 /\ Concerns(cbEventList[j].to, dispatch.event) => cbEventList[j].id \in Range(called')
  <2> SUFFICES ASSUME ~removing, NEW j \in 1 .. L, j < p + 1, Concerns(cbEventList[j].to, dispatch.event)
               PROVE  cbEventList[j].id \in Range(called')
    OBVIOUS
  <2>1. j < p \/ j = p
    BY <1>1, <1>4
  <2>2. CASE j < p
    BY <1>3, <1>6, <2>2
  <2>3. CASE j = p
    BY <1>6, <2>3 DEF here
  <2> QED BY <2>1, <2>2, <2>3
<1>8. \/ \E entry \in Registrations : onEvent(entry)
      \/ \E entry \in Registrations : removeEvent(entry)
      \/ UNCHANGED <<cbEventList, removing, unregistered, adds>>
  BY DEF TellNext, ChangeList
<1>9. /\ ListKnown' /\ RemovedIsGone' /\ adds' \in 0 .. MaxAdds /\ adds <= adds'
      /\ \A j \in DOMAIN cbEventList' : cbEventList'[j].to \in Registrations /\ cbEventList'[j].id \in 1 .. adds'
      /\ unregistered' \subseteq Registrations /\ removing' \in BOOLEAN
      /\ \A c \in DOMAIN called' : \A j \in DOMAIN cbEventList' :
           p + 1 <= j => called'[c] < cbEventList'[j].id
      /\ ~removing' => \A j \in DOMAIN cbEventList' :
           j < p + 1 /\ Concerns(cbEventList'[j].to, dispatch.event) => cbEventList'[j].id \in Range(called')
  <2>1. adds \in 0 .. MaxAdds /\ removing \in BOOLEAN /\ unregistered \subseteq Registrations /\ adds <= adds
    BY <1>1 DEF EventsIInv, EventsTypeOK
  <2>2. CASE \E entry \in Registrations : onEvent(entry)
    <3>1. PICK entry \in Registrations : onEvent(entry)
      BY <2>2
    <3>2. /\ ListKnown' /\ RemovedIsGone' /\ adds' = adds + 1 /\ adds' \in 0 .. MaxAdds
          /\ Len(cbEventList') = L + 1
          /\ \A j \in 1 .. L + 1 :
               cbEventList'[j] = IF j <= L THEN cbEventList[j] ELSE [to |-> entry, id |-> adds + 1]
          /\ \A j \in DOMAIN cbEventList' : cbEventList'[j].to \in Registrations /\ cbEventList'[j].id \in 1 .. adds'
          /\ unregistered' \subseteq Registrations /\ removing' = removing
      BY <3>1, OnEventKeeps DEF L
    <3>3. DOMAIN cbEventList' = 1 .. L + 1
      BY <3>2, LenProperties DEF ListKnown
    <3>4. ASSUME NEW j \in 1 .. L + 1, j \notin 1 .. L
          PROVE  cbEventList'[j].id = adds + 1 /\ ~(j < p + 1)
      <4>1. ~(j <= L) /\ ~(j < p + 1)
        BY <1>1, <1>4, <3>4
      <4> QED BY <3>2, <4>1
    <3>5. \A j \in 1 .. L : cbEventList'[j] = cbEventList[j]
      <4>1. \A j \in 1 .. L : j \in 1 .. L + 1 /\ j <= L
        BY <1>1
      <4> QED BY <3>2, <4>1
    <3>6. ASSUME NEW c \in DOMAIN called', NEW j \in 1 .. L + 1, p + 1 <= j
          PROVE  called'[c] < cbEventList'[j].id
      <4>1. CASE j \in 1 .. L
        <5>1. p < j
          BY <1>1, <1>4, <3>6, <4>1
        <5> QED BY <1>6, <3>5, <4>1, <5>1
      <4>2. CASE j \notin 1 .. L
        <5>1. called'[c] \in 1 .. adds
          BY <1>6
        <5>2. called'[c] < adds + 1
          BY <1>1, <5>1
        <5> QED BY <3>4, <4>2, <5>2
      <4> QED BY <4>1, <4>2
    <3>7. ASSUME ~removing', NEW j \in 1 .. L + 1, j < p + 1, Concerns(cbEventList'[j].to, dispatch.event)
          PROVE  cbEventList'[j].id \in Range(called')
      <4>1. j \in 1 .. L
        BY <3>4, <3>7
      <4> QED BY <1>7, <3>2, <3>5, <3>7, <4>1
    <3>8. adds <= adds + 1
      BY <1>1
    <3> QED BY <2>1, <3>2, <3>3, <3>6, <3>7, <3>8
  <2>3. CASE \E entry \in Registrations : removeEvent(entry)
    <3>1. PICK entry \in Registrations : removeEvent(entry)
      BY <2>3
    <3>2. /\ ListKnown' /\ RemovedIsGone' /\ adds' = adds /\ OutOf(cbEventList', cbEventList)
          /\ \A j \in DOMAIN cbEventList' : cbEventList'[j].to \in Registrations /\ cbEventList'[j].id \in 1 .. adds
          /\ unregistered' \subseteq Registrations /\ removing' = TRUE
      BY <3>1, RemoveEventKeeps
    <3>3. ASSUME NEW c \in DOMAIN called', NEW j \in DOMAIN cbEventList', p + 1 <= j
          PROVE  called'[c] < cbEventList'[j].id
      <4>1. PICK k \in 1 .. L : j <= k /\ cbEventList'[j] = cbEventList[k]
        BY <1>1, <3>2 DEF OutOf
      <4>2. j \in Nat
        BY <3>2, LenProperties DEF ListKnown
      <4>3. p < k
        BY <1>1, <1>4, <3>3, <4>1, <4>2
      <4> QED BY <1>6, <4>1, <4>3
    <3> QED BY <2>1, <3>2, <3>3
  <2>4. CASE UNCHANGED <<cbEventList, removing, unregistered, adds>>
    <3>1. \A j \in 1 .. L : p + 1 <= j => p < j
      BY <1>1, <1>4
    <3>2. ListKnown' /\ RemovedIsGone'
      BY <2>4 DEF EventsIInv, ListKnown, InOrder, RemovedIsGone
    <3>3. /\ \A c \in DOMAIN called' : \A j \in 1 .. L : p + 1 <= j => called'[c] < cbEventList[j].id
      BY <1>6, <3>1
    <3> QED BY <1>1, <1>7, <2>1, <2>4, <3>2, <3>3
  <2> QED BY <1>8, <2>2, <2>3, <2>4
<1>10. EventsTypeOK'
  <2>1. adds \in Nat /\ adds' \in Nat /\ 1 .. adds + 1 \subseteq 1 .. adds' + 1
    <3>1. adds' \in Nat
      BY <1>9, EventsAssumption
    <3> QED BY <1>1, <1>9, <3>1
  <2>2. dispatch'.event \in NetEvents /\ dispatch'.i \in 1 .. adds' + 1
    BY <1>4, <2>1
  <2>3. dispatches' \in 0 .. MaxDispatches
    BY <1>2 DEF EventsIInv, EventsTypeOK
  <2> QED BY <1>9, <2>2, <2>3 DEF EventsTypeOK
<1>11. CalledInOrder'
  <2>1. 1 .. adds \subseteq 1 .. adds'
    <3>1. adds' \in Nat
      BY <1>9, EventsAssumption
    <3> QED BY <1>1, <1>9, <3>1
  <2>2. called' \in Seq(1 .. adds')
    BY <1>6, <2>1, SeqMonotonic
  <2> QED BY <1>6, <2>2 DEF CalledInOrder
<1>12. ToldInTurn'
  BY <1>4, <1>9 DEF ToldInTurn
<1> QED BY <1>9, <1>10, <1>11, <1>12 DEF EventsIInv

LEMMA EventsKept ==
  ASSUME EventsIInv, [EventsNext]_eventVars
  PROVE  EventsIInv'
<1>1. CASE UNCHANGED eventVars
  BY <1>1 DEF eventVars, EventsIInv, EventsTypeOK, ListKnown, InOrder, CalledInOrder, RemovedIsGone, ToldInTurn
<1> QED BY <1>1, SketchRegistersKeeps, EventArrivesKeeps, TellNextKeeps, ToldAllKeeps DEF EventsNext

LEMMA EventsImplied == EventsIInv => EventsInv
<1> SUFFICES ASSUME EventsIInv PROVE EventsInv
  OBVIOUS
<1>1. IsInjective(called)
  <2> SUFFICES ASSUME NEW i \in DOMAIN called, NEW j \in DOMAIN called, called[i] = called[j]
               PROVE  i = j
    BY DEF IsInjective
  <2>1. i \in Nat /\ j \in Nat /\ called[i] \in Nat /\ called[j] \in Nat
    BY EventsFacts
  <2>2. (i < j => called[i] < called[j]) /\ (j < i => called[j] < called[i])
    BY DEF EventsIInv, CalledInOrder
  <2> QED BY <2>1, <2>2
<1>2. CalledAsRegistered
  <2> SUFFICES ASSUME dispatch # Done, dispatch.i > Len(cbEventList), ~removing, NEW j \in DOMAIN cbEventList,
                      Concerns(cbEventList[j].to, dispatch.event)
               PROVE  cbEventList[j].id \in Range(called)
    BY <1>1 DEF CalledAsRegistered
  <2>1. j < dispatch.i
    <3>1. dispatch.i \in Nat
      BY DEF EventsIInv, ToldInTurn
    <3> QED BY <3>1, EventsFacts
  <2> QED BY <2>1 DEF EventsIInv, ToldInTurn
<1> QED BY <1>2 DEF EventsIInv, EventsInv

(***************************************************************************)
(* Ethernet (ETHClass).                                                     *)
(***************************************************************************)
(* What calls have agreed on.                                               *)
AgreedKnown ==
  /\ agreed \in [wiring : [pins : Pins \cup {0}, chip : Chips \cup {"none"}],
                 ip : EthAddresses \cup {NotKnown}, dns : [{1, 2} -> EthAddresses]]

EthIInv == EthInv /\ AgreedKnown

LEMMA EthInitial == EthInit => EthIInv
<1> SUFFICES ASSUME EthInit PROVE EthIInv
  OBVIOUS
<1> USE EthAssumption
<1>1. EthTypeOK
  <2>1. {initialized, started, staticIP, ethDhcp, enabled, powered} \subseteq BOOLEAN
    BY DEF EthInit
  <2>2. ethIp \in EthAddresses /\ ethDns \in [{1, 2} -> EthAddresses]
    BY DEF EthInit
  <2>3. ethCalls \in 0 .. MaxEthCalls /\ ethFaults \in 0 .. MaxEthFaults
    BY DEF EthInit
  <2> QED BY <2>1, <2>2, <2>3 DEF EthTypeOK
<1>2. AgreedKnown
  BY DEF EthInit, AgreedKnown, NoWiring
<1>3. WiringKept /\ EthAddressKept /\ StartedRuns
  BY DEF EthInit, WiringKept, EthAddressKept, StartedRuns
<1> QED BY <1>1, <1>2, <1>3 DEF EthIInv, EthInv

LEMMA CallEthKeeps ==
  ASSUME EthTypeOK, NEW fault, CallEth(fault)
  PROVE  ethCalls' \in 0 .. MaxEthCalls /\ ethFaults' \in 0 .. MaxEthFaults
BY EthAssumption DEF EthTypeOK, CallEth

LEMMA BeginEthKeeps ==
  ASSUME EthIInv, NEW requested \in Pins, NEW chip \in Chips \cup {"other"},
         NEW fault \in {"none", "init", "enable"}, beginEth(requested, chip, fault)
  PROVE  EthIInv'
<1>1. /\ EthTypeOK /\ WiringKept /\ EthAddressKept /\ StartedRuns /\ AgreedKnown
      /\ UNCHANGED <<staticIP, ethIp, ethDhcp, ethDns>>
  BY DEF EthIInv, EthInv, beginEth
<1>2. ethCalls' \in 0 .. MaxEthCalls /\ ethFaults' \in 0 .. MaxEthFaults
  BY <1>1, CallEthKeeps DEF beginEth
<1>3. CASE initialized \/ (~(chip \in Chips /\ fault # "init"))
  <2>1. /\ initialized' = initialized /\ UNCHANGED <<driverWiring, powered, agreed>>
        /\ started' \in BOOLEAN /\ enabled' \in BOOLEAN
        /\ (initialized => pins' = pins)
        /\ started' => (started \/ (initialized /\ enabled'))
        /\ enabled => enabled'
    BY <1>3, <1>1 DEF beginEth, PinsOf, EthTypeOK
  <2>2. EthTypeOK'
    BY <1>1, <1>2, <2>1 DEF EthTypeOK
  <2>3. WiringKept' /\ EthAddressKept' /\ StartedRuns' /\ AgreedKnown'
    BY <1>1, <2>1 DEF WiringKept, EthAddressKept, StartedRuns, AgreedKnown
  <2> QED BY <2>2, <2>3 DEF EthIInv, EthInv
<1>4. CASE ~initialized /\ chip \in Chips /\ fault # "init"
  <2>1. /\ initialized' = TRUE /\ driverWiring' = [pins |-> requested, chip |-> chip]
        /\ powered' = (requested # 0) /\ pins' = requested
        /\ agreed' = [agreed EXCEPT !.wiring = [pins |-> requested, chip |-> chip]]
        /\ started' = (started \/ fault = "none") /\ enabled' = (enabled \/ fault = "none")
    BY <1>4 DEF beginEth, PinsOf
  <2>2. EthTypeOK'
    <3>1. {initialized', started', staticIP', ethDhcp', enabled', powered'} \subseteq BOOLEAN
      BY <1>1, <2>1 DEF EthTypeOK
    <3> QED BY <1>1, <1>2, <3>1 DEF EthTypeOK
  <2>3. AgreedKnown' /\ agreed'.wiring = [pins |-> requested, chip |-> chip] /\ agreed'.ip = agreed.ip
    BY <1>1, <1>4, <2>1 DEF AgreedKnown
  <2>4. WiringKept' /\ EthAddressKept' /\ StartedRuns'
    BY <1>1, <1>4, <2>1, <2>3 DEF WiringKept, EthAddressKept, StartedRuns
  <2> QED BY <2>2, <2>3, <2>4 DEF EthIInv, EthInv
<1> QED BY <1>3, <1>4

LEMMA ConfigEthKeeps ==
  ASSUME EthIInv, NEW ip \in EthAddresses, NEW dns \in [{1, 2} -> EthAddresses],
         NEW fault \in {"none", "stop", "set", "start"}, configEth(ip, dns, fault)
  PROVE  EthIInv'
<1>1. /\ EthTypeOK /\ WiringKept /\ EthAddressKept /\ StartedRuns /\ AgreedKnown
      /\ UNCHANGED <<initialized, started, pins, driverWiring, powered, enabled>>
  BY DEF EthIInv, EthInv, configEth
<1>2. ethCalls' \in 0 .. MaxEthCalls /\ ethFaults' \in 0 .. MaxEthFaults
  BY <1>1, CallEthKeeps DEF configEth
<1>3. DnsAfter(dns) \in [{1, 2} -> EthAddresses]
  BY <1>1 DEF EthTypeOK, DnsAfter
<1>4. staticIP' \in BOOLEAN /\ ethDhcp' \in BOOLEAN /\ ethIp' \in EthAddresses
  BY <1>1 DEF configEth, EthTypeOK, StaticAfter, DhcpAfter
<1>5. ethDns' \in [{1, 2} -> EthAddresses]
  BY <1>1, <1>3 DEF configEth, EthTypeOK
<1>6. EthTypeOK'
  BY <1>1, <1>2, <1>4, <1>5 DEF EthTypeOK
<1>7. /\ AgreedKnown' /\ agreed'.wiring = agreed.wiring
      /\ agreed'.ip = IF fault = "none" THEN ip ELSE NotKnown
  BY <1>1, <1>3 DEF configEth, AgreedKnown
<1>8. WiringKept' /\ StartedRuns'
  BY <1>1, <1>7 DEF WiringKept, StartedRuns
<1>9. EthAddressKept'
  BY <1>7 DEF configEth, EthAddressKept, StaticAfter, DhcpAfter
<1> QED BY <1>6, <1>7, <1>8, <1>9 DEF EthIInv, EthInv

LEMMA LeaseKeeps ==
  ASSUME EthIInv, Lease
  PROVE  EthIInv'
BY EthAssumption DEF EthIInv, EthInv, Lease, EthTypeOK, WiringKept, EthAddressKept, StartedRuns, AgreedKnown

LEMMA EthKept ==
  ASSUME EthIInv, [EthNext]_ethVars
  PROVE  EthIInv'
<1>1. CASE UNCHANGED ethVars
  BY <1>1 DEF ethVars, EthIInv, EthInv, EthTypeOK, WiringKept, EthAddressKept, StartedRuns, AgreedKnown
<1> QED BY <1>1, BeginEthKeeps, ConfigEthKeeps, LeaseKeeps DEF EthNext

(***************************************************************************)
(* mDNS (MDNSResponder).                                                    *)
(***************************************************************************)
(* The services s are those o the sketch has been told of, by their keys.   *)
Announced(s, o) ==
  /\ s = [k \in DOMAIN s |-> s[k]]
  /\ o = [n \in DOMAIN o |-> o[n]]
  /\ \A n \in DOMAIN o : o[n] = [port |-> o[n].port, text |-> o[n].text]
  /\ DOMAIN s = {<<"_", n>> : n \in DOMAIN o}
  /\ \A n \in DOMAIN o : s[<<"_", n>>] = o[n]

(* So are those of the responder r, which has none unless it runs.          *)
Agree(r, o) ==
  /\ r = [runs |-> r.runs, services |-> r.services] /\ r.runs \in BOOLEAN
  /\ Announced(r.services, o)
  /\ ~r.runs => DOMAIN o = {}

MdnsIInv ==
  /\ MdnsTypeOK /\ Agree(responder, offered)
  /\ sysEvents <= mdnsCalls
  /\ answered \in ServiceLists \cup {NoResults}
  /\ counted \in {0, Len(answered)} /\ (counted # 0 => queryResults = answered)

LEMMA ResponderWith ==
  ASSUME NEW r, r = [runs |-> r.runs, services |-> r.services], NEW s
  PROVE  [r EXCEPT !.services = s] = [runs |-> r.runs, services |-> s]
<1> DEFINE a == r.runs
           b == r.services
<1>1. r = [runs |-> a, services |-> b]
  OBVIOUS
<1> HIDE DEF a, b
<1>2. [[runs |-> a, services |-> b] EXCEPT !.services = s] = [runs |-> a, services |-> s]
  OBVIOUS
<1>3. [r EXCEPT !.services = s] = [runs |-> a, services |-> s]
  BY <1>1, <1>2, Zenon
<1> QED BY <1>3 DEF a

LEMMA ServiceWith ==
  ASSUME NEW s, s = [port |-> s.port, text |-> s.text], NEW txt
  PROVE  [s EXCEPT !.text = txt] = [port |-> s.port, text |-> txt]
<1> DEFINE a == s.port
           b == s.text
<1>1. s = [port |-> a, text |-> b]
  OBVIOUS
<1> HIDE DEF a, b
<1>2. [[port |-> a, text |-> b] EXCEPT !.text = txt] = [port |-> a, text |-> txt]
  OBVIOUS
<1>3. [s EXCEPT !.text = txt] = [port |-> a, text |-> txt]
  BY <1>1, <1>2, Zenon
<1> QED BY <1>3 DEF a

LEMMA KeysDiffer == \A m, n : <<"_", m>> = <<"_", n>> => m = n
OBVIOUS

LEMMA KeyKnown ==
  ASSUME NEW r, NEW o, Agree(r, o), NEW n \in DOMAIN o
  PROVE  <<"_", n>> \in DOMAIN r.services
<1>1. DOMAIN r.services = {<<"_", m>> : m \in DOMAIN o}
  BY DEF Agree, Announced
<1> QED BY <1>1

LEMMA AgreeWith ==
  ASSUME NEW r, NEW o, Agree(r, o), r.runs, NEW name, <<"_", name>> \notin DOMAIN r.services,
         NEW service, service = [port |-> service.port, text |-> service.text]
  PROVE  Agree([r EXCEPT !.services = With(@, <<"_", name>>, service)], With(o, name, service))
<1> DEFINE key == <<"_", name>>
           q == [r EXCEPT !.services = With(@, key, service)]
           p == With(o, name, service)
<1>1. q = [runs |-> r.runs, services |-> With(r.services, key, service)]
  <2>1. r = [runs |-> r.runs, services |-> r.services]
    BY DEF Agree, Announced
  <2> QED BY <2>1, ResponderWith, Zenon
<1>2. q.runs = r.runs /\ q.services = With(r.services, key, service)
  BY <1>1
<1>3. /\ q.services = [k \in DOMAIN r.services \cup {key} |-> IF k = key THEN service ELSE r.services[k]]
      /\ p = [k \in DOMAIN o \cup {name} |-> IF k = name THEN service ELSE o[k]]
  BY <1>2 DEF With
<1>4. /\ DOMAIN r.services = {<<"_", n>> : n \in DOMAIN o}
      /\ \A n \in DOMAIN o : r.services[<<"_", n>>] = o[n]
      /\ \A n \in DOMAIN o : o[n] = [port |-> o[n].port, text |-> o[n].text]
      /\ r.runs \in BOOLEAN
  BY DEF Agree, Announced
<1>5. \A n : <<"_", n>> = key => n = name
  BY KeysDiffer
<1> HIDE DEF q, p
<1>6. /\ DOMAIN q.services = DOMAIN r.services \cup {key} /\ DOMAIN p = DOMAIN o \cup {name}
      /\ \A n \in DOMAIN p : p[n] = IF n = name THEN service ELSE o[n]
      /\ \A k \in DOMAIN q.services : q.services[k] = IF k = key THEN service ELSE r.services[k]
  BY <1>3
<1>7. DOMAIN q.services = {<<"_", n>> : n \in DOMAIN p}
  <2>1. \A n \in DOMAIN p : <<"_", n>> \in DOMAIN q.services
    BY <1>4, <1>6
  <2>2. \A k \in DOMAIN q.services : \E n \in DOMAIN p : k = <<"_", n>>
    BY <1>4, <1>6
  <2> QED BY <2>1, <2>2
<1>8. \A n \in DOMAIN p : q.services[<<"_", n>>] = p[n]
  <2> SUFFICES ASSUME NEW n \in DOMAIN p PROVE q.services[<<"_", n>>] = p[n]
    OBVIOUS
  <2>1. <<"_", n>> \in DOMAIN q.services
    BY <1>7
  <2>2. CASE n = name
    BY <2>1, <2>2, <1>6
  <2>3. CASE n # name
    BY <2>1, <2>3, <1>4, <1>5, <1>6
  <2> QED BY <2>2, <2>3
<1>9. \A n \in DOMAIN p : p[n] = [port |-> p[n].port, text |-> p[n].text]
  BY <1>4, <1>6
<1>10. q.services = [k \in DOMAIN q.services |-> q.services[k]] /\ p = [n \in DOMAIN p |-> p[n]]
  BY <1>3
<1>11. q = [runs |-> q.runs, services |-> q.services]
  BY <1>1, <1>2
<1>12. Agree(q, p)
  BY <1>2, <1>4, <1>7, <1>8, <1>9, <1>10, <1>11 DEF Agree, Announced
<1> QED BY <1>12 DEF q, p

LEMMA AgreeText ==
  ASSUME NEW r, NEW o, Agree(r, o), NEW name, name \in DOMAIN o, NEW txt
  PROVE  Agree([r EXCEPT !.services[<<"_", name>>].text = txt], [o EXCEPT ![name].text = txt])
<1> DEFINE key == <<"_", name>>
           service == [port |-> o[name].port, text |-> txt]
           q == [r EXCEPT !.services[key].text = txt]
           p == [o EXCEPT ![name].text = txt]
<1>1. /\ DOMAIN r.services = {<<"_", n>> : n \in DOMAIN o}
      /\ \A n \in DOMAIN o : r.services[<<"_", n>>] = o[n]
      /\ \A n \in DOMAIN o : o[n] = [port |-> o[n].port, text |-> o[n].text]
      /\ r = [runs |-> r.runs, services |-> r.services] /\ r.runs \in BOOLEAN
      /\ r.services = [k \in DOMAIN r.services |-> r.services[k]]
      /\ o = [n \in DOMAIN o |-> o[n]]
      /\ ~r.runs => DOMAIN o = {}
  BY DEF Agree, Announced
<1>2. key \in DOMAIN r.services /\ r.services[key] = o[name]
  BY <1>1
<1>3. [o[name] EXCEPT !.text = txt] = service
  BY <1>1, ServiceWith, Zenon
<1>4. p = [n \in DOMAIN o |-> IF n = name THEN service ELSE o[n]]
  BY <1>1, <1>3
<1>5. q = [runs |-> r.runs, services |-> [k \in DOMAIN r.services |-> IF k = key THEN service ELSE r.services[k]]]
  <2>1. q = [r EXCEPT !.services = [r.services EXCEPT ![key] = [r.services[key] EXCEPT !.text = txt]]]
    OBVIOUS
  <2>2. [r.services EXCEPT ![key] = service] = [k \in DOMAIN r.services |-> IF k = key THEN service ELSE r.services[k]]
    BY <1>1
  <2>3. q = [r EXCEPT !.services = [r.services EXCEPT ![key] = service]]
    BY <2>1, <1>2, <1>3
  <2> HIDE DEF service, q
  <2> QED BY <2>2, <2>3, <1>1
<1>6. \A n : <<"_", n>> = key => n = name
  BY KeysDiffer
<1>7. service = [port |-> service.port, text |-> service.text]
  OBVIOUS
<1> HIDE DEF q, p, service
<1>8. /\ q.runs = r.runs /\ q = [runs |-> q.runs, services |-> q.services]
      /\ q.services = [k \in DOMAIN r.services |-> IF k = key THEN service ELSE r.services[k]]
  BY <1>5
<1>9. /\ DOMAIN q.services = DOMAIN r.services /\ DOMAIN p = DOMAIN o
      /\ \A n \in DOMAIN p : p[n] = IF n = name THEN service ELSE o[n]
      /\ \A k \in DOMAIN q.services : q.services[k] = IF k = key THEN service ELSE r.services[k]
      /\ q.services = [k \in DOMAIN q.services |-> q.services[k]] /\ p = [n \in DOMAIN p |-> p[n]]
  BY <1>4, <1>8
<1>10. \A n \in DOMAIN p : q.services[<<"_", n>>] = p[n]
  <2> SUFFICES ASSUME NEW n \in DOMAIN p PROVE q.services[<<"_", n>>] = p[n]
    OBVIOUS
  <2>1. <<"_", n>> \in DOMAIN q.services
    <3>1. n \in DOMAIN o
      BY <1>9
    <3>2. <<"_", n>> \in DOMAIN r.services
      BY <3>1, KeyKnown
    <3> QED BY <1>9, <3>2
  <2>2. CASE n = name
    BY <2>1, <2>2, <1>9
  <2>3. CASE n # name
    BY <2>1, <2>3, <1>1, <1>6, <1>9
  <2> QED BY <2>2, <2>3
<1>11. \A n \in DOMAIN p : p[n] = [port |-> p[n].port, text |-> p[n].text]
  BY <1>1, <1>7, <1>9
<1>12. DOMAIN q.services = {<<"_", n>> : n \in DOMAIN p} /\ (~q.runs => DOMAIN p = {}) /\ q.runs \in BOOLEAN
  BY <1>1, <1>8, <1>9
<1>13. Agree(q, p)
  BY <1>8, <1>9, <1>10, <1>11, <1>12 DEF Agree, Announced
<1> QED BY <1>13 DEF q, p

LEMMA AgreeRemoved ==
  ASSUME NEW r, NEW o, Agree(r, o), NEW name
  PROVE  Agree([r EXCEPT !.services = [k \in DOMAIN @ \ {<<"_", name>>} |-> @[k]]],
               [k \in DOMAIN o \ {name} |-> o[k]])
<1> DEFINE key == <<"_", name>>
           q == [r EXCEPT !.services = [k \in DOMAIN @ \ {key} |-> @[k]]]
           p == [k \in DOMAIN o \ {name} |-> o[k]]
<1>1. /\ DOMAIN r.services = {<<"_", n>> : n \in DOMAIN o}
      /\ \A n \in DOMAIN o : r.services[<<"_", n>>] = o[n]
      /\ \A n \in DOMAIN o : o[n] = [port |-> o[n].port, text |-> o[n].text]
      /\ r = [runs |-> r.runs, services |-> r.services] /\ r.runs \in BOOLEAN
      /\ r.services = [k \in DOMAIN r.services |-> r.services[k]]
      /\ ~r.runs => DOMAIN o = {}
  BY DEF Agree, Announced
<1>2. q = [runs |-> r.runs, services |-> [k \in DOMAIN r.services \ {key} |-> r.services[k]]]
  BY <1>1, ResponderWith, Zenon
<1>3. \A n : <<"_", n>> = key => n = name
  BY KeysDiffer
<1>4. /\ DOMAIN p = DOMAIN o \ {name} /\ \A n \in DOMAIN p : p[n] = o[n]
      /\ p = [n \in DOMAIN p |-> p[n]]
  OBVIOUS
<1> HIDE DEF q, p
<1>5. /\ q.runs = r.runs /\ q = [runs |-> q.runs, services |-> q.services]
      /\ q.services = [k \in DOMAIN r.services \ {key} |-> r.services[k]]
  BY <1>2
<1>6. /\ DOMAIN q.services = DOMAIN r.services \ {key}
      /\ \A k \in DOMAIN q.services : q.services[k] = r.services[k]
      /\ q.services = [k \in DOMAIN q.services |-> q.services[k]]
  BY <1>5
<1>7. DOMAIN q.services = {<<"_", n>> : n \in DOMAIN p}
  <2>1. \A n \in DOMAIN p : <<"_", n>> \in DOMAIN q.services
    BY <1>1, <1>3, <1>4, <1>6
  <2>2. \A k \in DOMAIN q.services : \E n \in DOMAIN p : k = <<"_", n>>
    <3> SUFFICES ASSUME NEW k \in DOMAIN q.services PROVE \E n \in DOMAIN p : k = <<"_", n>>
      OBVIOUS
    <3>1. PICK n \in DOMAIN o : k = <<"_", n>>
      BY <1>1, <1>6
    <3>2. n # name
      BY <1>6, <3>1
    <3> QED BY <1>4, <3>1, <3>2
  <2> QED BY <2>1, <2>2
<1>8. \A n \in DOMAIN p : q.services[<<"_", n>>] = p[n] /\ p[n] = [port |-> p[n].port, text |-> p[n].text]
  BY <1>1, <1>4, <1>6, <1>7
<1>9. Agree(q, p)
  BY <1>1, <1>4, <1>5, <1>6, <1>7, <1>8 DEF Agree, Announced
<1> QED BY <1>9 DEF q, p

LEMMA CallMdnsKeeps ==
  ASSUME MdnsIInv, NEW failed \in BOOLEAN, CallMdns(failed)
  PROVE  /\ mdnsCalls' \in 0 .. MaxMdnsCalls /\ mdnsFaults' \in 0 .. MaxMdnsFaults
         /\ mdnsCalls' = mdnsCalls + 1 /\ mdnsCalls \in Nat /\ sysEvents \in Nat /\ sysEvents <= mdnsCalls
BY MdnsAssumption DEF MdnsIInv, MdnsTypeOK, CallMdns

(* A call that asks nothing.                                                *)
LEMMA MdnsStep ==
  ASSUME MdnsIInv, NEW failed \in BOOLEAN, CallMdns(failed),
         UNCHANGED <<queryResults, counted, answered>>,
         sysEvents' = sysEvents \/ sysEvents' = sysEvents + 1,
         Agree(responder', offered')
  PROVE  MdnsIInv'
<1>1. /\ mdnsCalls' \in 0 .. MaxMdnsCalls /\ mdnsFaults' \in 0 .. MaxMdnsFaults
      /\ mdnsCalls' = mdnsCalls + 1 /\ mdnsCalls \in Nat /\ sysEvents \in Nat /\ sysEvents <= mdnsCalls
  BY CallMdnsKeeps
<1>2. sysEvents' \in 0 .. MaxMdnsCalls /\ sysEvents' <= mdnsCalls'
  BY <1>1, MdnsAssumption
<1>3. responder'.runs \in BOOLEAN
  BY DEF Agree, Announced
<1> QED BY <1>1, <1>2, <1>3 DEF MdnsIInv, MdnsTypeOK

(* mdns_init; the responder may have run before.                            *)
LEMMA AgreeRuns ==
  ASSUME NEW r, NEW o, Agree(r, o), NEW running \in BOOLEAN, running
  PROVE  Agree([r EXCEPT !.runs = running], o)
<1> DEFINE a == r.runs
           b == r.services
           q == [r EXCEPT !.runs = running]
<1>1. r = [runs |-> a, services |-> b]
  BY DEF Agree, Announced
<1>2. Announced(b, o)
  BY DEF Agree
<1> HIDE DEF a, b
<1>3. q = [runs |-> running, services |-> b]
  <2>1. \A t : [[runs |-> a, services |-> b] EXCEPT !.runs = t] = [runs |-> t, services |-> b]
    OBVIOUS
  <2> QED BY <1>1, <2>1, Zenon
<1> HIDE DEF q
<1>4. q.runs = running /\ q.services = b
  BY <1>3
<1>5. q = [runs |-> q.runs, services |-> q.services]
  BY <1>3, <1>4, Zenon
<1>6. q.runs \in BOOLEAN /\ (~q.runs => DOMAIN o = {})
  BY <1>4, Zenon
<1>7. Announced(q.services, o)
  BY <1>2, <1>4, Zenon
<1>8. Agree(q, o)
  BY <1>2, <1>5, <1>6, <1>7, Zenon DEF Agree
<1> QED BY <1>8 DEF q

LEMMA BeginMdnsKeeps ==
  ASSUME MdnsIInv, NEW failed \in BOOLEAN, beginMdns(failed)
  PROVE  MdnsIInv'
<1>1. Agree(responder, offered) /\ TRUE \in BOOLEAN
  BY DEF MdnsIInv
<1>2. responder' = [responder EXCEPT !.runs = TRUE] /\ offered' = offered
  BY DEF beginMdns
<1>3. Agree([responder EXCEPT !.runs = TRUE], offered)
  BY <1>1, AgreeRuns
<1>4. Agree(responder', offered')
  BY <1>2, <1>3, Zenon
<1> QED BY <1>4, MdnsStep DEF beginMdns

LEMMA EndMdnsKeeps ==
  ASSUME MdnsIInv, endMdns
  PROVE  MdnsIInv'
<1>1. DOMAIN NoServices = {} /\ NoServices = [n \in DOMAIN NoServices |-> NoServices[n]]
  BY DEF NoServices
<1>2. responder' = [runs |-> FALSE, services |-> NoServices] /\ offered' = NoServices
  BY DEF endMdns
<1>3. responder'.runs = FALSE /\ responder'.services = NoServices
  BY <1>2
<1>4. Agree(responder', offered')
  BY <1>1, <1>2, <1>3 DEF Agree, Announced
<1>5. FALSE \in BOOLEAN /\ CallMdns(FALSE) /\ UNCHANGED <<queryResults, counted, answered, sysEvents>>
  BY DEF endMdns
<1> QED BY <1>4, <1>5, MdnsStep

(* mdns_service_add: the responder has not known the service, and has it    *)
(* now; or it is as before.                                                 *)
LEMMA AddedAgrees ==
  ASSUME Agree(responder, offered), NEW name, NEW port, NEW txt, NEW failed \in BOOLEAN
  PROVE  \/ Added(<<"_", name>>, port, txt, failed) = responder
         \/ /\ Added(<<"_", name>>, port, txt, failed) # responder
            /\ Added(<<"_", name>>, port, txt, failed).services[<<"_", name>>] = [port |-> port, text |-> txt]
            /\ Agree(Added(<<"_", name>>, port, txt, failed), With(offered, name, [port |-> port, text |-> txt]))
<1> DEFINE key == <<"_", name>>
           service == [port |-> port, text |-> txt]
           q == [responder EXCEPT !.services = With(@, key, service)]
<1>1. CASE failed \/ ~responder.runs \/ key \in DOMAIN responder.services
  BY <1>1 DEF Added
<1>2. CASE ~(failed \/ ~responder.runs \/ key \in DOMAIN responder.services)
  <2>1. Added(key, port, txt, failed) = q
    BY <1>2 DEF Added
  <2>2. service = [port |-> service.port, text |-> service.text]
    OBVIOUS
  <2>3. responder = [runs |-> responder.runs, services |-> responder.services]
    BY DEF Agree, Announced
  <2> HIDE DEF service
  <2>4. Agree(q, With(offered, name, service))
    BY <1>2, <2>2, AgreeWith
  <2>5. q = [runs |-> responder.runs, services |-> With(responder.services, key, service)]
    BY <2>3, ResponderWith, Zenon
  <2> HIDE DEF q
  <2>6. q.services = With(responder.services, key, service)
    BY <2>5
  <2>7. key \in DOMAIN q.services /\ q.services[key] = service
    BY <2>6 DEF With
  <2>8. q # responder
    BY <1>2, <2>7
  <2> QED BY <2>1, <2>4, <2>7, <2>8 DEF service
<1> QED BY <1>1, <1>2

(* mdns_service_txt_item_set: the sketch has a service exactly when the     *)
(* responder has it, and the responder runs then.                           *)
LEMMA TextAgrees ==
  ASSUME NEW r, NEW o, Agree(r, o), NEW name, NEW txt, NEW failed \in BOOLEAN
  PROVE  Agree(WithText(r, <<"_", name>>, txt, failed),
               IF failed \/ name \notin DOMAIN o THEN o ELSE [o EXCEPT ![name].text = txt])
<1>1. <<"_", name>> \in DOMAIN r.services <=> name \in DOMAIN o
  <2>1. DOMAIN r.services = {<<"_", n>> : n \in DOMAIN o}
    BY DEF Agree, Announced
  <2> QED BY <2>1, KeysDiffer
<1>2. name \in DOMAIN o => r.runs
  BY DEF Agree, Announced
<1>3. CASE failed \/ name \notin DOMAIN o
  BY <1>1, <1>3 DEF WithText
<1>4. CASE ~failed /\ name \in DOMAIN o
  <2>1. WithText(r, <<"_", name>>, txt, failed) = [r EXCEPT !.services[<<"_", name>>].text = txt]
    BY <1>1, <1>2, <1>4 DEF WithText
  <2>2. Agree([r EXCEPT !.services[<<"_", name>>].text = txt], [o EXCEPT ![name].text = txt])
    BY <1>4, AgreeText
  <2> QED BY <1>4, <2>1, <2>2, Zenon
<1> QED BY <1>3, <1>4

LEMMA AddServiceKeeps ==
  ASSUME MdnsIInv, NEW spelling \in Spellings, NEW port \in Ports, NEW failed \in BOOLEAN,
         addService(spelling, port, failed)
  PROVE  MdnsIInv'
<1> DEFINE name == spelling.name
           added == Added(<<"_", name>>, port, 0, failed)
<1>1. Agree(responder, offered)
  BY DEF MdnsIInv
<1>2. /\ responder' = added
      /\ offered' = IF responder' = responder THEN offered ELSE With(offered, name, [port |-> port, text |-> 0])
  BY DEF addService, Canonical
<1>3. \/ added = responder
      \/ added # responder /\ Agree(added, With(offered, name, [port |-> port, text |-> 0]))
  BY <1>1, AddedAgrees
<1> HIDE DEF added, name
<1>4. Agree(responder', offered')
  BY <1>1, <1>2, <1>3
<1> QED BY <1>4, MdnsStep DEF addService

LEMMA AddServiceTxtKeeps ==
  ASSUME MdnsIInv, NEW spelling \in Spellings, NEW txt \in TextValues, NEW failed \in BOOLEAN,
         addServiceTxt(spelling, txt, failed)
  PROVE  MdnsIInv'
<1> DEFINE name == spelling.name
<1>1. Agree(responder, offered)
  BY DEF MdnsIInv
<1>2. /\ responder' = WithText(responder, <<"_", name>>, txt, failed)
      /\ offered' = IF failed \/ name \notin DOMAIN offered THEN offered ELSE [offered EXCEPT ![name].text = txt]
  BY DEF addServiceTxt, Canonical
<1> HIDE DEF name
<1>3. Agree(responder', offered')
  BY <1>1, <1>2, TextAgrees, Zenon
<1> QED BY <1>3, MdnsStep DEF addServiceTxt

LEMMA EnableWorkstationKeeps ==
  ASSUME MdnsIInv, NEW failed \in BOOLEAN, enableWorkstation(failed)
  PROVE  MdnsIInv'
<1> DEFINE key == <<"_", "workstation">>
           added == Added(key, 9, 0, failed)
           expected == With(offered, "workstation", [port |-> 9, text |-> 0])
<1>1. Agree(responder, offered)
  BY DEF MdnsIInv
<1>2. /\ responder' = added
      /\ offered' = IF responder' = responder THEN offered ELSE With(offered, "workstation", responder'.services[key])
  BY DEF enableWorkstation
<1>3. Agree(added, IF added # responder THEN expected ELSE offered)
  BY <1>1, AddedAgrees
<1>4. "workstation" \in DOMAIN expected /\ expected["workstation"] = [port |-> 9, text |-> 0]
  BY DEF With
<1>5. added # responder => With(offered, "workstation", added.services[key]) = expected
  <2> HIDE DEF added, expected
  <2>1. added # responder => added.services[key] = expected["workstation"]
    BY <1>3, <1>4 DEF Agree, Announced
  <2> QED BY <1>4, <2>1 DEF expected
<1> HIDE DEF added, key, expected
<1>6. Agree(responder', offered')
  BY <1>1, <1>2, <1>3, <1>5
<1> QED BY <1>6, MdnsStep DEF enableWorkstation

LEMMA EnableArduinoKeeps ==
  ASSUME MdnsIInv, NEW port \in Ports, NEW auth \in BOOLEAN, NEW failed \in BOOLEAN,
         enableArduino(port, auth, failed)
  PROVE  MdnsIInv'
<1> DEFINE key == <<"_", "arduino">>
           added == Added(key, port, 0, failed)
           finished == IF auth THEN WithText(added, key, 1, FALSE) ELSE added
           first == IF added # responder THEN With(offered, "arduino", [port |-> port, text |-> 0]) ELSE offered
           second == IF auth /\ "arduino" \in DOMAIN first THEN [first EXCEPT !["arduino"].text = 1] ELSE first
<1>1. Agree(responder, offered) /\ CallMdns(failed) /\ UNCHANGED <<queryResults, sysEvents, counted, answered>>
  BY DEF MdnsIInv, enableArduino
<1>2. /\ responder' = finished
      /\ offered' = IF added # responder THEN With(offered, "arduino", finished.services[key])
                    ELSE IF finished # added THEN [offered EXCEPT !["arduino"].text = 1]
                    ELSE offered
  BY DEF enableArduino
<1>3. Agree(added, first)
  BY <1>1, AddedAgrees
<1>4. Agree(finished, second)
  <2>1. CASE auth
    <3>1. Agree(WithText(added, key, 1, FALSE),
                IF FALSE \/ "arduino" \notin DOMAIN first THEN first ELSE [first EXCEPT !["arduino"].text = 1])
      <4> HIDE DEF added, first
      <4> QED BY <1>3, TextAgrees
    <3> HIDE DEF added, first
    <3> QED BY <2>1, <3>1
  <2>2. CASE ~auth
    <3> HIDE DEF added, first
    <3> QED BY <2>2, <1>3
  <2> QED BY <2>1, <2>2
<1>5. offered' = second
  <2>1. CASE added # responder
    <3>1. offered' = With(offered, "arduino", finished.services[key])
      <4> HIDE DEF added, finished
      <4> QED BY <1>2, <2>1
    <3>2. first = With(offered, "arduino", [port |-> port, text |-> 0])
      <4> HIDE DEF added
      <4> QED BY <2>1
    <3>3. "arduino" \in DOMAIN first
      <4> HIDE DEF first
      <4> QED BY <3>2 DEF With
    <3>4. second = IF auth THEN [first EXCEPT !["arduino"].text = 1] ELSE first
      <4> HIDE DEF first
      <4> QED BY <3>3
    <3>5. second = With(offered, "arduino", [port |-> port, text |-> IF auth THEN 1 ELSE 0])
      <4> HIDE DEF first, second
      <4> QED BY <3>2, <3>4 DEF With
    <3>6. finished.services[key] = second["arduino"]
      <4>1. "arduino" \in DOMAIN second
        <5> HIDE DEF second
        <5> QED BY <3>5 DEF With
      <4> HIDE DEF finished, second
      <4> QED BY <1>4, <4>1 DEF Agree, Announced
    <3>7. second["arduino"] = [port |-> port, text |-> IF auth THEN 1 ELSE 0]
      <4> HIDE DEF second
      <4> QED BY <3>5 DEF With
    <3> HIDE DEF second, finished, first, added
    <3> QED BY <3>1, <3>5, <3>6, <3>7
  <2>2. CASE added = responder /\ finished # added
    <3>1. offered' = [offered EXCEPT !["arduino"].text = 1] /\ first = offered
      <4> HIDE DEF added, finished
      <4> QED BY <1>2, <2>2
    <3>2. auth /\ key \in DOMAIN added.services
      <4> HIDE DEF added, key
      <4> QED BY <2>2 DEF WithText
    <3>3. "arduino" \in DOMAIN first
      <4>1. DOMAIN added.services = {<<"_", n>> : n \in DOMAIN first}
        <5> HIDE DEF added, first
        <5> QED BY <1>3 DEF Agree, Announced
      <4> HIDE DEF added, first
      <4>2. PICK n \in DOMAIN first : key = <<"_", n>>
        BY <3>2, <4>1
      <4> QED BY <4>2
    <3> HIDE DEF first
    <3> QED BY <3>1, <3>2, <3>3
  <2>3. CASE added = responder /\ finished = added
    <3>1. offered' = offered /\ first = offered
      <4> HIDE DEF added, finished
      <4> QED BY <1>2, <2>3
    <3>2. second = first
      <4>1. CASE auth /\ "arduino" \in DOMAIN first
        <5>1. second = [first EXCEPT !["arduino"].text = 1]
          BY <4>1
        <5>2. /\ second["arduino"] = first["arduino"]
          <6>1. "arduino" \in DOMAIN second
            <7> HIDE DEF first, second
            <7> QED BY <4>1, <5>1
          <6> HIDE DEF first, second, added, finished
          <6> QED BY <1>3, <1>4, <2>3, <4>1, <6>1 DEF Agree, Announced
        <5>3. second["arduino"] = [first["arduino"] EXCEPT !.text = 1]
          <6> HIDE DEF first, second
          <6> QED BY <4>1, <5>1
        <5>4. first = [n \in DOMAIN first |-> first[n]]
          <6> HIDE DEF first, added
          <6> QED BY <1>3 DEF Agree, Announced
        <5> HIDE DEF first, second
        <5> QED BY <5>1, <5>2, <5>3, <5>4
      <4> QED BY <4>1
    <3> QED BY <3>1, <3>2
  <2> QED BY <2>1, <2>2, <2>3
<1> HIDE DEF second, finished, first, added
<1>6. Agree(responder', offered')
  BY <1>2, <1>4, <1>5
<1> QED BY <1>1, <1>6, MdnsStep

LEMMA DisableKeeps ==
  ASSUME MdnsIInv, NEW name, Disable(name)
  PROVE  MdnsIInv'
<1>1. Agree(responder, offered) /\ FALSE \in BOOLEAN
  BY DEF MdnsIInv
<1>2. /\ responder' = [responder EXCEPT !.services = [k \in DOMAIN @ \ {<<"_", name>>} |-> @[k]]]
      /\ offered' = [k \in DOMAIN offered \ {name} |-> offered[k]]
  BY DEF Disable, Removed
<1>3. Agree(responder', offered')
  BY <1>1, <1>2, AgreeRemoved, Zenon
<1> QED BY <1>1, <1>3, MdnsStep DEF Disable

LEMMA QueryKeeps ==
  ASSUME MdnsIInv,
         \/ \E list \in ServiceLists, failed \in BOOLEAN : queryService(list, failed)
         \/ queryNothing \/ beginFails
  PROVE  MdnsIInv'
<1> USE MdnsAssumption
<1>1. ASSUME NEW list \in ServiceLists, NEW failed \in BOOLEAN, queryService(list, failed)
      PROVE  MdnsIInv'
  <2>1. /\ queryResults' = Kept(list, failed) /\ answered' = queryResults' /\ counted' = Len(queryResults')
        /\ UNCHANGED <<responder, sysEvents, offered>> /\ CallMdns(failed)
    BY <1>1 DEF queryService, Kept
  <2>2. queryResults' \in ServiceLists \cup {NoResults} /\ Len(queryResults') \in Nat
    BY <2>1 DEF Kept, NoResults
  <2>3. /\ mdnsCalls' \in 0 .. MaxMdnsCalls /\ mdnsFaults' \in 0 .. MaxMdnsFaults
        /\ mdnsCalls' = mdnsCalls + 1 /\ mdnsCalls \in Nat /\ sysEvents \in Nat /\ sysEvents <= mdnsCalls
    BY <2>1, CallMdnsKeeps
  <2>4. sysEvents <= mdnsCalls'
    BY <2>3
  <2> QED BY <2>1, <2>2, <2>3, <2>4 DEF MdnsIInv, MdnsTypeOK
<1>2. ASSUME queryNothing \/ beginFails PROVE MdnsIInv'
  <2>1. /\ UNCHANGED <<responder, queryResults, sysEvents, offered, answered>>
        /\ counted' \in {0, counted} /\ \E failed \in BOOLEAN : CallMdns(failed)
    BY <1>2 DEF queryNothing, beginFails
  <2>2. /\ mdnsCalls' \in 0 .. MaxMdnsCalls /\ mdnsFaults' \in 0 .. MaxMdnsFaults
        /\ mdnsCalls' = mdnsCalls + 1 /\ mdnsCalls \in Nat /\ sysEvents \in Nat /\ sysEvents <= mdnsCalls
    BY <2>1, CallMdnsKeeps
  <2>3. sysEvents <= mdnsCalls'
    BY <2>2
  <2> QED BY <2>1, <2>2, <2>3 DEF MdnsIInv, MdnsTypeOK
<1> QED BY <1>1, <1>2

LEMMA MdnsInitial == MdnsInit => MdnsIInv
<1> SUFFICES ASSUME MdnsInit PROVE MdnsIInv
  OBVIOUS
<1>1. DOMAIN NoServices = {} /\ NoServices = [n \in DOMAIN NoServices |-> NoServices[n]]
  BY DEF NoServices
<1>2. responder = [runs |-> FALSE, services |-> NoServices] /\ offered = NoServices
  BY DEF MdnsInit
<1>3. responder.runs = FALSE /\ responder.services = NoServices
  BY <1>2
<1>4. Agree(responder, offered)
  BY <1>1, <1>2, <1>3 DEF Agree, Announced
<1> QED BY <1>3, <1>4, MdnsAssumption DEF MdnsInit, MdnsIInv, MdnsTypeOK, NoResults

LEMMA MdnsKept ==
  ASSUME MdnsIInv, [MdnsNext]_mdnsVars
  PROVE  MdnsIInv'
<1>1. CASE UNCHANGED mdnsVars
  BY <1>1 DEF mdnsVars, MdnsIInv, MdnsTypeOK
<1>2. CASE MdnsNext
  BY <1>2, BeginMdnsKeeps, EndMdnsKeeps, AddServiceKeeps, AddServiceTxtKeeps, EnableArduinoKeeps,
     EnableWorkstationKeeps, DisableKeeps, QueryKeeps
  DEF MdnsNext, disableArduino, disableWorkstation
<1> QED BY <1>1, <1>2

LEMMA MdnsImplied == MdnsIInv => MdnsInv
<1> SUFFICES ASSUME MdnsIInv PROVE MdnsInv
  OBVIOUS
<1>1. ServicesAsAsked
  BY DEF MdnsIInv, Agree, Announced, ServicesAsAsked
<1>2. ResultsOfLast
  <2>1. counted \in {0, Len(answered)} /\ (counted # 0 => queryResults = answered)
    BY DEF MdnsIInv
  <2>2. Len(answered) \in Nat /\ DOMAIN answered = 1 .. Len(answered) /\ counted \in Nat
    BY MdnsAssumption DEF MdnsIInv, MdnsTypeOK, NoResults
  <2>3. ASSUME NEW idx \in 0 .. counted - 1 PROVE getResult(idx) = answered[idx + 1]
    <3>1. counted # 0 /\ idx + 1 \in 1 .. counted
      BY <2>2
    <3>2. counted = Len(answered)
      BY <2>1, <3>1
    <3> QED BY <2>1, <2>2, <3>1, <3>2 DEF getResult
  <2> QED BY <2>1, <2>3 DEF ResultsOfLast
<1> QED BY <1>1, <1>2 DEF MdnsIInv, MdnsInv
=============================================================================
