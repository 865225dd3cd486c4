------------------------------ MODULE Storage ------------------------------
(***************************************************************************)
(* What outlives a restart, and who writes it: the settings in NVS with    *)
(* their copies in RAM (main/settings.c), the key pair that identifies the *)
(* speaker (hap/hap.c), the requests of the web server that change them,   *)
(* load firmware or files and restart the device (network/web_server.c,    *)
(* network/ota.c).  Power may fail between any two writes, and a write may *)
(* fail for want of space.                                                 *)
(*                                                                         *)
(* External: an NVS entry is in the flash when its nvs_set_ call returns,  *)
(* and nvs_commit does not fail after one that succeeded; the boot loader  *)
(* starts the partition that was last set, which is checked when it is.    *)
(***************************************************************************)
EXTENDS Naturals, FiniteSets

CONSTANTS StoredValues,               \* what a setting can hold
          RtspTasks,                  \* tasks of clients, two after a takeover
          MaxStores, MaxPowerCuts     \* bounds

Absent == "absent"
Slots == {0, 1}
NvsKeys == {"volume_db", "bt_vol", "wifi_ssid", "wifi_pass", "device_name", "led_bright",
            "eq_gains"}

ASSUME StorageAssumption ==
    /\ Absent \notin StoredValues /\ IsFiniteSet(RtspTasks)
    /\ MaxStores \in Nat /\ MaxPowerCuts \in Nat

VARIABLES nvs, keys,       \* the entries; the halves of the key pair, by generation
          ram,             \* the copies of the cached settings
          identity,        \* g_device_public_key and _secret_key, g_initialized
          generated,       \* key pairs generated so far
          announced,       \* the public keys senders have seen since NVS was erased
          persisting,      \* per client's task: the volume it is about to store
          web,             \* the request the web server's one task handles
          firmware,        \* the running and the boot slot, and the images
          airplay,         \* the RTSP server runs
          file,            \* one file of the SPIFFS partition
          stores, powerCuts

storageVars == <<nvs, keys, ram, identity, generated, announced, persisting, web, firmware,
                 airplay, file, stores, powerCuts>>
settingVars == <<nvs, ram, persisting>>
identityVars == <<keys, identity, generated, announced>>
updateVars == <<firmware, airplay, file>>

NoIdentity == [at |-> "off", public |-> 0, secret |-> 0]
WebIdle == [op |-> "none", at |-> "idle", ssid |-> Absent, pass |-> Absent, whole |-> TRUE]
NoVolume == "none"

StorageInit ==
    /\ nvs = [k \in NvsKeys |-> Absent] /\ keys = [public |-> 0, secret |-> 0]
    /\ ram = [volume |-> Absent, bt |-> Absent, eq |-> Absent, bright |-> Absent]
    /\ identity = NoIdentity /\ generated = 0 /\ announced = {}
    /\ persisting = [t \in RtspTasks |-> NoVolume]
    /\ web = WebIdle
    /\ firmware = [running |-> 0, boot |-> 0, image |-> [s \in Slots |-> "whole"]]
    /\ airplay = FALSE /\ file = "old" /\ stores = 0 /\ powerCuts = 0

(* A restart: RAM is lost.  app_main finds NVS usable, or has to erase it; *)
(* settings_init loads the volume and the equaliser, led_init its          *)
(* brightness; the Bluetooth volume is read when it is first asked for.    *)
Boot(kept) ==
    /\ nvs' = IF kept THEN nvs ELSE [k \in NvsKeys |-> Absent]
    /\ keys' = IF kept THEN keys ELSE [public |-> 0, secret |-> 0]
    /\ announced' = IF kept THEN announced ELSE {}
    /\ ram' = [volume |-> nvs'["volume_db"], bt |-> Absent, eq |-> nvs'["eq_gains"],
               bright |-> nvs'["led_bright"]]
    /\ identity' = NoIdentity
    /\ persisting' = [t \in RtspTasks |-> NoVolume]
    /\ web' = WebIdle
    /\ firmware' = [firmware EXCEPT !.running = firmware.boot]
    /\ airplay' = FALSE
    /\ UNCHANGED <<generated, file, stores>>

PowerCut ==
    /\ powerCuts < MaxPowerCuts /\ powerCuts' = powerCuts + 1
    /\ \E kept \in BOOLEAN : Boot(kept)

(* A mutant: a secret key that is missing does not send hap_init to        *)
(* generate a new pair.                                                    *)
LoadsPublicOnly ==
    \/ /\ identity.at = "off"
       /\ identity' = [at |-> IF keys.public # 0 THEN "ready" ELSE "generate",
                       public |-> keys.public, secret |-> keys.secret]
       /\ announced' = IF identity'.at = "ready" THEN announced \cup {keys.public} ELSE announced
       /\ airplay' = (identity'.at = "ready")
       /\ UNCHANGED <<keys, generated>>
    \/ /\ identity.at = "generate"
       /\ generated' = generated + 1
       /\ identity' = [at |-> "public", public |-> generated', secret |-> generated']
       /\ UNCHANGED <<keys, announced, airplay>>
    \/ /\ identity.at = "public" /\ keys' = [keys EXCEPT !.public = identity.public]
       /\ identity' = [identity EXCEPT !.at = "secret"]
       /\ UNCHANGED <<generated, announced, airplay>>
    \/ /\ identity.at = "secret" /\ keys' = [keys EXCEPT !.secret = identity.secret]
       /\ identity' = [identity EXCEPT !.at = "ready"]
       /\ announced' = announced \cup {identity.public} /\ airplay' = TRUE
       /\ UNCHANGED generated

(* hap_init, before the RTSP server is started: load the pair, or make one *)
(* and store its halves one after the other.  If a half cannot be stored   *)
(* the caller aborts, which is a restart.                                  *)
hap_init ==
    \/ /\ identity.at = "off"
       /\ LET found == keys.public # 0 /\ keys.secret # 0 IN
          /\ identity' = [at |-> IF found THEN "ready" ELSE "generate",
                          public |-> keys.public, secret |-> keys.secret]
          /\ announced' = IF found THEN announced \cup {keys.public} ELSE announced
          /\ airplay' = found
       /\ UNCHANGED <<keys, generated>>
    \/ /\ identity.at = "generate"
       /\ generated' = generated + 1
       /\ identity' = [at |-> "public", public |-> generated', secret |-> generated']
       /\ UNCHANGED <<keys, announced, airplay>>
    \/ /\ identity.at = "public" /\ keys' = [keys EXCEPT !.public = identity.public]
       /\ identity' = [identity EXCEPT !.at = "secret"]
       /\ UNCHANGED <<generated, announced, airplay>>
    \/ /\ identity.at = "secret" /\ keys' = [keys EXCEPT !.secret = identity.secret]
       /\ identity' = [identity EXCEPT !.at = "ready"]
       /\ announced' = announced \cup {identity.public} /\ airplay' = TRUE
       /\ UNCHANGED generated

Identify == hap_init /\ UNCHANGED <<settingVars, web, firmware, file, stores, powerCuts>>

Stored == stores < MaxStores /\ stores' = stores + 1

(* A write to NVS either stores the value or finds no room.                *)
Writes(k, v) == nvs' = [nvs EXCEPT ![k] = v]
Fails == nvs' = nvs

(* settings_set_volume, by the sender or a button: RAM only.               *)
settings_set_volume(v) ==
    /\ airplay /\ v # ram.volume /\ Stored
    /\ ram' = [ram EXCEPT !.volume = v]
    /\ UNCHANGED <<nvs, persisting, identityVars, web, updateVars, powerCuts>>

(* settings_persist_volume, at the end of a client's task: it reads the    *)
(* copy, then stores what it read.                                         *)
settings_persist_volume(t) ==
    \/ /\ airplay /\ persisting[t] = NoVolume /\ ram.volume # Absent /\ Stored
       /\ persisting' = [persisting EXCEPT ![t] = ram.volume]
       /\ UNCHANGED <<nvs, ram, identityVars, web, updateVars, powerCuts>>
    \/ /\ persisting[t] # NoVolume
       /\ Writes("volume_db", persisting[t]) \/ Fails
       /\ persisting' = [persisting EXCEPT ![t] = NoVolume]
       /\ UNCHANGED <<ram, identityVars, web, updateVars, stores, powerCuts>>

(* settings_get_bt_volume loads the volume when it is first asked for.     *)
settings_get_bt_volume ==
    /\ ram.bt = Absent /\ nvs["bt_vol"] # Absent
    /\ ram' = [ram EXCEPT !.bt = nvs["bt_vol"]]
    /\ UNCHANGED <<nvs, persisting, identityVars, web, updateVars, stores, powerCuts>>

settings_set_bt_volume(v) ==
    /\ v # ram.bt /\ Stored
    /\ ram' = [ram EXCEPT !.bt = v]
    /\ UNCHANGED <<nvs, persisting, identityVars, web, updateVars, powerCuts>>

settings_persist_bt_volume ==
    /\ ram.bt # Absent /\ ram.bt # nvs["bt_vol"] /\ Stored
    /\ Writes("bt_vol", ram.bt) \/ Fails
    /\ UNCHANGED <<ram, persisting, identityVars, web, updateVars, powerCuts>>

(* A request arrives; the server has one task.                             *)
Request(op, where, ssid, pass, whole) ==
    /\ web.at = "idle" /\ Stored
    /\ web' = [op |-> op, at |-> where, ssid |-> ssid, pass |-> pass, whole |-> whole]
    /\ UNCHANGED <<settingVars, identityVars, updateVars, powerCuts>>

wifi_config_handler ==
    \E ssid, pass \in StoredValues : Request("wifi", "ssid", ssid, pass, TRUE)

(* settings_set_wifi_credentials: the name, then the password.             *)
settings_set_wifi_credentials ==
    \/ /\ web.at = "ssid"
       /\ \/ Writes("wifi_ssid", web.ssid) /\ web' = [web EXCEPT !.at = "pass"]
          \/ Fails /\ web' = WebIdle
    \/ /\ web.at = "pass"
       /\ \/ Writes("wifi_pass", web.pass) /\ web' = [web EXCEPT !.at = "restart"]
          \/ Fails /\ web' = WebIdle

StoreCredentials ==
    /\ settings_set_wifi_credentials
    /\ UNCHANGED <<ram, persisting, identityVars, updateVars, stores, powerCuts>>

(* The requests that store one entry: the name, the brightness, whose copy *)
(* changes only once it is stored, and the equaliser, which is not stored  *)
(* if it is the same.                                                      *)
settings_set_device_name(v) ==
    /\ web.at = "idle" /\ Stored
    /\ Writes("device_name", v) \/ Fails
    /\ UNCHANGED <<ram, persisting, identityVars, web, updateVars, powerCuts>>

settings_set_led_brightness(v) ==
    /\ web.at = "idle" /\ Stored
    /\ \/ Writes("led_bright", v) /\ ram' = [ram EXCEPT !.bright = v]
       \/ Fails /\ ram' = ram
    /\ UNCHANGED <<persisting, identityVars, web, updateVars, powerCuts>>

settings_set_eq_gains(v) ==
    /\ web.at = "idle" /\ v # ram.eq /\ Stored
    /\ \/ Writes("eq_gains", v) /\ ram' = [ram EXCEPT !.eq = v]
       \/ Fails /\ ram' = ram
    /\ UNCHANGED <<persisting, identityVars, web, updateVars, powerCuts>>

(* ota_update_handler: the RTSP server is stopped, then the firmware is    *)
(* received, whole or not, into RAM if there is room and into the other    *)
(* slot if not.                                                            *)
ota_update_handler ==
    \E whole \in BOOLEAN :
        /\ web.at = "idle" /\ Stored /\ airplay' = FALSE
        /\ web' = [WebIdle EXCEPT !.op = "ota", !.at = "receive", !.whole = whole]
        /\ UNCHANGED <<settingVars, identityVars, firmware, file, powerCuts>>

OtherSlot == 1 - firmware.running
OtherImage(i) == firmware' = [firmware EXCEPT !.image[OtherSlot] = i]
OtaGoes(where) == web' = [web EXCEPT !.at = where]

(* ota_buffered: receive all, look at it, then write it.  An image without *)
(* a hash passes the look whatever it holds.                               *)
ota_buffered ==
    \/ /\ web.at = "receive"
       /\ OtaGoes("write") \/ OtaGoes("failed")
       /\ UNCHANGED firmware
    \/ /\ web.at = "write" /\ OtherImage("partial") /\ (OtaGoes("end") \/ OtaGoes("failed"))

(* ota_streaming: write while receiving.                                   *)
ota_streaming ==
    /\ web.at = "receive" /\ OtherImage("partial")
    /\ OtaGoes("end") \/ OtaGoes("failed")

(* The ends of both: esp_ota_end checks the image, then it is made the one *)
(* to boot.                                                                *)
OtaEnds ==
    \/ /\ web.at = "end"
       /\ IF web.whole THEN OtherImage("whole") /\ (OtaGoes("boot") \/ OtaGoes("failed"))
                       ELSE OtaGoes("failed") /\ UNCHANGED firmware
    \/ /\ web.at = "boot"
       /\ \/ firmware' = [firmware EXCEPT !.boot = OtherSlot] /\ OtaGoes("restart")
          \/ OtaGoes("failed") /\ UNCHANGED firmware

(* An update that failed is answered with its error, and that is all.      *)
OtaFailed == web.at = "failed" /\ web' = WebIdle /\ UNCHANGED firmware

Update ==
    /\ web.op = "ota"
    /\ ota_buffered \/ ota_streaming \/ OtaEnds \/ OtaFailed
    /\ UNCHANGED <<settingVars, identityVars, airplay, file, stores, powerCuts>>

(* fs_upload_handler: the old file is gone when the new one is opened; it  *)
(* is removed if the rest does not come, and what fwrite returns is not    *)
(* looked at.                                                              *)
fs_upload_handler ==
    /\ \/ web.at = "idle" /\ Stored /\ file' = "partial"
          /\ web' = [WebIdle EXCEPT !.op = "upload", !.at = "receive"]
       \/ /\ web.op = "upload" /\ file' \in {"absent", "partial", "new"} /\ web' = WebIdle
          /\ stores' = stores
    /\ UNCHANGED <<settingVars, identityVars, firmware, airplay, powerCuts>>

fs_delete_handler ==
    /\ web.at = "idle" /\ file # "absent" /\ Stored /\ file' = "absent"
    /\ UNCHANGED <<settingVars, identityVars, web, firmware, airplay, powerCuts>>

system_restart_handler == Request("restart", "restart", Absent, Absent, TRUE)

(* esp_restart, after the delay of the three handlers that call it.        *)
Restart == web.at = "restart" /\ (\E kept \in BOOLEAN : Boot(kept)) /\ powerCuts' = powerCuts

StorageNext ==
    \/ PowerCut \/ Identify \/ Restart
    \/ \E v \in StoredValues : settings_set_volume(v) \/ settings_set_bt_volume(v)
    \/ \E t \in RtspTasks : settings_persist_volume(t)
    \/ settings_get_bt_volume \/ settings_persist_bt_volume
    \/ wifi_config_handler \/ StoreCredentials
    \/ \E v \in StoredValues : \/ settings_set_device_name(v) \/ settings_set_led_brightness(v)
                               \/ settings_set_eq_gains(v)
    \/ ota_update_handler \/ Update
    \/ fs_upload_handler \/ fs_delete_handler \/ system_restart_handler

StorageTypeOK ==
    /\ nvs \in [NvsKeys -> StoredValues \cup {Absent}]
    /\ keys \in [{"public", "secret"} -> Nat]
    /\ \A x \in {"volume", "bt", "eq", "bright"} : ram[x] \in StoredValues \cup {Absent}
    /\ persisting \in [RtspTasks -> StoredValues \cup {NoVolume}]
    /\ firmware.boot \in Slots /\ firmware.running \in Slots
    /\ airplay \in BOOLEAN /\ stores \in 0..MaxStores /\ powerCuts \in 0..MaxPowerCuts

(* Senders know the speaker by its key.  Whatever is cut off while the     *)
(* pair is made and stored, the pair in use is one pair, is the stored one *)
(* and, unless NVS was erased, the only one ever announced (hap_init).     *)
IdentityStays ==
    identity.at = "ready" => /\ identity.public = identity.secret
                             /\ keys = [public |-> identity.public, secret |-> identity.secret]
                             /\ announced = {identity.public}

(* The web server restarts the device for a request only when the device   *)
(* will start with all of what was asked for: both parts of the network's  *)
(* credentials, or a whole image in the boot slot, whichever write or      *)
(* check on the way fails (wifi_config_handler, ota_update_handler).       *)
RestartsAsAsked ==
    web.at = "restart" =>
        /\ web.op = "wifi" => nvs["wifi_ssid"] = web.ssid /\ nvs["wifi_pass"] = web.pass
        /\ web.op = "ota" => firmware.boot = OtherSlot /\ firmware.image[OtherSlot] = "whole"

(* The copies in RAM that claim to be stored are: the equaliser's and the  *)
(* brightness (settings_set_eq_gains, led_set_brightness).                 *)
CopiesAreStored == ram.eq = nvs["eq_gains"] /\ ram.bright = nvs["led_bright"]
=============================================================================
