----------------------------- MODULE XSettingsMap -----------------------------
(***************************************************************************)
(* A settings list as what it is to its users: a finite map from setting   *)
(* names to a value and the serial under which the value was last changed  *)
(* (XSettingsSetting and XSettingsList, edelib/XSettingsCommon.h).  The    *)
(* module XSettingsList shows that the sorted linked list of               *)
(* XSettingsCommon.cpp implements this map.                                *)
(***************************************************************************)
EXTENDS Integers

CONSTANTS
  Names,     \* setting names, such as "Fltk/Background"
  Values,    \* a type together with data: an int, a string or a colour
  MaxSerial  \* bound: serials a process publishes

ASSUME MaxSerialAssumption == MaxSerial \in Nat

Serial == 0..MaxSerial

(* A setting without its name.  last_change_serial is "stamp".             *)
Setting == [val : Values, stamp : Serial]

(* The lists a manager or a client can hold.                               *)
Settings == UNION {[S -> Setting] : S \in SUBSET Names}

(* settings = NULL                                                         *)
EmptySettings == [n \in {} |-> n]

(* Mutant: stamped with the serial after the next.                         *)
PutSettingLate(s, n, v, serial) ==
  IF n \in DOMAIN s /\ s[n].val = v
    THEN s
    ELSE [k \in DOMAIN s \cup {n} |->
            IF k = n THEN [val |-> v, stamp |-> serial + 1] ELSE s[k]]

(* Mutant: a changed value keeps the stamp of the old one.                 *)
PutSettingOldStamp(s, n, v, serial) ==
  [k \in DOMAIN s \cup {n} |->
     IF k = n THEN [val |-> v, stamp |-> IF n \in DOMAIN s THEN s[n].stamp ELSE serial]
              ELSE s[k]]

(* xsettings_manager_set_setting(): a value equal to the stored one leaves *)
(* the old setting, its stamp included; any other is stored under the      *)
(* serial the next notify will publish.                                    *)
PutSetting(s, n, v, serial) ==
  IF n \in DOMAIN s /\ s[n].val = v
    THEN s
    ELSE [k \in DOMAIN s \cup {n} |->
            IF k = n THEN [val |-> v, stamp |-> serial] ELSE s[k]]

(* xsettings_manager_delete_setting()                                      *)
DropSetting(s, n) == [k \in DOMAIN s \ {n} |-> s[k]]
===============================================================================
