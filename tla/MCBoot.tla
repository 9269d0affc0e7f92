------------------------------- MODULE MCBoot -------------------------------
(* Two forms that work, one with a wrong password, one with a host name    *)
(* for the address, and one whose address is too long to load.             *)
EXTENDS Boot

F(s, p, i, o) == [ssid |-> s, pass |-> p, ip |-> i, port |-> o]

MCForms == {F("home", "right", "host1", "9000"),
            F("office", "other", "host2", "8000"),
            F("home", "wrong", "host1", "9000"),
            F("home", "right", "name", "9000"),
            F("office", "other", "long", "9000"),
            F("", "right", "host1", "9000")}

MCNetworks == {[ssid |-> "home", pass |-> "right"],
               [ssid |-> "office", pass |-> "other"]}
=============================================================================
