-------------------------------- MODULE Boot --------------------------------
(***************************************************************************)
(* Boot decision, configuration in flash and setup portal: main.rs,        *)
(* config.rs, portal.rs.  At boot the main thread watches for two seconds  *)
(* whether Shift and MIDI are held, reads the configuration, and joins     *)
(* WiFi and starts the OSC engine, or opens the portal.  The portal writes *)
(* a submitted form key by key and restarts a second after its answer,     *)
(* while its HTTP server may be at work on another form already.  Power    *)
(* may be cut anywhere.                                                    *)
(*                                                                         *)
(* NVS writes a key atomically and keeps it (external).  A form value      *)
(* stands for a string; the sets below name the kinds that matter.         *)
(***************************************************************************)
EXTENDS Naturals, Sequences

CONSTANTS
  Forms,        \* what users submit: [ssid, pass, ip, port]
  Unset,        \* no value under a key
  Empty,        \* the empty string
  DefaultPort,  \* 9000
  TooLong,      \* strings longer than the 96 bytes Config::load reads into
  Networks,     \* [ssid, pass] that join
  Addresses,    \* ips that parse as an address
  Polls,        \* polls of the two buttons (20)
  MaxForms,     \* bound: forms submitted in a behaviour
  MaxCuts       \* bound: power cuts in a behaviour

KeyNames == {"ssid", "pass", "ip", "port"}

(* Mutant: the port is forgotten. *)
KeysNoPort == <<"ssid", "pass", "ip">>

Keys == <<"ssid", "pass", "ip", "port">>      \* in the order of Config::save

VARIABLES
  nvs,        \* the configuration keys in flash
  ram,        \* what a restart loses, below
  stored,     \* the last form written to its end (history)
  torn,       \* a later form was left between its keys (history)
  budget      \* bound: what is left of forms and cuts

vars == <<nvs, ram, stored, torn, budget>>

(* at        where the main thread is                                      *)
(* polls     polls of the escape hatch left                                *)
(* forced    force_portal                                                  *)
(* cfg       the configuration loaded, or Unset                            *)
(* form      the form the handler of /save is writing, or Unset            *)
(* written   how many of its keys it has written                           *)
(* answered  a restart thread sleeps its second                            *)
Booted == [at |-> "window", polls |-> Polls, forced |-> FALSE, cfg |-> Unset,
           form |-> Unset, written |-> 0, answered |-> FALSE]

(* Mutant: a key that is not set has no default. *)
Undefaulted(v, default) == v

OrElse(v, default) == IF v = Unset THEN default ELSE v

(* What Config::load makes of the keys *)
Loaded(keys) == [ssid |-> keys.ssid,
                 pass |-> OrElse(keys.pass, Empty),
                 ip   |-> OrElse(keys.ip, Empty),
                 port |-> OrElse(keys.port, DefaultPort)]

Values == UNION {{f[k] : k \in KeyNames} : f \in Forms}

ASSUME FormsAssumption ==
  /\ \A f \in Forms : f \in [KeyNames -> {f[k] : k \in KeyNames}]
  /\ Unset \notin Values \cup TooLong
  /\ Polls \in Nat \ {0}
  /\ MaxForms \in Nat /\ MaxCuts \in Nat
  /\ Unset \notin Forms

Config == [ssid : Values, pass : Values \cup {Empty}, ip : Values \cup {Empty},
           port : Values \cup {DefaultPort}]
Points == {"window", "load", "join", "start", "engine", "portal", "stopped"}
Ram    == [at : Points, polls : 0 .. Polls, forced : BOOLEAN,
           cfg : Config \cup {Unset}, form : Forms \cup {Unset},
           written : 0 .. Len(Keys), answered : BOOLEAN]

(* The main thread is at one of its points; a form is underway only in the *)
(* portal; flash holds values of submitted forms.                          *)
TypeOK ==
  /\ nvs \in [KeyNames -> Values \cup {Unset}]
  /\ ram \in Ram
  /\ (ram.form # Unset \/ ram.answered) => ram.at = "portal"
  /\ stored \in Forms \cup {Unset}
  /\ torn \in BOOLEAN
  /\ budget \in [forms : 0 .. MaxForms, cuts : 0 .. MaxCuts]

Init ==
  /\ nvs = [k \in KeyNames |-> Unset]
  /\ ram = Booted
  /\ stored = Unset
  /\ torn = FALSE
  /\ budget = [forms |-> MaxForms, cuts |-> MaxCuts]

-----------------------------------------------------------------------------
(* main *)

(* One poll of the escape hatch.  Whether the buttons read as held depends *)
(* on the controller's session, which may come up at any time or never.    *)
PollHatch ==
  /\ ram.at = "window"
  /\ ram.polls > 0
  /\ \E held \in BOOLEAN :
       ram' = [ram EXCEPT !.polls = @ - 1, !.forced = held,
                          !.at = IF held \/ ram.polls = 1 THEN "load" ELSE @]
  /\ UNCHANGED <<nvs, stored, torn, budget>>

Configured == nvs.ssid \notin {Unset, Empty}

(* Config::load reads ip and pass only when there is an ssid; a value that *)
(* does not fit its buffer is an error.                                    *)
LoadFails == \/ nvs.ssid \in TooLong
             \/ Configured /\ (nvs.pass \in TooLong \/ nvs.ip \in TooLong)

(* A load error is returned from main, also when the portal is forced.     *)
LoadStops ==
  /\ ram.at = "load"
  /\ LoadFails
  /\ ram' = [ram EXCEPT !.at = "stopped"]
  /\ UNCHANGED <<nvs, stored, torn, budget>>

OpenPortal ==
  /\ ram.at = "load"
  /\ ~LoadFails
  /\ ram.forced \/ ~Configured
  /\ ram' = [ram EXCEPT !.at = "portal"]
  /\ UNCHANGED <<nvs, stored, torn, budget>>

Load ==
  /\ ram.at = "load"
  /\ ~LoadFails
  /\ ~ram.forced /\ Configured
  /\ ram' = [ram EXCEPT !.at = "join", !.cfg = Loaded(nvs)]
  /\ UNCHANGED <<nvs, stored, torn, budget>>

(* Mutant: a join that fails is returned from main like other errors. *)
JoinOrStop ==
  /\ ram.at = "join"
  /\ \/ ram' = [ram EXCEPT !.at = "start"]
     \/ ram' = [ram EXCEPT !.at = "stopped"]
  /\ UNCHANGED <<nvs, stored, torn, budget>>

(* join_sta fails on credentials no network accepts, and when the network  *)
(* is away.                                                                *)
Join ==
  /\ ram.at = "join"
  /\ \/ /\ [ssid |-> ram.cfg.ssid, pass |-> ram.cfg.pass] \in Networks
        /\ ram' = [ram EXCEPT !.at = "start"]
     \/ ram' = [ram EXCEPT !.at = "portal"]
  /\ UNCHANGED <<nvs, stored, torn, budget>>

(* osc::start parses the target; a target that is no address ends main.    *)
StartEngine ==
  /\ ram.at = "start"
  /\ ram' = [ram EXCEPT !.at = IF ram.cfg.ip \in Addresses THEN "engine" ELSE "stopped"]
  /\ UNCHANGED <<nvs, stored, torn, budget>>

-----------------------------------------------------------------------------
(* The portal's /save *)

(* A form with an ssid is taken; one without changes nothing.              *)
Submit(f) ==
  /\ ram.at = "portal"
  /\ ram.form = Unset
  /\ f.ssid # Empty
  /\ budget.forms > 0
  /\ budget' = [budget EXCEPT !.forms = @ - 1]
  /\ ram' = [ram EXCEPT !.form = f, !.written = 0]
  /\ UNCHANGED <<nvs, stored, torn>>

Writing == ram.form # Unset /\ ram.written < Len(Keys)

(* Config::save writes the next key.                                       *)
WriteKey ==
  LET k == Keys[ram.written + 1]
      last == ram.written + 1 = Len(Keys)
  IN
  /\ Writing
  /\ nvs' = [nvs EXCEPT ![k] = ram.form[k]]
  /\ ram' = [ram EXCEPT !.written = @ + 1]
  /\ torn' = ~last
  /\ stored' = IF last THEN ram.form ELSE stored
  /\ UNCHANGED budget

(* A key that cannot be written ends the handler: no answer, no restart,   *)
(* and the keys before it stay.                                            *)
WriteFails ==
  /\ Writing
  /\ ram' = [ram EXCEPT !.form = Unset, !.written = 0]
  /\ UNCHANGED <<nvs, stored, torn, budget>>

(* The answer is sent and a thread started that restarts in a second.  The *)
(* handler is free for the next form meanwhile.                            *)
AnswerSaved ==
  /\ ram.form # Unset
  /\ ram.written = Len(Keys)
  /\ ram' = [ram EXCEPT !.form = Unset, !.written = 0, !.answered = TRUE]
  /\ UNCHANGED <<nvs, stored, torn, budget>>

-----------------------------------------------------------------------------
(* Restart and power *)

Restart ==
  /\ ram.answered
  /\ ram' = Booted
  /\ UNCHANGED <<nvs, stored, torn, budget>>

PowerCut ==
  /\ budget.cuts > 0
  /\ budget' = [budget EXCEPT !.cuts = @ - 1]
  /\ ram' = Booted
  /\ UNCHANGED <<nvs, stored, torn>>

Next ==
  \/ PollHatch \/ LoadStops \/ OpenPortal \/ Load \/ Join \/ StartEngine
  \/ \E f \in Forms : Submit(f)
  \/ WriteKey \/ WriteFails \/ AnswerSaved
  \/ Restart \/ PowerCut

Spec == Init /\ [][Next]_vars

-----------------------------------------------------------------------------
(* Properties *)

(***************************************************************************)
(* The engine runs what one form says, all of it, and of all forms the one *)
(* stored last, across restarts and power cuts, unless a later form was    *)
(* left between two of its keys: by a power cut, a failed write, or the    *)
(* restart an earlier form had asked for.                                  *)
(***************************************************************************)
EngineRunsStored == ram.at = "engine" => torn \/ ram.cfg = Loaded(stored)

(***************************************************************************)
(* Boot ends without engine and without portal only because of what is in  *)
(* flash: a target that is no address or a value too long to load, from    *)
(* the form stored last or from one left half written.  WiFi that does not *)
(* join never ends it.                                                     *)
(***************************************************************************)
StopsOnBadForm ==
  ram.at = "stopped" =>
    \/ torn
    \/ stored.ip \notin Addresses
    \/ {stored.ssid, stored.pass, stored.ip} \cap TooLong # {}
=============================================================================
