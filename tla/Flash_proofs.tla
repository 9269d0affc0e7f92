---------------------------- MODULE Flash_proofs -----------------------------
(***************************************************************************)
(* The two that work with what flash keeps: Boot, whose engine runs the    *)
(* configuration that was stored last, and ProfileSync, whose engine works *)
(* with the active profile as it was saved last, for any number of slots,  *)
(* any capacity of the event channel, any number of requests, switches and *)
(* power cuts.                                                             *)
(***************************************************************************)
EXTENDS Boot, ProfileSync, SequenceTheorems, TLAPS

-----------------------------------------------------------------------------
(* Boot                                                                    *)

LEMMA KeysLemma ==
  /\ Len(Keys) = 4
  /\ \A i \in 1 .. 4 : Keys[i] \in KeyNames
  /\ \A i, j \in 1 .. 4 : Keys[i] = Keys[j] => i = j
  /\ \A k \in KeyNames : \E i \in 1 .. 4 : Keys[i] = k
<1>1. /\ Len(Keys) = 4 /\ Keys[1] = "ssid" /\ Keys[2] = "pass"
      /\ Keys[3] = "ip" /\ Keys[4] = "port"
  BY DEF Keys
<1> QED BY <1>1 DEF KeyNames

LEMMA FormLemma ==
  ASSUME NEW f \in Forms
  PROVE  /\ f \in [KeyNames -> Values]
         /\ f # Unset
         /\ \A k \in KeyNames : f[k] \in Values /\ f[k] # Unset
<1>1. f \in [KeyNames -> {f[k] : k \in KeyNames}]
  BY FormsAssumption
<1>2. \A k \in KeyNames : f[k] \in Values
  BY DEF Values
<1>3. f \in [KeyNames -> Values]
  BY <1>1, <1>2
<1> QED BY <1>2, <1>3, FormsAssumption

(* A form's fields, by the names the code uses *)
LEMMA FieldLemma ==
  ASSUME NEW f \in [KeyNames -> Values \cup {Unset}]
  PROVE  /\ f.ssid = f["ssid"] /\ f.pass = f["pass"]
         /\ f.ip = f["ip"] /\ f.port = f["port"]
BY DEF KeyNames

LEMMA LoadedLemma ==
  ASSUME NEW f \in [KeyNames -> Values \cup {Unset}], f["ssid"] # Unset
  PROVE  Loaded(f) \in Config
<1>1. /\ f["ssid"] \in Values
      /\ \A k \in KeyNames : f[k] \in Values \cup {Unset}
  BY DEF KeyNames
<1>2. /\ OrElse(f["pass"], Empty) \in Values \cup {Empty}
      /\ OrElse(f["ip"], Empty) \in Values \cup {Empty}
      /\ OrElse(f["port"], DefaultPort) \in Values \cup {DefaultPort}
  BY <1>1 DEF OrElse, KeyNames
<1> QED BY <1>1, <1>2 DEF Loaded, Config

(* Changes of the handler's part of ram keep its type. *)
LEMMA FieldsLemma ==
  ASSUME NEW P, NEW N, NEW C, NEW F, NEW W, NEW f \in F, NEW w \in W, NEW a \in BOOLEAN,
         NEW r \in [at : P, polls : N, forced : BOOLEAN, cfg : C, form : F,
                    written : W, answered : BOOLEAN]
  PROVE  /\ [r EXCEPT !.form = f, !.written = w]
               \in [at : P, polls : N, forced : BOOLEAN, cfg : C, form : F,
                    written : W, answered : BOOLEAN]
         /\ [r EXCEPT !.form = f, !.written = w, !.answered = a]
               \in [at : P, polls : N, forced : BOOLEAN, cfg : C, form : F,
                    written : W, answered : BOOLEAN]
OBVIOUS

LEMMA HandlerLemma ==
  ASSUME NEW r \in Ram, NEW f \in Forms \cup {Unset}
  PROVE  /\ [r EXCEPT !.form = f, !.written = 0] \in Ram
         /\ [r EXCEPT !.form = f, !.written = 0, !.answered = TRUE] \in Ram
<1>1. 0 \in 0 .. Len(Keys)
  BY KeysLemma
<1> DEFINE F == Forms \cup {Unset}
           C == Config \cup {Unset}
           W == 0 .. Len(Keys)
<1>2. f \in F /\ 0 \in W
  BY <1>1
<1>3. r \in [at : Points, polls : 0 .. Polls, forced : BOOLEAN, cfg : C, form : F,
             written : W, answered : BOOLEAN]
  BY DEF Ram
<1> HIDE DEF F, C, W
<1>4. /\ [r EXCEPT !.form = f, !.written = 0]
           \in [at : Points, polls : 0 .. Polls, forced : BOOLEAN, cfg : C, form : F,
                written : W, answered : BOOLEAN]
      /\ [r EXCEPT !.form = f, !.written = 0, !.answered = TRUE]
           \in [at : Points, polls : 0 .. Polls, forced : BOOLEAN, cfg : C, form : F,
                written : W, answered : BOOLEAN]
  BY <1>2, <1>3, FieldsLemma, Zenon
<1> QED BY <1>4 DEF Ram, F, C, W

(***************************************************************************)
(* The state has its type.                                                 *)
(***************************************************************************)
THEOREM TypeCorrect == Spec => []TypeOK
<1>1. Init => TypeOK
  <2> SUFFICES ASSUME Init PROVE TypeOK
    OBVIOUS
  <2>1. /\ Len(Keys) = 4 /\ Polls \in Nat \ {0}
        /\ MaxForms \in Nat /\ MaxCuts \in Nat
    BY KeysLemma, FormsAssumption
  <2>2. ram \in Ram
    BY <2>1 DEF Init, Booted, Ram, Points
  <2>3. nvs \in [KeyNames -> Values \cup {Unset}]
    BY DEF Init
  <2>4. ram.form = Unset /\ ram.answered = FALSE
    BY DEF Init, Booted
  <2>5. budget \in [forms : 0 .. MaxForms, cuts : 0 .. MaxCuts]
    BY <2>1 DEF Init
  <2>6. stored = Unset /\ torn = FALSE
    BY DEF Init
  <2> QED BY <2>2, <2>3, <2>4, <2>5, <2>6 DEF TypeOK
<1>2. TypeOK /\ [Next]_vars => TypeOK'
  <2> SUFFICES ASSUME TypeOK, [Next]_vars PROVE TypeOK'
    OBVIOUS
  <2>0. Len(Keys) = 4 /\ Polls \in Nat /\ MaxForms \in Nat /\ MaxCuts \in Nat
    BY KeysLemma, FormsAssumption
  <2> USE <2>0
  <2>1. CASE PollHatch
    <3>1. PICK held \in BOOLEAN :
            ram' = [ram EXCEPT !.polls = @ - 1, !.forced = held,
                               !.at = IF held \/ ram.polls = 1 THEN "load" ELSE @]
      BY <2>1 DEF PollHatch
    <3>2. ram.polls - 1 \in 0 .. Polls
      BY <2>1 DEF PollHatch, TypeOK, Ram
    <3>3. ram.form = Unset /\ ram.answered = FALSE
      BY <2>1 DEF PollHatch, TypeOK, Ram
    <3> QED BY <2>1, <3>1, <3>2, <3>3 DEF PollHatch, TypeOK, Ram, Points
  <2>2. CASE LoadStops
    BY <2>2 DEF LoadStops, TypeOK, Ram, Points
  <2>3. CASE OpenPortal
    BY <2>3 DEF OpenPortal, TypeOK, Ram, Points
  <2>4. CASE Load
    <3>1. Loaded(nvs) \in Config
      BY <2>4, LoadedLemma, FieldLemma DEF Load, Configured, TypeOK
    <3> QED BY <2>4, <3>1 DEF Load, TypeOK, Ram, Points
  <2>5. CASE Join
    BY <2>5 DEF Join, TypeOK, Ram, Points
  <2>6. CASE StartEngine
    BY <2>6 DEF StartEngine, TypeOK, Ram, Points
  <2>7. CASE \E f \in Forms : Submit(f)
    <3>1. PICK f \in Forms : Submit(f)
      BY <2>7
    <3>2. ram' \in Ram
      BY <3>1, HandlerLemma DEF Submit, TypeOK
    <3>3. ram' \in Ram /\ ram'.at = "portal"
      BY <3>1, <3>2 DEF Submit, TypeOK, Ram
    <3>4. budget' \in [forms : 0 .. MaxForms, cuts : 0 .. MaxCuts]
      BY <3>1 DEF Submit, TypeOK
    <3> QED BY <3>1, <3>3, <3>4 DEF Submit, TypeOK
  <2>8. CASE WriteKey
    <3> DEFINE k == Keys[ram.written + 1]
    <3>1. /\ ram.form \in Forms /\ ram.form # Unset
          /\ ram.written \in 0 .. 3
          /\ ram.written + 1 \in 1 .. 4
      BY <2>8 DEF WriteKey, Writing, TypeOK, Ram
    <3>2. k \in KeyNames /\ ram.form[k] \in Values
      BY <3>1, FormLemma, KeysLemma
    <3>3. nvs' \in [KeyNames -> Values \cup {Unset}]
      BY <2>8, <3>2 DEF WriteKey, TypeOK
    <3>4. torn' \in BOOLEAN /\ stored' \in Forms \cup {Unset}
      BY <2>8, <3>1 DEF WriteKey, TypeOK
    <3>5. /\ ram' = [ram EXCEPT !.written = @ + 1] /\ UNCHANGED budget
          /\ ram.at = "portal"
      BY <2>8, <3>1 DEF WriteKey, TypeOK, Ram
    <3>6. ram.written + 1 \in 0 .. 4
      BY <3>1
    <3> QED BY <3>1, <3>3, <3>4, <3>5, <3>6 DEF TypeOK, Ram
  <2>9. CASE WriteFails
    <3>1. ram.at = "portal"
      BY <2>9 DEF WriteFails, Writing, TypeOK
    <3>2. ram' \in Ram
      BY <2>9, HandlerLemma DEF WriteFails, TypeOK
    <3>3. ram' \in Ram /\ ram'.at = "portal"
      BY <2>9, <3>1, <3>2 DEF WriteFails, TypeOK, Ram
    <3> QED BY <2>9, <3>3 DEF WriteFails, TypeOK
  <2>10. CASE AnswerSaved
    <3>1. ram.at = "portal"
      BY <2>10 DEF AnswerSaved, TypeOK
    <3>2. ram' \in Ram
      BY <2>10, HandlerLemma DEF AnswerSaved, TypeOK
    <3>3. ram' \in Ram /\ ram'.at = "portal"
      BY <2>10, <3>1, <3>2 DEF AnswerSaved, TypeOK, Ram
    <3> QED BY <2>10, <3>3 DEF AnswerSaved, TypeOK
  <2>11. CASE Restart
    BY <2>11 DEF Restart, Booted, TypeOK, Ram, Points
  <2>12. CASE PowerCut
    BY <2>12 DEF PowerCut, Booted, TypeOK, Ram, Points
  <2>13. CASE UNCHANGED vars
    BY <2>13 DEF vars, TypeOK
  <2> QED BY <2>1, <2>2, <2>3, <2>4, <2>5, <2>6, <2>7, <2>8, <2>9, <2>10,
             <2>11, <2>12, <2>13 DEF Next
<1> QED BY <1>1, <1>2, PTL DEF Spec

-----------------------------------------------------------------------------
(***************************************************************************)
(* What flash holds while nothing is torn, what of the form underway it    *)
(* holds, and what the boot underway has read of it.                       *)
(***************************************************************************)
FlashIsStored ==
  ~torn => \A k \in KeyNames : nvs[k] = IF stored = Unset THEN Unset ELSE stored[k]

KeysWritten ==
  ram.form # Unset => \A i \in 1 .. ram.written : nvs[Keys[i]] = ram.form[Keys[i]]

LoadedIsStored ==
  ram.at \in {"join", "start", "engine"} =>
    torn \/ (stored # Unset /\ ram.cfg = Loaded(stored))

BInv == FlashIsStored /\ KeysWritten /\ LoadedIsStored /\ StopsOnBadForm

(* A boot reads what is stored. *)
LEMMA LoadLemma ==
  ASSUME TypeOK, FlashIsStored, ~torn
  PROVE  /\ nvs.ssid # Unset => stored # Unset
         /\ stored # Unset => /\ Loaded(nvs) = Loaded(stored)
                              /\ nvs.ssid = stored.ssid
                              /\ nvs.pass = stored.pass
                              /\ nvs.ip = stored.ip
                              /\ Loaded(stored).ip = stored.ip
<1>1. /\ nvs.ssid = nvs["ssid"] /\ nvs.pass = nvs["pass"]
      /\ nvs.ip = nvs["ip"] /\ nvs.port = nvs["port"]
  BY FieldLemma DEF TypeOK
<1>2. CASE stored = Unset
  BY <1>1, <1>2 DEF FlashIsStored, KeyNames
<1>3. CASE stored # Unset
  <2>1. stored \in Forms
    BY <1>3 DEF TypeOK
  <2>2. stored \in [KeyNames -> Values] /\ stored["ip"] # Unset
    BY <2>1, FormLemma DEF KeyNames
  <2>3. /\ stored.ssid = stored["ssid"] /\ stored.pass = stored["pass"]
        /\ stored.ip = stored["ip"] /\ stored.port = stored["port"]
    BY <2>2 DEF KeyNames
  <2>4. /\ nvs["ssid"] = stored["ssid"] /\ nvs["pass"] = stored["pass"]
        /\ nvs["ip"] = stored["ip"] /\ nvs["port"] = stored["port"]
    BY <1>3 DEF FlashIsStored, KeyNames
  <2> QED BY <1>1, <1>3, <2>2, <2>3, <2>4 DEF Loaded, OrElse
<1> QED BY <1>2, <1>3

(* Steps that touch neither flash nor history nor form keep the rest. *)
LEMMA MainLemma ==
  ASSUME FlashIsStored, KeysWritten, UNCHANGED <<nvs, stored, torn>>,
         \/ ram'.form = Unset
         \/ ram'.form = ram.form /\ ram'.written = ram.written
  PROVE  FlashIsStored' /\ KeysWritten'
BY DEF FlashIsStored, KeysWritten

LEMMA BInvLemma == Spec => []BInv
<1>1. Init => BInv
  BY DEF Init, Booted, BInv, FlashIsStored, KeysWritten, LoadedIsStored, StopsOnBadForm
<1>2. TypeOK /\ BInv /\ [Next]_vars => BInv'
  <2> SUFFICES ASSUME TypeOK, BInv, [Next]_vars PROVE BInv'
    OBVIOUS
  <2>0. FlashIsStored /\ KeysWritten /\ LoadedIsStored /\ StopsOnBadForm
    BY DEF BInv
  <2>1. CASE PollHatch
    <3>1. PICK held \in BOOLEAN :
            ram' = [ram EXCEPT !.polls = @ - 1, !.forced = held,
                               !.at = IF held \/ ram.polls = 1 THEN "load" ELSE @]
      BY <2>1 DEF PollHatch
    <3>2. /\ ram'.form = ram.form /\ ram'.written = ram.written
          /\ ram'.at \in {"load", "window"}
          /\ UNCHANGED <<nvs, stored, torn>>
      BY <2>1, <3>1 DEF PollHatch, TypeOK, Ram
    <3> QED BY <2>0, <3>2, MainLemma DEF BInv, LoadedIsStored, StopsOnBadForm
  <2>2. CASE LoadStops
    <3>1. /\ ram'.form = ram.form /\ ram'.written = ram.written
          /\ ram'.at = "stopped"
          /\ UNCHANGED <<nvs, stored, torn>>
      BY <2>2 DEF LoadStops, TypeOK, Ram
    <3>2. ~torn => {stored.ssid, stored.pass, stored.ip} \cap TooLong # {}
      <4> SUFFICES ASSUME ~torn
                   PROVE  {stored.ssid, stored.pass, stored.ip} \cap TooLong # {}
        OBVIOUS
      <4>1. Unset \notin TooLong
        BY FormsAssumption
      <4>2. nvs.ssid # Unset
        BY <2>2, <4>1 DEF LoadStops, LoadFails, Configured
      <4>3. /\ nvs.ssid = stored.ssid /\ nvs.pass = stored.pass
            /\ nvs.ip = stored.ip
        BY <2>0, <4>2, LoadLemma
      <4> QED BY <2>2, <4>3 DEF LoadStops, LoadFails
    <3>3. StopsOnBadForm'
      BY <3>1, <3>2 DEF StopsOnBadForm
    <3> QED BY <2>0, <3>1, <3>3, MainLemma DEF BInv, LoadedIsStored
  <2>3. CASE OpenPortal
    <3>1. /\ ram'.form = ram.form /\ ram'.written = ram.written
          /\ ram'.at = "portal"
          /\ UNCHANGED <<nvs, stored, torn>>
      BY <2>3 DEF OpenPortal, TypeOK, Ram
    <3> QED BY <2>0, <3>1, MainLemma DEF BInv, LoadedIsStored, StopsOnBadForm
  <2>4. CASE Load
    <3>1. /\ ram'.form = ram.form /\ ram'.written = ram.written
          /\ ram'.at = "join" /\ ram'.cfg = Loaded(nvs)
          /\ UNCHANGED <<nvs, stored, torn>>
      BY <2>4 DEF Load, TypeOK, Ram
    <3>2. nvs.ssid # Unset
      BY <2>4 DEF Load, Configured
    <3>3. torn \/ (stored # Unset /\ ram'.cfg = Loaded(stored))
      BY <2>0, <3>1, <3>2, LoadLemma
    <3>4. LoadedIsStored'
      BY <3>1, <3>3 DEF LoadedIsStored
    <3> QED BY <2>0, <3>1, <3>4, MainLemma DEF BInv, StopsOnBadForm
  <2>5. CASE Join
    <3>1. /\ ram'.form = ram.form /\ ram'.written = ram.written
          /\ ram'.at \in {"start", "portal"} /\ ram'.cfg = ram.cfg
          /\ ram.at = "join"
          /\ UNCHANGED <<nvs, stored, torn>>
      BY <2>5 DEF Join, TypeOK, Ram
    <3>2. LoadedIsStored'
      BY <2>0, <3>1 DEF LoadedIsStored
    <3> QED BY <2>0, <3>1, <3>2, MainLemma DEF BInv, StopsOnBadForm
  <2>6. CASE StartEngine
    <3>1. /\ ram'.form = ram.form /\ ram'.written = ram.written
          /\ ram'.cfg = ram.cfg
          /\ ram.at = "start"
          /\ ram'.at = IF ram.cfg.ip \in Addresses THEN "engine" ELSE "stopped"
          /\ UNCHANGED <<nvs, stored, torn>>
      BY <2>6 DEF StartEngine, TypeOK, Ram
    <3>2. torn \/ (stored # Unset /\ ram.cfg = Loaded(stored))
      BY <2>0, <3>1 DEF LoadedIsStored
    <3>3. torn \/ ram.cfg.ip = stored.ip
      BY <2>0, <3>2, LoadLemma
    <3>4. LoadedIsStored'
      BY <3>1, <3>2 DEF LoadedIsStored
    <3>5. StopsOnBadForm'
      BY <3>1, <3>3 DEF StopsOnBadForm
    <3> QED BY <2>0, <3>1, <3>4, <3>5, MainLemma DEF BInv
  <2>7. CASE \E f \in Forms : Submit(f)
    <3>1. /\ ram'.written = 0 /\ ram'.at = "portal"
          /\ UNCHANGED <<nvs, stored, torn>>
      BY <2>7 DEF Submit, TypeOK, Ram
    <3>2. FlashIsStored'
      BY <2>0, <3>1 DEF FlashIsStored
    <3>3. KeysWritten'
      BY <3>1 DEF KeysWritten
    <3> QED BY <3>1, <3>2, <3>3 DEF BInv, LoadedIsStored, StopsOnBadForm
  <2>8. CASE WriteKey
    <3> DEFINE n == ram.written + 1
    <3>1. /\ ram.form \in Forms /\ ram.form # Unset
          /\ ram.written \in 0 .. 3 /\ ram.at = "portal"
      BY <2>8, KeysLemma DEF WriteKey, Writing, TypeOK, Ram
    <3>2. /\ ram'.form = ram.form /\ ram'.written = n /\ ram'.at = "portal"
          /\ nvs' = [nvs EXCEPT ![Keys[n]] = ram.form[Keys[n]]]
          /\ torn' = ~(n = 4)
          /\ stored' = IF n = 4 THEN ram.form ELSE stored
      BY <2>8, <3>1, KeysLemma DEF WriteKey, TypeOK, Ram
    <3>3. n \in 1 .. 4
      BY <3>1
    <3>4. \A i \in 1 .. n : nvs'[Keys[i]] = ram.form[Keys[i]]
      <4> SUFFICES ASSUME NEW i \in 1 .. n PROVE nvs'[Keys[i]] = ram.form[Keys[i]]
        OBVIOUS
      <4>1. i \in 1 .. 4 /\ Keys[i] \in KeyNames
        BY <3>3, KeysLemma
      <4>2. CASE i = n
        BY <3>2, <4>1, <4>2 DEF TypeOK
      <4>3. CASE i # n
        <5>1. i \in 1 .. ram.written
          BY <3>1, <4>3
        <5>2. Keys[i] # Keys[n]
          BY <3>3, <4>1, <4>3, KeysLemma
        <5>3. nvs[Keys[i]] = ram.form[Keys[i]]
          BY <2>0, <3>1, <5>1 DEF KeysWritten
        <5> QED BY <3>2, <4>1, <5>2, <5>3 DEF TypeOK
      <4> QED BY <4>2, <4>3
    <3>5. KeysWritten'
      BY <3>2, <3>4 DEF KeysWritten
    <3>6. FlashIsStored'
      <4> SUFFICES ASSUME n = 4
                   PROVE  \A k \in KeyNames : nvs'[k] = stored'[k]
        BY <3>1, <3>2 DEF FlashIsStored
      <4>1. stored' = ram.form /\ \A i \in 1 .. 4 : nvs'[Keys[i]] = ram.form[Keys[i]]
        BY <3>2, <3>4
      <4> QED BY <4>1, KeysLemma
    <3> QED BY <3>2, <3>5, <3>6 DEF BInv, LoadedIsStored, StopsOnBadForm
  <2>9. CASE WriteFails
    <3>1. /\ ram'.form = Unset /\ ram'.at = "portal"
          /\ UNCHANGED <<nvs, stored, torn>>
      BY <2>9 DEF WriteFails, Writing, TypeOK, Ram
    <3> QED BY <2>0, <3>1, MainLemma DEF BInv, LoadedIsStored, StopsOnBadForm
  <2>10. CASE AnswerSaved
    <3>1. /\ ram'.form = Unset /\ ram'.at = "portal"
          /\ UNCHANGED <<nvs, stored, torn>>
      BY <2>10 DEF AnswerSaved, TypeOK, Ram
    <3> QED BY <2>0, <3>1, MainLemma DEF BInv, LoadedIsStored, StopsOnBadForm
  <2>11. CASE Restart \/ PowerCut
    <3>1. /\ ram'.form = Unset /\ ram'.at = "window"
          /\ UNCHANGED <<nvs, stored, torn>>
      BY <2>11 DEF Restart, PowerCut, Booted
    <3> QED BY <2>0, <3>1, MainLemma DEF BInv, LoadedIsStored, StopsOnBadForm
  <2>12. CASE UNCHANGED vars
    BY <2>0, <2>12 DEF vars, BInv, FlashIsStored, KeysWritten, LoadedIsStored,
                       StopsOnBadForm
  <2> QED BY <2>1, <2>2, <2>3, <2>4, <2>5, <2>6, <2>7, <2>8, <2>9, <2>10,
             <2>11, <2>12 DEF Next
<1> QED BY <1>1, <1>2, TypeCorrect, PTL DEF Spec

(***************************************************************************)
(* The engine runs the form stored last, unless a later one is torn.       *)
(***************************************************************************)
THEOREM EngineRuns == Spec => []EngineRunsStored
<1>1. BInv => EngineRunsStored
  BY DEF BInv, LoadedIsStored, EngineRunsStored
<1> QED BY <1>1, BInvLemma, PTL

(***************************************************************************)
(* Boot stops without engine and portal only on a bad or a torn form.      *)
(***************************************************************************)
THEOREM StopsExplained == Spec => []StopsOnBadForm
<1>1. BInv => StopsOnBadForm
  BY DEF BInv
<1> QED BY <1>1, BInvLemma, PTL

-----------------------------------------------------------------------------
(* ProfileSync: types                                                      *)

LEMMA ChanType == SyncTypeOK => chan \in Seq(Event) /\ Len(chan) \in Nat /\ Len(chan) <= ChanCap
  BY DEF SyncTypeOK

(* Appending to a channel that is not full, and taking from it.            *)
LEMMA AppendType ==
    ASSUME SyncTypeOK, ~Full, NEW e \in Event
    PROVE  /\ Append(chan, e) \in Seq(Event) /\ Len(Append(chan, e)) <= ChanCap
           /\ Len(Append(chan, e)) = Len(chan) + 1
           /\ \A i \in 1 .. Len(chan) : Append(chan, e)[i] = chan[i]
           /\ Append(chan, e)[Len(chan) + 1] = e
  BY ChanType, AppendProperties, BoundAssumption DEF Full

LEMMA TailType ==
    ASSUME SyncTypeOK, chan # <<>>
    PROVE  /\ Head(chan) \in Event /\ Tail(chan) \in Seq(Event) /\ Len(Tail(chan)) <= ChanCap
           /\ Len(Tail(chan)) = Len(chan) - 1 /\ Head(chan) = chan[1]
           /\ \A i \in 1 .. Len(Tail(chan)) : Tail(chan)[i] = chan[i + 1]
  BY ChanType, HeadTailProperties, BoundAssumption

LEMMA SyncTypeInit == SyncInit => SyncTypeOK
<1> SUFFICES ASSUME SyncInit PROVE SyncTypeOK
  OBVIOUS
<1>1. chan \in Seq(Event) /\ Len(chan) <= ChanCap
  BY BoundAssumption DEF SyncInit
<1>2. saves \in 0 .. MaxSaves /\ ops \in 0 .. MaxOps /\ 0 \in 0 .. MaxSaves
  BY BoundAssumption DEF SyncInit
<1> QED
  BY <1>1, <1>2, SlotAssumption DEF SyncInit, Default, SyncTypeOK

LEMMA SyncTypeStep == SyncTypeOK /\ [SyncNext]_syncVars => SyncTypeOK'
<1> SUFFICES ASSUME SyncTypeOK, [SyncNext]_syncVars PROVE SyncTypeOK'
  OBVIOUS
<1> USE DEF flash, bounds, history
<1>1. ASSUME NEW s \in Slots, Save(s) PROVE SyncTypeOK'
  BY <1>1, BoundAssumption DEF Save, SyncTypeOK
<1>2. ASSUME NEW s \in Slots, Activate(s) PROVE SyncTypeOK'
  BY <1>2, BoundAssumption DEF Activate, SyncTypeOK
<1>3. CASE Compare
  BY <1>3 DEF Compare, SlotRead, SyncTypeOK
<1>4. CASE Publish
  <2>1. chan' \in Seq(Event) /\ Len(chan') <= ChanCap
    <3>1. Reload \in Event
      BY DEF Event
    <3> QED
      BY <1>4, <3>1, AppendType, ChanType DEF Publish
  <2>2. web' \in [pc : {"idle", "compare", "publish"}, slot : Slots]
    BY <1>4 DEF Publish, SyncTypeOK
  <2>3. dropped' \in BOOLEAN
    BY <1>4 DEF Publish, SyncTypeOK
  <2>4. UNCHANGED <<active, version, saves, ops, eng, misread>>
    BY <1>4 DEF Publish
  <2> QED
    BY <2>1, <2>2, <2>3, <2>4 DEF SyncTypeOK
<1>5. ASSUME NEW e \in Event, Elsewhere(e) PROVE SyncTypeOK'
  BY <1>5, AppendType DEF Elsewhere, SyncTypeOK
<1>6. CASE TakeOther
  BY <1>6, TailType DEF TakeOther, SyncTypeOK
<1>7. CASE TakeReload
  BY <1>7, TailType DEF TakeReload, SyncTypeOK
<1>8. CASE TakeSwitch
  <2>1. Head(chan) \in Event /\ Tail(chan) \in Seq(Event) /\ Len(Tail(chan)) <= ChanCap
    BY <1>8, TailType DEF TakeSwitch
  <2>2. Head(chan).slot \in Slots
    BY <1>8, <2>1 DEF TakeSwitch, Event, Reload, Other, Switch
  <2> QED
    BY <1>8, <2>1, <2>2 DEF TakeSwitch, SyncTypeOK
<1>9. CASE ReadActive
  BY <1>9, SlotAssumption DEF ReadActive, SlotRead, SyncTypeOK
<1>10. CASE LoadProfile
  <2>1. PICK read \in {version[eng.slot], Default} :
          /\ eng' = [eng EXCEPT !.pc = "idle", !.profile = read]
          /\ misread' = (misread \/ read # version[eng.slot])
    BY <1>10 DEF LoadProfile
  <2>2. read \in 0 .. MaxSaves
    BY <2>1, BoundAssumption DEF Default, SyncTypeOK
  <2>3. eng' \in [pc : {"idle", "active", "load"}, slot : Slots, profile : 0 .. MaxSaves]
    BY <2>1, <2>2 DEF SyncTypeOK
  <2>4. misread' \in BOOLEAN
    BY <2>1
  <2> QED
    BY <1>10, <2>3, <2>4 DEF LoadProfile, SyncTypeOK
<1>11. CASE PowerCycle
  <2>1. chan' \in Seq(Event) /\ Len(chan') <= ChanCap /\ 0 \in 0 .. MaxSaves
    BY <1>11, BoundAssumption DEF PowerCycle
  <2> QED
    BY <1>11, <2>1, SlotAssumption DEF PowerCycle, Default, SyncTypeOK
<1>12. CASE UNCHANGED syncVars
  BY <1>12 DEF syncVars, SyncTypeOK
<1> QED
  BY <1>1, <1>2, <1>3, <1>4, <1>5, <1>6, <1>7, <1>8, <1>9, <1>10, <1>11, <1>12
     DEF SyncNext, WebStep, EngineStep, Request

(* Every variable of ProfileSync keeps its type.                           *)
THEOREM SyncTypeCorrect == SyncSpec => []SyncTypeOK
  BY SyncTypeInit, SyncTypeStep, PTL DEF SyncSpec

-----------------------------------------------------------------------------
(* The engine and the flash.  EngineFollowsFlash speaks of the moments in  *)
(* which both threads are at rest; in between a stale engine has a cause   *)
(* that will make it reload.                                               *)

(* The engine is about to read flash, or will be told to, or a failed read *)
(* stands.                                                                 *)
Refreshing == eng.pc = "active" \/ Pending \/ dropped \/ misread

(* The copy of the active profile is the saved one, or the web thread has  *)
(* yet to find out that the slot it saved is the active one.               *)
CopyIsCurrent ==
    \/ eng.pc = "load"
    \/ eng.profile = version[active]
    \/ web.pc = "compare" /\ web.slot = active

Followed == Refreshing \/ (eng.slot = active /\ CopyIsCurrent)

LEMMA FollowedInit == SyncInit => Followed
  BY DEF SyncInit, Followed, Refreshing

(* A Reload in the channel stays there until the engine takes it.          *)
LEMMA PendingKept ==
    ASSUME SyncTypeOK, Pending, UNCHANGED web,
           \/ UNCHANGED chan
           \/ ~Full /\ \E e \in Event : chan' = Append(chan, e)
           \/ chan # <<>> /\ Head(chan).event # "reload" /\ chan' = Tail(chan)
    PROVE  Pending'
<1>1. CASE web.pc = "publish"
  BY <1>1 DEF Pending
<1>2. ASSUME NEW i \in DOMAIN chan, chan[i] = Reload PROVE Pending'
  <2>1. i \in 1 .. Len(chan) /\ Len(chan) \in Nat
    BY <1>2, ChanType
  <2>2. CASE UNCHANGED chan
    BY <1>2, <2>2 DEF Pending
  <2>3. ASSUME NEW e \in Event, ~Full, chan' = Append(chan, e) PROVE Pending'
    <3>1. chan'[i] = Reload /\ i \in 1 .. Len(chan') /\ chan' \in Seq(Event)
      BY <1>2, <2>1, <2>3, AppendType
    <3> QED
      BY <3>1 DEF Pending
  <2>4. CASE chan # <<>> /\ Head(chan).event # "reload" /\ chan' = Tail(chan)
    <3>1. Head(chan) = chan[1] /\ Reload.event = "reload"
      BY <2>4, TailType DEF Reload
    <3>4. i # 1
      BY <1>2, <2>4, <3>1
    <3>2. i - 1 \in 1 .. Len(chan') /\ chan'[i - 1] = chan[i - 1 + 1] /\ chan' \in Seq(Event)
      <4>1. Len(Tail(chan)) = Len(chan) - 1 /\ Tail(chan) \in Seq(Event)
        BY <2>4, TailType
      <4>2. i - 1 \in 1 .. Len(Tail(chan))
        BY <2>1, <3>4, <4>1
      <4> QED
        BY <2>4, <4>1, <4>2, TailType
    <3>3. chan'[i - 1] = Reload
      BY <1>2, <2>1, <3>2
    <3> QED
      BY <3>2, <3>3 DEF Pending
  <2> QED
    BY <2>2, <2>3, <2>4
<1> QED
  BY <1>1, <1>2 DEF Pending

LEMMA FollowedStep == SyncTypeOK /\ Followed /\ [SyncNext]_syncVars => Followed'
<1> SUFFICES ASSUME SyncTypeOK, Followed, [SyncNext]_syncVars PROVE Followed'
  OBVIOUS
<1> USE DEF flash, bounds, history
<1>1. ASSUME NEW s \in Slots, Save(s) PROVE Followed'
  <2>1. UNCHANGED <<active, chan, eng, history>> /\ web' = [pc |-> "compare", slot |-> s]
        /\ web.pc = "idle"
    BY <1>1 DEF Save
  <2>2. CASE Refreshing
    BY <2>1, <2>2 DEF Followed, Refreshing, Pending
  <2>3. CASE eng.slot = active /\ CopyIsCurrent
    <3>1. s # active => version'[active] = version[active]
      BY <1>1 DEF Save, SyncTypeOK
    <3> QED
      BY <2>1, <2>3, <3>1 DEF Followed, CopyIsCurrent
  <2> QED
    BY <2>2, <2>3 DEF Followed
<1>2. ASSUME NEW s \in Slots, Activate(s) PROVE Followed'
  BY <1>2 DEF Activate, Followed, Refreshing, Pending
<1>3. CASE Compare
  <2>1. UNCHANGED <<active, version, chan, eng, dropped>> /\ web.pc = "compare"
    BY <1>3 DEF Compare
  <2>2. (misread => misread') /\ (web.slot = active => web'.pc = "publish" \/ misread')
    BY <1>3 DEF Compare, SyncTypeOK
  <2> QED
    BY <2>1, <2>2 DEF Followed, Refreshing, Pending, CopyIsCurrent
<1>4. CASE Publish
  <2>1. CASE Full
    BY <1>4, <2>1 DEF Publish, Followed, Refreshing
  <2>2. CASE ~Full
    <3>1. Reload \in Event
      BY DEF Event
    <3>2. chan' = Append(chan, Reload)
      BY <1>4, <2>2 DEF Publish
    <3>3. chan' \in Seq(Event) /\ Len(chan) + 1 \in 1 .. Len(chan') /\ chan'[Len(chan) + 1] = Reload
      BY <2>2, <3>1, <3>2, AppendType, ChanType
    <3> QED
      BY <3>3 DEF Followed, Refreshing, Pending
  <2> QED
    BY <2>1, <2>2
<1>5. ASSUME NEW e \in Event, Elsewhere(e) PROVE Followed'
  <2>1. UNCHANGED <<active, version, web, eng, history>>
    BY <1>5 DEF Elsewhere
  <2>2. Pending => Pending'
    BY <1>5, <2>1, PendingKept DEF Elsewhere
  <2> QED
    BY <2>1, <2>2 DEF Followed, Refreshing, CopyIsCurrent
<1>6. CASE TakeOther
  <2>1. UNCHANGED <<active, version, web, eng, history>>
    BY <1>6 DEF TakeOther
  <2>2. Pending => Pending'
    BY <1>6, <2>1, PendingKept DEF TakeOther
  <2> QED
    BY <2>1, <2>2 DEF Followed, Refreshing, CopyIsCurrent
<1>7. CASE TakeReload \/ TakeSwitch
  BY <1>7 DEF TakeReload, TakeSwitch, SyncTypeOK, Followed, Refreshing
<1>8. CASE ReadActive
  BY <1>8 DEF ReadActive, SyncTypeOK, Followed, Refreshing, CopyIsCurrent
<1>9. CASE LoadProfile
  <2>1. UNCHANGED <<active, version, web, chan, dropped>> /\ eng.pc = "load"
        /\ eng'.slot = eng.slot /\ (misread => misread')
        /\ (eng'.profile = version[eng.slot] \/ misread')
    BY <1>9 DEF LoadProfile, SyncTypeOK
  <2> QED
    BY <2>1 DEF Followed, Refreshing, Pending, CopyIsCurrent
<1>10. CASE PowerCycle
  BY <1>10 DEF PowerCycle, Followed, Refreshing
<1>11. CASE UNCHANGED syncVars
  BY <1>11 DEF syncVars, Followed, Refreshing, Pending, CopyIsCurrent
<1> QED
  BY <1>1, <1>2, <1>3, <1>4, <1>5, <1>6, <1>7, <1>8, <1>9, <1>10, <1>11
     DEF SyncNext, WebStep, EngineStep, Request

(* With both threads at rest and no Reload dropped or on its way the engine*)
(* works with the active profile as it was saved last.                     *)
THEOREM EngineFollows == SyncSpec => []EngineFollowsFlash
<1>1. SyncTypeOK /\ Followed => EngineFollowsFlash
  BY DEF Followed, Refreshing, CopyIsCurrent, EngineFollowsFlash
<1>2. SyncSpec => []Followed
  BY SyncTypeCorrect, FollowedInit, FollowedStep, PTL DEF SyncSpec
<1> QED
  BY <1>1, <1>2, SyncTypeCorrect, PTL

=============================================================================
