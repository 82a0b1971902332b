---------------------------- MODULE WebPages_proofs ----------------------------
(***************************************************************************)
(* Theorems about four of the web pages, for any number of requests and    *)
(* any bounds: what the address form says about delivery is about the      *)
(* pincode in it, and the page of addresses lists the book; the terminal   *)
(* of order logs neither pretends to be live nor has a gap; the list of    *)
(* products hides nothing; the tables that an admin edits show what is     *)
(* stored.  The last section puts the pages together.                      *)
(***************************************************************************)
EXTENDS MCWebPages, FiniteSetTheorems, SequenceTheorems, TLAPS

----------------------------------------------------------------------------
(* The address form. *)

\* The questions under way are about pincodes, and about the one in the form
\* unless it has changed since; a timer runs for a pincode.
Asked ==
    /\ \A c \in checks : c.pin \in Pins
    /\ timeout => pincode \in Pins
    /\ ~retyped => \A c \in checks : c.pin = pincode

FormInv == Asked /\ VerdictIsOfThePincode

\* A form that is filled anew knows nothing of its pincode.
LEMMA ResetKeepsForm ==
  ASSUME FormInv, NEW pin, NEW mark, ResetForm(pin, mark), checks' = checks
  PROVE  FormInv'
  BY DEF FormInv, Asked, VerdictIsOfThePincode, ResetForm

\* A step that leaves the form and its questions alone.
LEMMA RestKeepsForm ==
  ASSUME FormInv, UNCHANGED <<pincode, touched, timeout, validation, checks, retyped>>
  PROVE  FormInv'
  BY DEF FormInv, Asked, VerdictIsOfThePincode

LEMMA TypingKeepsForm == FormInv /\ ChangePincode => FormInv'
<1> SUFFICES ASSUME FormInv, ChangePincode PROVE FormInv'
  OBVIOUS
<1>1. PICK p \in Pins \cup {Short} :
          /\ pincode' = p /\ timeout' = (p # Short)
          /\ validation' = IF p = Short THEN NoVerdict ELSE validation
  BY DEF ChangePincode
<1>2. checks' = checks /\ retyped' = (retyped \/ checks # {})
  BY DEF ChangePincode
<1>3. Asked'
  BY <1>1, <1>2 DEF FormInv, Asked
<1>4. VerdictIsOfThePincode'
  BY <1>1 DEF VerdictIsOfThePincode
<1> QED
  BY <1>3, <1>4 DEF FormInv

LEMMA AskingKeepsForm == FormInv /\ ValidatePincode => FormInv'
<1> SUFFICES ASSUME FormInv, ValidatePincode PROVE FormInv'
  OBVIOUS
<1>1. /\ timeout /\ ~timeout' /\ pincode' = pincode /\ retyped' = (checks # {})
      /\ checks' = checks \cup {[pin |-> pincode, n |-> typed]}
  BY DEF ValidatePincode
<1>2. pincode \in Pins
  BY <1>1 DEF FormInv, Asked
<1>3. Asked'
  <2>1. \A c \in checks' : c \in checks \/ c.pin = pincode
    BY <1>1
  <2> QED
    BY <1>1, <1>2, <2>1 DEF FormInv, Asked
<1>4. VerdictIsOfThePincode'
  BY <1>1 DEF VerdictIsOfThePincode
<1> QED
  BY <1>3, <1>4 DEF FormInv

LEMMA AnswerKeepsForm == FormInv /\ PincodeValidated => FormInv'
<1> SUFFICES ASSUME FormInv, PincodeValidated PROVE FormInv'
  OBVIOUS
<1>1. PICK c \in checks : checks' = checks \ {c} /\ validation'.pin = c.pin
  BY DEF PincodeValidated
<1>2. UNCHANGED <<pincode, touched, timeout, retyped>>
  BY DEF PincodeValidated
<1>3. validation'.pin = c.pin /\ c.pin \in Pins /\ validation' # NoVerdict
  <2>1. validation'.pin = c.pin /\ NoVerdict.pin = Short
    BY <1>1 DEF NoVerdict
  <2>2. c.pin \in Pins
    BY DEF FormInv, Asked
  <2> QED
    BY <2>1, <2>2, PinsAssumption
<1>4. ~retyped => c.pin = pincode
  BY DEF FormInv, Asked
<1>5. Asked'
  BY <1>1, <1>2 DEF FormInv, Asked
<1>6. VerdictIsOfThePincode'
  BY <1>2, <1>3, <1>4 DEF VerdictIsOfThePincode
<1> QED
  BY <1>5, <1>6 DEF FormInv

LEMMA ReplyKeepsForm == FormInv /\ ReceiveReply => FormInv'
<1> SUFFICES ASSUME FormInv, ReceiveReply PROVE FormInv'
  OBVIOUS
<1>1. PICK a : AddressesLoaded(a) \/ AddressSaved(a) \/ DefaultSet(a) \/ AddressDeleted(a)
  BY DEF ReceiveReply
<1>2. checks' = checks
  BY DEF ReceiveReply
<1>3. CASE UNCHANGED <<form_vars, retyped>>
  BY <1>2, <1>3, RestKeepsForm DEF form_vars
<1>4. CASE SetModalOf(FALSE, 0, Short, FALSE)
  BY <1>2, <1>4, ResetKeepsForm DEF SetModalOf
<1> QED
  BY <1>1, <1>3, <1>4 DEF AddressesLoaded, AddressSaved, DefaultSet, AddressDeleted

LEMMA NextForm == FormInv /\ [AddressFormNext]_addressForm_vars => FormInv'
<1> SUFFICES ASSUME FormInv, [AddressFormNext]_addressForm_vars PROVE FormInv'
  OBVIOUS
<1>1. CASE HandleOpenCreate \/ HandleOpenEdit \/ OnClose
  <2>1. checks' = checks /\ \E pin, mark : ResetForm(pin, mark)
    BY <1>1 DEF HandleOpenCreate, HandleOpenEdit, OnClose, SetModalOf
  <2> QED
    BY <2>1, ResetKeepsForm
<1>2. CASE \/ ServeAddresses \/ ChangeDefault \/ LoadAddresses \/ HandleSubmitOf
           \/ HandleSetDefault \/ HandleDeleteOf \/ UNCHANGED addressForm_vars
  <2>1. UNCHANGED <<pincode, touched, timeout, validation, checks, retyped>>
    BY <1>2 DEF ServeAddresses, ChangeDefault, LoadAddresses, HandleSubmitOf, HandleSetDefault,
       HandleDeleteOf, Call, form_vars, addressForm_vars
  <2> QED
    BY <2>1, RestKeepsForm
<1> QED
  BY <1>1, <1>2, TypingKeepsForm, AskingKeepsForm, AnswerKeepsForm, ReplyKeepsForm
     DEF AddressFormNext

\* Once its timer and its question are through, the form has a verdict for a
\* typed pincode, and its verdict is about the pincode in it unless that was
\* changed while it was asked about: for any pincodes and any number of
\* changes, openings, requests and late answers.
THEOREM VerdictIsTrue == AddressFormSpec => []VerdictIsOfThePincode
<1>1. AddressFormInit => FormInv
  BY DEF AddressFormInit, FormInv, Asked, VerdictIsOfThePincode
<1>2. FormInv => VerdictIsOfThePincode
  BY DEF FormInv
<1> QED
  BY <1>1, <1>2, NextForm, PTL DEF AddressFormSpec

----------------------------------------------------------------------------
(* The terminal of order logs. *)

Events == -1 .. MaxLogs
Logs == 1 .. MaxLogs

\* The logs that have arrived or are on their way.
OnWire == {n \in ToSet(wire) : n > 0}
Held == ToSet(shown) \cup OnWire

\* Only the last connection can be open, only one that streams polls, and
\* nothing is on its way to a closed source.
Connections ==
    /\ \A c \in Sources : c > source => handler[c] = "none"
    /\ \A c \in Sources : interval[c] => handler[c] = "streaming"
    /\ ~autoRefresh => ~sourceOpen
    /\ ~sourceOpen => wire = <<>> /\ polls = {}
    /\ handler[source] # "streaming" => polls = {} /\ OnWire = {}
    /\ newest <= stored /\ \A s \in polls : s <= stored

Streaming == sourceOpen /\ handler[source] = "streaming"

\* From every log that is held, and from every log that a poll under way has
\* read, there is no gap up to the newest that was sent.
Gapless ==
    Streaming /\ ~burst /\ Len(shown) < MaxShown =>
        /\ \A n \in Held : n .. newest \subseteq Held
        /\ \A s \in polls : (s + 1) .. newest \subseteq Held

TerminalInv == TerminalTypeOK /\ Connections /\ Gapless /\ LiveMeansOpen

\* What two sequences hold together.
LEMMA ToSetConcat ==
  ASSUME NEW S, NEW s \in Seq(S), NEW t \in Seq(S)
  PROVE  s \o t \in Seq(S) /\ ToSet(s \o t) = ToSet(s) \cup ToSet(t)
<1> DEFINE u == s \o t
<1>1. /\ u \in Seq(S) /\ Len(u) = Len(s) + Len(t)
      /\ \A i \in 1 .. Len(s) + Len(t) : u[i] = IF i <= Len(s) THEN s[i] ELSE t[i - Len(s)]
  BY ConcatProperties
<1>2. /\ Len(s) \in Nat /\ Len(t) \in Nat /\ DOMAIN s = 1 .. Len(s) /\ DOMAIN t = 1 .. Len(t)
      /\ DOMAIN u = 1 .. Len(u)
  BY <1>1, LenProperties
<1> HIDE DEF u
<1>3. \A i \in DOMAIN s : i \in DOMAIN u /\ u[i] = s[i]
  BY <1>1, <1>2
<1>4. \A i \in DOMAIN t : i + Len(s) \in DOMAIN u /\ u[i + Len(s)] = t[i]
  BY <1>1, <1>2
<1>5. \A i \in DOMAIN u : (i \in DOMAIN s /\ u[i] = s[i])
                          \/ (i - Len(s) \in DOMAIN t /\ u[i] = t[i - Len(s)])
  BY <1>1, <1>2
<1>6. ToSet(u) = ToSet(s) \cup ToSet(t)
  BY <1>3, <1>4, <1>5 DEF ToSet
<1> QED
  BY <1>1, <1>6 DEF u

LEMMA ToSetTail ==
  ASSUME NEW S, NEW s \in Seq(S), s # <<>>
  PROVE  Head(s) \in S /\ Tail(s) \in Seq(S) /\ ToSet(s) = {Head(s)} \cup ToSet(Tail(s))
<1> DEFINE t == Tail(s)
<1>1. /\ Head(s) \in S /\ t \in Seq(S) /\ Head(s) = s[1]
      /\ Len(t) = Len(s) - 1 /\ \A i \in 1 .. Len(t) : t[i] = s[i + 1]
  BY HeadTailProperties
<1>2. Len(s) \in Nat /\ DOMAIN s = 1 .. Len(s) /\ Len(t) \in Nat /\ DOMAIN t = 1 .. Len(t)
  BY <1>1, LenProperties
<1> HIDE DEF t
<1>3. 1 \in DOMAIN s /\ \A i \in DOMAIN t : i + 1 \in DOMAIN s
  BY <1>1, <1>2
<1>4. \A i \in DOMAIN s : i = 1 \/ (i - 1 \in DOMAIN t /\ t[i - 1] = s[i])
  BY <1>1, <1>2
<1>5. ToSet(s) = {Head(s)} \cup ToSet(t)
  BY <1>1, <1>2, <1>3, <1>4 DEF ToSet
<1> QED
  BY <1>1, <1>5 DEF t

LEMMA ToSetType == ASSUME NEW S, NEW s \in Seq(S) PROVE ToSet(s) \subseteq S
  BY LenProperties, ElementOfSeq DEF ToSet

\* The newest logs are those, without a gap.
LEMMA RecentAre ==
  ASSUME NEW u \in 0 .. MaxLogs, NEW limit \in Nat
  PROVE  /\ RecentLogs(u, limit) \in Seq(Logs)
         /\ ToSet(RecentLogs(u, limit)) = {n \in 1 .. u : n > u - limit}
<1> DEFINE k == IF u < limit THEN u ELSE limit
           s == [i \in 1 .. k |-> u + 1 - i]
<1>1. k \in Nat /\ k <= u /\ k <= limit /\ (k = u \/ k = limit) /\ u \in Nat /\ MaxLogs \in Nat
  BY TerminalAssumption
<1>2. RecentLogs(u, limit) = s
  BY DEF RecentLogs
<1> HIDE DEF k
<1>3. s \in [1 .. k -> Logs]
  BY <1>1 DEF Logs
<1>4. s \in Seq(Logs)
  BY <1>1, <1>3, SeqDef
<1>5. \A i \in 1 .. k : s[i] \in 1 .. u /\ s[i] > u - limit
  BY <1>1
<1>6. ASSUME NEW n \in 1 .. u, n > u - limit
      PROVE  u + 1 - n \in 1 .. k /\ s[u + 1 - n] = n
  BY <1>1, <1>6
<1>7. DOMAIN s = 1 .. k
  OBVIOUS
<1> HIDE DEF s
<1>8. ToSet(s) \subseteq {n \in 1 .. u : n > u - limit}
  BY <1>5, <1>7 DEF ToSet
<1>9. ASSUME NEW n \in 1 .. u, n > u - limit
      PROVE  n \in ToSet(s)
  BY <1>6, <1>7, <1>9 DEF ToSet
<1> QED
  BY <1>2, <1>4, <1>8, <1>9

\* A log is taken on top, and nothing falls out before the terminal is full.
LEMMA WithLogIs ==
  ASSUME NEW logs \in Seq(Logs), Len(logs) <= MaxShown, NEW n \in Logs
  PROVE  /\ WithLog(logs, n) \in Seq(Logs)
         /\ Len(WithLog(logs, n)) <= MaxShown
         /\ Len(WithLog(logs, n)) < MaxShown =>
                Len(logs) < MaxShown /\ ToSet(WithLog(logs, n)) = ToSet(logs) \cup {n}
<1>0. Len(logs) \in Nat /\ DOMAIN logs = 1 .. Len(logs) /\ MaxShown \in Nat /\ 0 < MaxShown
  BY LenProperties, TerminalAssumption
<1>1. CASE Contains(logs, n)
  <2>1. WithLog(logs, n) = logs
    BY <1>1 DEF WithLog
  <2>2. n \in ToSet(logs)
    BY <1>0, <1>1 DEF Contains, ToSet
  <2> QED
    BY <1>0, <2>1, <2>2
<1>2. CASE ~Contains(logs, n)
  <2> DEFINE top == <<n>>
             all == top \o logs
             k == IF Len(logs) < MaxShown THEN Len(logs) + 1 ELSE MaxShown
  <2>1. WithLog(logs, n) = SubSeq(all, 1, k)
    BY <1>2 DEF WithLog
  <2>2. top \in Seq(Logs) /\ Len(top) = 1 /\ ToSet(top) = {n}
    <3>1. top \in Seq(Logs) /\ Len(top) = 1 /\ top[1] = n
      OBVIOUS
    <3>2. DOMAIN top = {1}
      BY <3>1, LenProperties
    <3> HIDE DEF top
    <3> QED
      BY <3>1, <3>2 DEF ToSet
  <2> HIDE DEF top
  <2>3. /\ all \in Seq(Logs) /\ Len(all) = Len(logs) + 1
        /\ ToSet(all) = {n} \cup ToSet(logs)
    <3>1. all \in Seq(Logs) /\ ToSet(all) = ToSet(top) \cup ToSet(logs)
      BY <2>2, ToSetConcat
    <3>2. Len(all) = Len(top) + Len(logs)
      BY <2>2, ConcatProperties
    <3> QED
      BY <1>0, <2>2, <3>1, <3>2
  <2>4. k \in Nat /\ k <= Len(all) /\ k <= MaxShown /\ 1 <= k
        /\ (k < MaxShown => Len(logs) < MaxShown /\ k = Len(all))
    BY <1>0, <2>3
  <2> HIDE DEF all, k
  <2>5. \A i \in 1 .. k : all[i] \in Logs
    BY <2>3, <2>4, ElementOfSeq
  <2>6. /\ SubSeq(all, 1, k) \in Seq(Logs) /\ Len(SubSeq(all, 1, k)) = k
        /\ \A i \in 1 .. k : SubSeq(all, 1, k)[i] = all[i]
    BY <2>4, <2>5, SubSeqProperties
  <2>7. k = Len(all) => ToSet(SubSeq(all, 1, k)) = ToSet(all)
    <3>1. DOMAIN all = 1 .. Len(all) /\ DOMAIN SubSeq(all, 1, k) = 1 .. k
      BY <2>3, <2>6, LenProperties
    <3> QED
      BY <2>6, <3>1 DEF ToSet
  <2> QED
    BY <2>1, <2>3, <2>4, <2>6, <2>7
<1> QED
  BY <1>1, <1>2

LEMMA TerminalStart == TerminalInit => TerminalInv
<1> SUFFICES ASSUME TerminalInit PROVE TerminalInv
  OBVIOUS
<1>0. /\ 1 \in Sources /\ stored = InitialLimit /\ stored \in 0 .. MaxLogs /\ 0 \in 0 .. MaxLogs
      /\ MaxShown \in Nat /\ 0 <= MaxShown /\ 0 <= stored
  BY TerminalAssumption DEF TerminalInit, Sources
<1>1. <<>> \in Seq(Logs) /\ <<>> \in Seq(Events) /\ Len(<<>>) = 0 /\ ToSet(<<>>) = {}
  BY EmptySeq DEF ToSet
<1>2. TerminalTypeOK
  <2>1. handler \in [Sources -> {"none", "fetching", "streaming", "failed"}]
        /\ interval \in [Sources -> BOOLEAN] /\ gone \in [Sources -> BOOLEAN]
    BY DEF TerminalInit
  <2>2. shown \in Seq(Logs) /\ wire \in Seq(Events) /\ Len(shown) <= MaxShown
    BY <1>0, <1>1 DEF TerminalInit
  <2> QED
    BY <1>0, <2>1, <2>2 DEF TerminalInit, TerminalTypeOK, Logs, Events
<1>3. Connections
  BY <1>0, <1>1 DEF TerminalInit, Connections, OnWire, Sources
<1>4. Gapless /\ LiveMeansOpen
  BY <1>0 DEF TerminalInit, Gapless, Streaming, LiveMeansOpen
<1> QED
  BY <1>2, <1>3, <1>4 DEF TerminalInv

\* What is written to a connection arrives only at the open source.
LEMMA WriteIs ==
  ASSUME TerminalTypeOK, NEW c, NEW events \in Seq(Events), WriteEvents(c, events)
  PROVE  /\ wire' \in Seq(Events)
         /\ Heard(c) => ToSet(wire') = ToSet(wire) \cup ToSet(events)
         /\ ~Heard(c) => wire' = wire
<1>1. wire \in Seq(Events)
  BY DEF TerminalTypeOK, Events
<1>2. wire \o events \in Seq(Events) /\ ToSet(wire \o events) = ToSet(wire) \cup ToSet(events)
  BY <1>1, ToSetConcat
<1>3. wire' = wire \o events \/ wire' = wire
  BY DEF WriteEvents
<1>4. (Heard(c) => wire' = wire \o events) /\ (~Heard(c) => wire' = wire)
  BY DEF WriteEvents
<1> QED
  BY <1>1, <1>2, <1>3, <1>4

\* An event that is no log adds none.
LEMMA MarkIs ==
  ASSUME TerminalTypeOK, NEW c, NEW e \in {Opened, ErrorEvent}, WriteEvents(c, <<e>>)
  PROVE  /\ wire' \in Seq(Events) /\ OnWire' = OnWire
         /\ ~Heard(c) => wire' = wire
<1>1. e \in Events /\ ~(e > 0)
  BY TerminalAssumption DEF Opened, ErrorEvent, Events
<1>2. <<e>> \in Seq(Events) /\ Len(<<e>>) = 1 /\ <<e>>[1] = e
  BY <1>1
<1>3. DOMAIN <<e>> = {1}
  BY <1>2, LenProperties
<1>4. ToSet(<<e>>) = {e}
  BY <1>2, <1>3 DEF ToSet
<1>5. /\ wire' \in Seq(Events) /\ (~Heard(c) => wire' = wire)
      /\ (Heard(c) => ToSet(wire') = ToSet(wire) \cup {e})
  BY <1>2, <1>4, WriteIs
<1> QED
  BY <1>1, <1>5 DEF OnWire

LEMMA StoreKeeps == TerminalInv /\ StoreLog => TerminalInv'
<1> SUFFICES ASSUME TerminalInv, StoreLog PROVE TerminalInv'
  OBVIOUS
<1>1. /\ stored' = stored + 1 /\ stored' \in 0 .. MaxLogs
      /\ UNCHANGED <<page_vars, gateway_vars, stream_vars>>
  BY TerminalAssumption DEF StoreLog, TerminalInv, TerminalTypeOK
<1> USE DEF page_vars, gateway_vars, stream_vars
<1>2. TerminalTypeOK'
  BY <1>1 DEF TerminalInv, TerminalTypeOK
<1>3. Connections'
  BY <1>1 DEF TerminalInv, TerminalTypeOK, Connections, OnWire
<1>4. Gapless' /\ LiveMeansOpen'
  BY <1>1 DEF TerminalInv, Gapless, Streaming, Held, OnWire, LiveMeansOpen
<1> QED
  BY <1>2, <1>3, <1>4 DEF TerminalInv

LEMMA StreamKeeps ==
  ASSUME TerminalInv, NEW c \in Sources, StreamOrderLogs(c) \/ InitialLogsFail(c)
  PROVE  TerminalInv'
<1>1. /\ UNCHANGED <<stored, page_vars, interval, gone, polls, newest, burst>>
      /\ handler[c] \in {"none", "fetching"} /\ c <= source
      /\ \E h \in {"fetching", "failed"} : handler' = [handler EXCEPT ![c] = h]
      /\ \E e \in {Opened, ErrorEvent} : WriteEvents(c, <<e>>)
  BY DEF StreamOrderLogs, InitialLogsFail, TerminalInv, Connections, TerminalTypeOK, Sources
<1> USE DEF page_vars
<1>2. wire' \in Seq(Events) /\ OnWire' = OnWire /\ (~Heard(c) => wire' = wire)
  BY <1>1, MarkIs DEF TerminalInv
<1>3. /\ handler' \in [Sources -> {"none", "fetching", "streaming", "failed"}]
      /\ handler'[c] \in {"fetching", "failed"}
      /\ \A d \in Sources : d # c => handler'[d] = handler[d]
  BY <1>1 DEF TerminalInv, TerminalTypeOK
<1>4. TerminalTypeOK'
  BY <1>1, <1>2, <1>3 DEF TerminalInv, TerminalTypeOK, Events
<1>5. Connections'
  <2>1. \A d \in Sources : d > source' => handler'[d] = "none"
    BY <1>1, <1>3 DEF TerminalInv, Connections, TerminalTypeOK, Sources
  <2>2. \A d \in Sources : interval'[d] => handler'[d] = "streaming"
    BY <1>1, <1>3 DEF TerminalInv, Connections
  <2>3. ~sourceOpen' => wire' = <<>> /\ polls' = {}
    BY <1>1, <1>2 DEF TerminalInv, Connections, Heard
  <2>4. handler'[source'] # "streaming" => polls' = {} /\ OnWire' = {}
    BY <1>1, <1>2, <1>3 DEF TerminalInv, TerminalTypeOK, Connections
  <2> QED
    BY <1>1, <2>1, <2>2, <2>3, <2>4 DEF TerminalInv, Connections
<1>6. Gapless'
  <2>1. Streaming' => Streaming
    BY <1>1, <1>3 DEF Streaming, TerminalInv, TerminalTypeOK
  <2> QED
    BY <1>1, <1>2, <2>1 DEF TerminalInv, Gapless, Held
<1>7. LiveMeansOpen'
  BY <1>1 DEF TerminalInv, LiveMeansOpen
<1> QED
  BY <1>4, <1>5, <1>6, <1>7 DEF TerminalInv

\* The first logs of a stream: whether they meet those shown is what burst says.
LEMMA InitialKeeps == ASSUME TerminalInv, NEW c \in Sources, InitialLogs(c) PROVE TerminalInv'
<1> DEFINE logs == RecentLogs(stored, InitialLimit)
           held == ToSet(shown) \cup ToSet(logs)
<1>1. /\ handler[c] = "fetching" /\ handler' = [handler EXCEPT ![c] = "streaming"]
      /\ interval' = [interval EXCEPT ![c] = TRUE] /\ WriteEvents(c, logs)
      /\ UNCHANGED <<stored, page_vars, gone, polls>>
      /\ Heard(c) => newest' = stored /\ (burst' = \E n \in held : ~(n .. stored \subseteq held))
      /\ ~Heard(c) => UNCHANGED <<newest, burst>>
  BY DEF InitialLogs
<1> USE DEF page_vars
<1>2. logs \in Seq(Logs) /\ ToSet(logs) \subseteq Logs
  <2>1. stored \in 0 .. MaxLogs /\ InitialLimit \in Nat
    BY TerminalAssumption DEF TerminalInv, TerminalTypeOK
  <2>2. logs \in Seq(Logs)
    BY <2>1, RecentAre
  <2> QED
    BY <2>2, ToSetType
<1>3. logs \in Seq(Events)
  BY <1>2, SeqMonotonic, TerminalAssumption DEF Logs, Events
<1> HIDE DEF logs
<1>4. /\ wire' \in Seq(Events) /\ (~Heard(c) => wire' = wire)
      /\ (Heard(c) => ToSet(wire') = ToSet(wire) \cup ToSet(logs))
  BY <1>1, <1>3, WriteIs DEF TerminalInv
<1>5. /\ handler' \in [Sources -> {"none", "fetching", "streaming", "failed"}]
      /\ interval' \in [Sources -> BOOLEAN]
      /\ handler'[c] = "streaming" /\ \A d \in Sources : d # c => handler'[d] = handler[d]
      /\ \A d \in Sources : d # c => interval'[d] = interval[d]
  BY <1>1 DEF TerminalInv, TerminalTypeOK
<1>6. newest' \in 0 .. MaxLogs /\ burst' \in BOOLEAN /\ newest' <= stored
  <2>1. newest' = newest \/ newest' = stored
    BY <1>1
  <2>2. burst' = burst \/ burst' = \E n \in held : ~(n .. stored \subseteq held)
    BY <1>1
  <2>3. burst \in BOOLEAN
    BY DEF TerminalInv, TerminalTypeOK
  <2>4. burst' \in BOOLEAN
    BY <2>2, <2>3, Zenon
  <2> QED
    BY <2>1, <2>4 DEF TerminalInv, TerminalTypeOK, Connections
<1>7. TerminalTypeOK'
  BY <1>1, <1>4, <1>5, <1>6 DEF TerminalInv, TerminalTypeOK, Events
<1>8. Connections'
  <2>1. c <= source
    BY <1>1 DEF TerminalInv, Connections, TerminalTypeOK, Sources
  <2>2. \A d \in Sources : d > source' => handler'[d] = "none"
    BY <1>1, <1>5, <2>1 DEF TerminalInv, Connections, TerminalTypeOK, Sources
  <2>3. \A d \in Sources : interval'[d] => handler'[d] = "streaming"
    BY <1>5 DEF TerminalInv, Connections
  <2>4. ~sourceOpen' => wire' = <<>> /\ polls' = {}
    BY <1>1, <1>4 DEF TerminalInv, Connections, Heard
  <2>5. handler'[source'] # "streaming" => polls' = {} /\ OnWire' = {}
    <3>1. handler'[source'] # "streaming" => handler[source] # "streaming" /\ source # c
      BY <1>1, <1>5 DEF TerminalInv, TerminalTypeOK
    <3> QED
      BY <1>1, <1>4, <3>1 DEF TerminalInv, Connections, Heard, OnWire
  <2> QED
    BY <1>1, <1>6, <2>2, <2>3, <2>4, <2>5 DEF TerminalInv, Connections
<1>9. Gapless'
  <2>1. CASE Heard(c)
    <3>1. c = source /\ sourceOpen
      BY <2>1 DEF Heard
    <3>2. OnWire = {} /\ polls = {}
      BY <1>1, <3>1 DEF TerminalInv, Connections
    <3>3. OnWire' = ToSet(logs)
      BY <1>2, <1>4, <2>1, <3>2 DEF OnWire, Logs
    <3>4. Held' = held
      BY <1>1, <3>3 DEF Held
    <3> HIDE DEF held
    <3>5. ~burst' => \A n \in Held' : n .. newest' \subseteq Held'
      BY <1>1, <2>1, <3>4
    <3> QED
      BY <1>1, <3>2, <3>5 DEF Gapless
  <2>2. CASE ~Heard(c)
    <3>1. Streaming' => Streaming
      BY <1>1, <1>5, <2>2 DEF Streaming, Heard, TerminalInv, TerminalTypeOK
    <3>2. wire' = wire
      BY <1>4, <2>2
    <3> QED
      BY <1>1, <2>2, <3>1, <3>2 DEF TerminalInv, Gapless, Held, OnWire
  <2> QED
    BY <2>1, <2>2
<1>10. LiveMeansOpen'
  BY <1>1 DEF TerminalInv, LiveMeansOpen
<1> QED
  BY <1>7, <1>8, <1>9, <1>10 DEF TerminalInv

LEMMA PollKeeps == TerminalInv /\ (Poll \/ PollFails) => TerminalInv'
<1> SUFFICES ASSUME TerminalInv, Poll \/ PollFails PROVE TerminalInv'
  OBVIOUS
<1>1. /\ UNCHANGED <<stored, page_vars, gateway_vars, wire, newest, burst>>
      /\ polls' \subseteq polls \cup {stored}
      /\ polls' # {} => polls # {} \/ (interval[source] /\ sourceOpen)
  BY DEF Poll, PollFails
<1> USE DEF page_vars, gateway_vars
<1>2. stored \in 0 .. MaxLogs /\ source \in Sources /\ newest \in 0 .. MaxLogs
  BY DEF TerminalInv, TerminalTypeOK
<1>3. TerminalTypeOK'
  BY <1>1, <1>2 DEF TerminalInv, TerminalTypeOK
<1>4. Connections'
  <2>1. ~sourceOpen \/ handler[source] # "streaming" => polls' = {}
    BY <1>1, <1>2 DEF TerminalInv, Connections
  <2> QED
    BY <1>1, <1>2, <2>1 DEF TerminalInv, Connections, OnWire
<1>5. Gapless'
  <2>1. (stored + 1) .. newest = {}
    BY <1>2 DEF TerminalInv, Connections
  <2>2. Held' = Held /\ (Streaming' <=> Streaming)
    BY <1>1 DEF Held, OnWire, Streaming
  <2> QED
    BY <1>1, <2>1, <2>2 DEF TerminalInv, Gapless
<1>6. LiveMeansOpen'
  BY <1>1 DEF TerminalInv, LiveMeansOpen
<1> QED
  BY <1>3, <1>4, <1>5, <1>6 DEF TerminalInv

\* A slice that reaches down to what was sent before closes the gap to it, and
\* what a slower poll has read is held already.
LEMMA AnswerKeeps == TerminalInv /\ PollAnswers => TerminalInv'
<1> SUFFICES ASSUME TerminalInv, PollAnswers PROVE TerminalInv'
  OBVIOUS
<1>1. PICK s \in polls :
         /\ polls' = polls \ {s}
         /\ wire' = wire \o RecentLogs(s, Slice)
         /\ newest' = IF s > newest THEN s ELSE newest
         /\ burst' = (burst \/ s > newest + Slice)
  BY DEF PollAnswers
<1>2. UNCHANGED <<stored, page_vars, gateway_vars>>
  BY DEF PollAnswers
<1> USE DEF page_vars, gateway_vars
<1>3. /\ s \in 0 .. MaxLogs /\ newest \in 0 .. MaxLogs /\ stored \in 0 .. MaxLogs
      /\ s <= stored /\ newest <= stored /\ MaxLogs \in Nat /\ Slice \in Nat \ {0}
      /\ polls \subseteq 0 .. MaxLogs
  BY TerminalAssumption DEF TerminalInv, TerminalTypeOK, Connections
<1> DEFINE logs == RecentLogs(s, Slice)
           fresh == {n \in 1 .. s : n > s - Slice}
<1>4. logs \in Seq(Logs) /\ ToSet(logs) = fresh
  BY <1>3, RecentAre
<1>5. logs \in Seq(Events) /\ wire \in Seq(Events)
  BY <1>3, <1>4, SeqMonotonic DEF Logs, Events, TerminalInv, TerminalTypeOK
<1> HIDE DEF logs
<1>6. wire' \in Seq(Events) /\ ToSet(wire') = ToSet(wire) \cup fresh
  BY <1>1, <1>4, <1>5, ToSetConcat DEF logs
<1>7. /\ newest' \in 0 .. MaxLogs /\ newest' <= stored
      /\ burst' \in BOOLEAN
  BY <1>1, <1>3 DEF TerminalInv, TerminalTypeOK
<1>8. TerminalTypeOK'
  BY <1>1, <1>2, <1>3, <1>6, <1>7 DEF TerminalInv, TerminalTypeOK, Events
<1>9. sourceOpen /\ handler[source] = "streaming"
  BY DEF TerminalInv, Connections
<1>10. Connections'
  BY <1>1, <1>2, <1>7, <1>9 DEF TerminalInv, Connections
<1>11. Held' = Held \cup fresh
  BY <1>2, <1>3, <1>6 DEF Held, OnWire
<1>12. Gapless'
  <2> SUFFICES ASSUME ~burst', Len(shown) < MaxShown
               PROVE  /\ \A n \in Held' : n .. newest' \subseteq Held'
                      /\ \A x \in polls' : (x + 1) .. newest' \subseteq Held'
    BY <1>2 DEF Gapless
  <2>1. ~burst /\ s <= newest + Slice
    <3>1. ~burst /\ ~(s > newest + Slice)
      BY <1>1, Zenon
    <3> QED
      BY <1>3, <3>1
  <2>2. /\ \A n \in Held : n .. newest \subseteq Held
        /\ \A x \in polls : (x + 1) .. newest \subseteq Held
    BY <1>9, <2>1 DEF TerminalInv, Gapless, Streaming
  <2>3. (newest + 1) .. newest' \subseteq fresh
    BY <1>1, <1>3, <2>1
  <2>4. Held \subseteq Logs
    <3>1. ToSet(shown) \subseteq Logs
      BY ToSetType DEF TerminalInv, TerminalTypeOK, Logs
    <3>2. ToSet(wire) \subseteq Events
      BY <1>5, ToSetType
    <3> QED
      BY <1>3, <3>1, <3>2 DEF Held, OnWire, Logs, Events
  <2>5. ASSUME NEW m \in Int, m .. newest \subseteq Held'
        PROVE  m .. newest' \subseteq Held'
    <3>1. \A k \in m .. newest' : k \in m .. newest \/ k \in (newest + 1) .. newest'
      BY <1>3, <1>7
    <3> QED
      BY <1>11, <2>3, <2>5, <3>1
  <2>6. ASSUME NEW n \in Held' PROVE n .. newest \subseteq Held'
    <3>1. CASE n \in Held
      BY <1>11, <2>2, <3>1
    <3>2. CASE n \in fresh
      <4>1. \A k \in n .. newest : k \in fresh \/ k \in (s + 1) .. newest
        BY <1>3, <3>2
      <4> QED
        BY <1>11, <2>2, <4>1
    <3> QED
      BY <1>11, <3>1, <3>2
  <2>7. \A n \in Held' : n \in Int
    BY <1>3, <1>11, <2>4 DEF Logs
  <2>8. \A x \in polls' : x + 1 \in Int /\ (x + 1) .. newest \subseteq Held'
    BY <1>1, <1>3, <1>11, <2>2
  <2> QED
    BY <2>5, <2>6, <2>7, <2>8
<1>13. LiveMeansOpen'
  BY <1>2 DEF TerminalInv, LiveMeansOpen
<1> QED
  BY <1>8, <1>10, <1>12, <1>13 DEF TerminalInv

\* A log moves from the wire to the page, or falls out of a full one.
LEMMA ReceiveKeeps == TerminalInv /\ Receive => TerminalInv'
<1> SUFFICES ASSUME TerminalInv, Receive PROVE TerminalInv'
  OBVIOUS
<1>1. /\ sourceOpen /\ wire # <<>> /\ Head(wire) # ErrorEvent /\ wire' = Tail(wire)
      /\ UNCHANGED <<stored, autoRefresh, resumeTimer, source, sourceOpen, gateway_vars,
                     polls, newest, burst>>
  BY DEF Receive
<1> USE DEF gateway_vars
<1>2. wire \in Seq(Events)
  BY DEF TerminalInv, TerminalTypeOK, Events
<1>3. /\ Head(wire) \in Events /\ wire' \in Seq(Events)
      /\ ToSet(wire) = {Head(wire)} \cup ToSet(wire')
  BY <1>1, <1>2, ToSetTail
<1>4. /\ shown \in Seq(Logs) /\ Len(shown) <= MaxShown
      /\ shown' \in Seq(Logs) /\ Len(shown') <= MaxShown /\ connected' \in BOOLEAN
      /\ Len(shown') < MaxShown => Len(shown) < MaxShown /\ Held' = Held
  <2>1. shown \in Seq(Logs) /\ Len(shown) <= MaxShown /\ connected \in BOOLEAN
    BY DEF TerminalInv, TerminalTypeOK, Logs
  <2>2. CASE Head(wire) = Opened
    <3>1. shown' = shown /\ connected' = TRUE
      BY <2>2 DEF Receive
    <3>2. OnWire' = OnWire
      BY <1>3, <2>2 DEF OnWire, Opened
    <3> QED
      BY <2>1, <3>1, <3>2 DEF Held
  <2>3. CASE Head(wire) # Opened
    <3>1. shown' = WithLog(shown, Head(wire)) /\ connected' = connected
      BY <2>3 DEF Receive
    <3>2. Head(wire) \in Logs
      BY <1>1, <1>3, <2>3, TerminalAssumption DEF Events, Logs, Opened, ErrorEvent
    <3>3. OnWire = {Head(wire)} \cup OnWire'
      BY <1>3, <3>2 DEF OnWire, Logs
    <3> QED
      BY <2>1, <3>1, <3>2, <3>3, WithLogIs DEF Held
  <2> QED
    BY <2>2, <2>3
<1>5. TerminalTypeOK'
  BY <1>1, <1>3, <1>4 DEF TerminalInv, TerminalTypeOK, Events, Logs
<1>6. Connections'
  <2>1. OnWire' \subseteq OnWire
    BY <1>3 DEF OnWire
  <2> QED
    BY <1>1, <2>1 DEF TerminalInv, Connections
<1>7. Gapless'
  BY <1>1, <1>4 DEF TerminalInv, Gapless, Streaming
<1>8. LiveMeansOpen'
  BY <1>1 DEF LiveMeansOpen
<1> QED
  BY <1>5, <1>6, <1>7, <1>8 DEF TerminalInv

\* A closed source loses what is on its way to it.
LEMMA CloseKeeps ==
  ASSUME TerminalInv, CloseSource, shown' = shown, connected' \in {connected, FALSE},
         autoRefresh' \in {autoRefresh, FALSE}, ~autoRefresh' \/ ~connected',
         resumeTimer' \in BOOLEAN
  PROVE  TerminalInv'
<1>1. /\ sourceOpen' = FALSE /\ polls' = {} /\ wire' = <<>> /\ newest' = 0
      /\ UNCHANGED <<stored, source, gateway_vars, burst>>
  BY DEF CloseSource
<1> USE DEF gateway_vars
<1>2. wire' \in Seq(Events) /\ OnWire' = {}
  <2>1. wire' \in Seq(Events)
    BY <1>1, EmptySeq
  <2>2. ToSet(wire') = {}
    BY <1>1 DEF ToSet
  <2> QED
    BY <2>1, <2>2 DEF OnWire
<1>3. 0 \in 0 .. MaxLogs /\ 0 <= stored
  BY TerminalAssumption DEF TerminalInv, TerminalTypeOK
<1>4. TerminalTypeOK'
  BY <1>1, <1>2, <1>3 DEF TerminalInv, TerminalTypeOK, Events
<1>5. Connections'
  BY <1>1, <1>2, <1>3 DEF TerminalInv, Connections
<1>6. Gapless' /\ LiveMeansOpen'
  BY <1>1 DEF Gapless, Streaming, LiveMeansOpen
<1> QED
  BY <1>4, <1>5, <1>6 DEF TerminalInv

\* A new source has no stream yet.
LEMMA ConnectKeeps ==
  ASSUME TerminalInv, Connect, resumeTimer' \in BOOLEAN
  PROVE  TerminalInv'
<1>1. autoRefresh' = TRUE /\ UNCHANGED <<stored, connected, shown, gateway_vars, stream_vars>>
  BY DEF Connect
<1> USE DEF gateway_vars, stream_vars
<1>2. /\ autoRefresh => UNCHANGED <<source, sourceOpen>>
      /\ ~autoRefresh => source < MaxSources /\ source' = source + 1 /\ sourceOpen' = TRUE
  BY DEF Connect
<1>3. source' \in Sources /\ source <= source'
  BY <1>2, TerminalAssumption DEF TerminalInv, TerminalTypeOK, Sources
<1>4. OnWire' = OnWire /\ Held' = Held
  BY <1>1 DEF Held, OnWire
<1>5. TerminalTypeOK'
  BY <1>1, <1>2, <1>3 DEF TerminalInv, TerminalTypeOK
<1>6. CASE autoRefresh
  BY <1>1, <1>2, <1>4, <1>5, <1>6
     DEF TerminalInv, Connections, Gapless, Streaming, LiveMeansOpen
<1>7. CASE ~autoRefresh
  <2>1. wire = <<>> /\ polls = {} /\ handler[source'] = "none" /\ source' > source
    BY <1>2, <1>3, <1>7 DEF TerminalInv, TerminalTypeOK, Connections, Sources
  <2>2. OnWire = {}
    BY <2>1 DEF OnWire, ToSet
  <2>3. Connections'
    <3>1. \A c \in Sources : c > source' => c > source
      BY <1>3, <2>1 DEF Sources, TerminalInv, TerminalTypeOK
    <3> QED
      BY <1>1, <1>2, <1>4, <1>7, <2>1, <2>2, <3>1 DEF TerminalInv, Connections
  <2>4. Gapless' /\ LiveMeansOpen'
    BY <1>1, <1>2, <1>7, <2>1 DEF Gapless, Streaming, LiveMeansOpen
  <2> QED
    BY <1>5, <2>3, <2>4 DEF TerminalInv
<1> QED
  BY <1>6, <1>7

LEMMA NoticeKeeps == ASSUME TerminalInv, NEW c \in Sources, NoticeClose(c) PROVE TerminalInv'
<1>1. /\ gone' = [gone EXCEPT ![c] = TRUE] /\ interval' = [interval EXCEPT ![c] = FALSE]
      /\ UNCHANGED <<stored, page_vars, handler, stream_vars>>
  BY DEF NoticeClose
<1> USE DEF page_vars, stream_vars
<1>2. TerminalTypeOK'
  BY <1>1 DEF TerminalInv, TerminalTypeOK
<1>3. \A d \in Sources : interval'[d] => interval[d]
  BY <1>1 DEF TerminalInv, TerminalTypeOK
<1>4. Connections' /\ Gapless' /\ LiveMeansOpen'
  BY <1>1, <1>3 DEF TerminalInv, Connections, Gapless, Streaming, Held, OnWire, LiveMeansOpen
<1> QED
  BY <1>2, <1>4 DEF TerminalInv

LEMMA NextTerminal == TerminalInv /\ [TerminalNext]_terminal_vars => TerminalInv'
<1> SUFFICES ASSUME TerminalInv, [TerminalNext]_terminal_vars PROVE TerminalInv'
  OBVIOUS
<1>1. CASE OnError \/ Pause \/ Reconnect
  <2>1. autoRefresh \in BOOLEAN /\ resumeTimer \in BOOLEAN
    BY DEF TerminalInv, TerminalTypeOK
  <2> QED
    BY <1>1, <2>1, CloseKeeps DEF OnError, Pause, Reconnect
<1>2. CASE Resume \/ ResumeAfterReconnect
  <2>1. resumeTimer \in BOOLEAN
    BY DEF TerminalInv, TerminalTypeOK
  <2> QED
    BY <1>2, <2>1, ConnectKeeps DEF Resume, ResumeAfterReconnect
<1>3. ASSUME NEW c \in Sources,
             StreamOrderLogs(c) \/ InitialLogs(c) \/ InitialLogsFail(c) \/ NoticeClose(c)
      PROVE  TerminalInv'
  BY <1>3, StreamKeeps, InitialKeeps, NoticeKeeps
<1>4. CASE UNCHANGED terminal_vars
  BY <1>4 DEF terminal_vars, page_vars, gateway_vars, stream_vars, TerminalInv, TerminalTypeOK,
     Connections, Gapless, Streaming, Held, OnWire, LiveMeansOpen
<1> QED
  BY <1>1, <1>2, <1>3, <1>4, StoreKeeps, PollKeeps, AnswerKeeps, ReceiveKeeps DEF TerminalNext

\* For any limits, slice and number of connections: a terminal that is not
\* paused says "Live" only while its source is open, and no log is missing
\* between the oldest it shows and the newest it was sent, although polls overlap,
\* fail and answer in any order, as long as every answer reaches back to what was
\* sent before and the terminal has not been filled.
THEOREM TerminalIsTrue == TerminalSpec => []TerminalIsFaithful
<1>1. TerminalInv => TerminalIsFaithful
  <2> SUFFICES ASSUME TerminalInv, sourceOpen, handler[source] = "streaming", wire = <<>>,
                      ~burst, Len(shown) < MaxShown, NEW n \in ToSet(shown)
               PROVE  n .. newest \subseteq ToSet(shown)
    BY DEF TerminalIsFaithful, NoGapInTheTerminal, TerminalInv
  <2>1. Held = ToSet(shown)
    BY DEF Held, OnWire, ToSet
  <2> QED
    BY <2>1 DEF TerminalInv, Gapless, Streaming
<1> QED
  BY <1>1, TerminalStart, NextTerminal, PTL DEF TerminalSpec

----------------------------------------------------------------------------
(* Lists: what ORDER BY and filter return. *)

\* How many of S are below x: the place of x when S is put in order.
Rank(S, x) == Cardinality({y \in S : y < x})

\* A place is one of those there are, and grows with the number.
LEMMA RankType ==
  ASSUME NEW S \in SUBSET Int, IsFiniteSet(S), NEW x \in S
  PROVE  Rank(S, x) \in 0 .. Cardinality(S) - 1
<1> DEFINE below == {y \in S : y < x}
<1>1. IsFiniteSet(below) /\ Cardinality(below) <= Cardinality(S)
      /\ (Cardinality(S) = Cardinality(below) => S = below)
  BY FS_Subset
<1>2. Cardinality(below) \in Nat /\ Cardinality(S) \in Nat  BY <1>1, FS_CardinalityType
<1>3. x \notin below  OBVIOUS
<1> QED  BY <1>1, <1>2, <1>3 DEF Rank

LEMMA RankMonotone ==
  ASSUME NEW S \in SUBSET Int, IsFiniteSet(S), NEW x \in S, NEW y \in S, x < y
  PROVE  Rank(S, x) < Rank(S, y)
<1> DEFINE A == {z \in S : z < x}  B == {z \in S : z < y}
<1>1. IsFiniteSet(B)
  <2>1. B \in SUBSET S  OBVIOUS
  <2> HIDE DEF B
  <2> QED  BY <2>1, FS_Subset, Zenon
<1>2. A \in SUBSET B /\ x \in B /\ x \notin A
  <2>1. \A z \in S : z \in Int  OBVIOUS
  <2>2. \A z \in S : z < x => z < y  BY <2>1
  <2>3. ~(x < x)  BY <2>1
  <2> QED  BY <2>2, <2>3
<1> HIDE DEF A, B
<1>3. Cardinality(A) <= Cardinality(B) /\ Cardinality(A) # Cardinality(B) /\ IsFiniteSet(A)
  BY <1>1, <1>2, FS_Subset
<1>4. Cardinality(A) \in Nat /\ Cardinality(B) \in Nat  BY <1>1, <1>3, FS_CardinalityType
<1> QED  BY <1>3, <1>4 DEF Rank, A, B

\* Every rank is taken: there are as many as elements, and no two have one.
LEMMA RankOnto ==
  ASSUME NEW S \in SUBSET Int, IsFiniteSet(S), NEW i \in 1 .. Cardinality(S)
  PROVE  \E x \in S : Rank(S, x) = i - 1
<1> DEFINE n == Cardinality(S)
           f == [x \in S |-> Rank(S, x)]
<1>1. n \in Nat  BY FS_CardinalityType
<1>2. f \in [S -> 0 .. n - 1]  BY RankType
<1>3. ASSUME NEW x \in S, NEW y \in S, f[x] = f[y] PROVE x = y
  <2>1. x \in Int /\ y \in Int  OBVIOUS
  <2>2. Rank(S, x) = Rank(S, y) /\ Rank(S, x) \in Int  BY <1>2, <1>3
  <2>3. ~(x < y) /\ ~(y < x)  BY <2>2, RankMonotone
  <2> QED  BY <2>1, <2>3
<1>4. IsFiniteSet(0 .. n - 1) /\ Cardinality(0 .. n - 1) = n
  <2> HIDE DEF n
  <2>1. 0 \in Int /\ n - 1 \in Int  BY <1>1
  <2>2. IsFiniteSet(0 .. n - 1)
        /\ Cardinality(0 .. n - 1) = IF 0 > n - 1 THEN 0 ELSE n - 1 - 0 + 1
    BY <2>1, FS_Interval, Zenon
  <2> QED  BY <1>1, <2>2
<1> HIDE DEF f, n
<1>5. f \in Injection(S, 0 .. n - 1)
  BY <1>2, <1>3 DEF Injection, IsInjective
<1>6. f \in Surjection(S, 0 .. n - 1)
  BY <1>4, <1>5, FS_Injection DEF n
<1>7. i - 1 \in 0 .. n - 1  BY <1>1 DEF n
<1>8. PICK x \in S : f[x] = i - 1  BY <1>6, <1>7 DEF Surjection
<1> QED  BY <1>8 DEF f

\* Ascending(S) lists S, each number once and in its order.
LEMMA AscendingLists ==
  ASSUME NEW S \in SUBSET Int, IsFiniteSet(S)
  PROVE  /\ Cardinality(S) \in Nat
         /\ Ascending(S) \in [1 .. Cardinality(S) -> S]
         /\ \A x \in S : \E i \in 1 .. Cardinality(S) : Ascending(S)[i] = x
         /\ \A i, j \in 1 .. Cardinality(S) : i < j => Ascending(S)[i] < Ascending(S)[j]
<1> DEFINE n == Cardinality(S)  a == Ascending(S)
<1>1. n \in Nat  BY FS_CardinalityType
<1>2. ASSUME NEW i \in 1 .. n PROVE a[i] \in S /\ Rank(S, a[i]) = i - 1
  <2>1. a[i] = CHOOSE x \in S : Rank(S, x) = i - 1  BY Zenon DEF Ascending, Rank
  <2> HIDE DEF a
  <2> QED  BY <2>1, RankOnto
<1>3. a = [i \in 1 .. n |-> a[i]]
  <2>1. a = [i \in 1 .. n |-> CHOOSE x \in S : Rank(S, x) = i - 1]  BY Zenon DEF Ascending, Rank
  <2> HIDE DEF a, n
  <2> QED  BY <2>1
<1> HIDE DEF a, n
<1>4. a \in [1 .. n -> S]  BY <1>2, <1>3
<1>5. ASSUME NEW x \in S PROVE \E i \in 1 .. n : a[i] = x
  <2> DEFINE i == Rank(S, x) + 1
  <2>1. i \in 1 .. n /\ Rank(S, x) = i - 1
    <3>1. Rank(S, x) \in 0 .. n - 1  BY RankType DEF n
    <3> QED  BY <1>1, <3>1
  <2> HIDE DEF i
  <2>2. a[i] \in S /\ Rank(S, a[i]) = Rank(S, x)  BY <2>1, <1>2
  <2>3. Rank(S, x) \in Int /\ x \in Int /\ a[i] \in Int
    <3>1. Rank(S, x) \in 0 .. n - 1  BY RankType DEF n
    <3>2. \A z \in S : z \in Int  OBVIOUS
    <3>3. x \in Int /\ a[i] \in Int  BY <2>2, <3>2, Zenon
    <3>4. Rank(S, x) \in Int  BY <1>1, <3>1
    <3> QED  BY <3>3, <3>4
  <2>4. /\ a[i] < x => Rank(S, a[i]) < Rank(S, x)
        /\ x < a[i] => Rank(S, x) < Rank(S, a[i])
    BY <2>2, RankMonotone
  <2>5. a[i] = x  BY <2>2, <2>3, <2>4
  <2> QED  BY <2>1, <2>5
<1>6. ASSUME NEW i \in 1 .. n, NEW j \in 1 .. n, i < j PROVE a[i] < a[j]
  <2>1. Rank(S, a[i]) < Rank(S, a[j])  BY <1>1, <1>2, <1>6
  <2>2. a[i] \in S /\ a[j] \in S /\ a[i] \in Int /\ a[j] \in Int  BY <1>2
  <2>3. a[i] # a[j]  BY <2>1, <1>1, <1>2
  <2>4. ~(a[j] < a[i])
    <3> SUFFICES ASSUME a[j] < a[i] PROVE FALSE  OBVIOUS
    <3>1. Rank(S, a[j]) < Rank(S, a[i])  BY <2>2, RankMonotone
    <3> QED  BY <1>1, <1>2, <2>1, <3>1
  <2> QED  BY <2>2, <2>3, <2>4
<1> QED  BY <1>1, <1>4, <1>5, <1>6 DEF a, n

\* A filtered list has the kept entries and no others.
LEMMA FilterKeeps ==
  ASSUME NEW T, NEW entries \in Seq(T), NEW kept \in SUBSET (1 .. Len(entries))
  PROVE  /\ Cardinality(kept) \in Nat
         /\ AtPositions(entries, kept) \in Seq(T)
         /\ Len(AtPositions(entries, kept)) = Cardinality(kept)
         /\ \E p \in [1 .. Cardinality(kept) -> kept] :
               /\ \A k \in kept : \E j \in 1 .. Cardinality(kept) : p[j] = k
               /\ \A i, j \in 1 .. Cardinality(kept) : i < j => p[i] < p[j]
               /\ \A j \in 1 .. Cardinality(kept) : AtPositions(entries, kept)[j] = entries[p[j]]
<1> DEFINE n == Cardinality(kept)  p == Ascending(kept)  f == AtPositions(entries, kept)
<1>1. Len(entries) \in Nat  OBVIOUS
<1>2. IsFiniteSet(1 .. Len(entries))  BY <1>1, FS_Interval
<1>8. IsFiniteSet(kept) /\ kept \in SUBSET Int
  <2>1. IsFiniteSet(kept)  BY <1>2, FS_Subset, Zenon
  <2> QED  BY <1>1, <2>1
<1>3. /\ n \in Nat /\ p \in [1 .. n -> kept]
      /\ \A k \in kept : \E j \in 1 .. n : p[j] = k
      /\ \A i, j \in 1 .. n : i < j => p[i] < p[j]
  BY <1>8, AscendingLists
<1>4. f = [j \in 1 .. n |-> entries[p[j]]]  BY DEF AtPositions
<1> HIDE DEF f, p, n
<1>5. \A k \in kept : entries[k] \in T  OBVIOUS
<1>6. f \in Seq(T) /\ Len(f) = n
  <2>1. \A j \in 1 .. n : entries[p[j]] \in T  BY <1>3, <1>5
  <2>2. f \in [1 .. n -> T]  BY <1>4, <2>1
  <2> QED  BY <1>3, <2>2
<1>7. \A j \in 1 .. n : f[j] = entries[p[j]]  BY <1>4
<1> QED  BY <1>3, <1>6, <1>7 DEF f, p, n

\* A list without its i-th entry.
LEMMA RemovedAt ==
  ASSUME NEW T, NEW s \in Seq(T), NEW i \in 1 .. Len(s)
  PROVE  /\ RemoveAt(s, i) \in Seq(T)
         /\ Len(RemoveAt(s, i)) = Len(s) - 1
         /\ \A j \in 1 .. Len(s) - 1 : RemoveAt(s, i)[j] = IF j < i THEN s[j] ELSE s[j + 1]
<1> DEFINE a == SubSeq(s, 1, i - 1)  b == SubSeq(s, i + 1, Len(s))
<1>1. a \in Seq(T) /\ Len(a) = i - 1 /\ \A j \in 1 .. i - 1 : a[j] = s[j]
  BY SubSeqProperties
<1>2. b \in Seq(T) /\ Len(b) = Len(s) - i /\ \A j \in 1 .. Len(s) - i : b[j] = s[i + j]
  BY SubSeqProperties
<1>3. RemoveAt(s, i) = a \o b  BY DEF RemoveAt
<1> HIDE DEF a, b
<1>4. a \o b \in Seq(T) /\ Len(a \o b) = Len(s) - 1
      /\ \A j \in 1 .. Len(s) - 1 : (a \o b)[j] = IF j <= i - 1 THEN a[j] ELSE b[j - (i - 1)]
  <2>1. a \o b \in Seq(T) /\ Len(a \o b) = Len(a) + Len(b)
        /\ \A j \in 1 .. Len(a) + Len(b) :
               (a \o b)[j] = IF j <= Len(a) THEN a[j] ELSE b[j - Len(a)]
    BY <1>1, <1>2, ConcatProperties, Zenon
  <2>2. Len(a) + Len(b) = Len(s) - 1  BY <1>1, <1>2
  <2> QED  BY <1>1, <2>1, <2>2
<1>5. ASSUME NEW j \in 1 .. Len(s) - 1 PROVE (a \o b)[j] = IF j < i THEN s[j] ELSE s[j + 1]
  <2>1. CASE j < i  BY <1>1, <1>4, <2>1
  <2>2. CASE ~(j < i)
    <3>1. j - (i - 1) \in 1 .. Len(s) - i /\ i + (j - (i - 1)) = j + 1  BY <2>2
    <3> QED  BY <1>2, <1>4, <2>2, <3>1
  <2> QED  BY <2>1, <2>2
<1> QED  BY <1>3, <1>4, <1>5

----------------------------------------------------------------------------
(* The list of products. *)

\* The products of a query, the newest first.
NewestFirst(q) == Reverse(Ascending(Matches(q)))
Count(q) == Cardinality(Matches(q))

\* The queries that are not answered or whose answer was not taken.
UnderWayQs == queries \cup {a.q : a \in results}

QueryType ==
    [search : BOOLEAN, filter : BOOLEAN, sortBy : Orders, page : Nat, n : 1 .. MaxQueries]

\* An answer holds the page that its query asked for.
AnswerOf(q, data, count) ==
    count = Count(q) /\ \E order \in Orderings(q) : data = PageOf(order, q.page)

\* The kinds of values; the queries are numbered as they were sent.
ShelfTypes ==
    /\ {search, filter, hasMore, loadingProducts, loadError, muddled} \subseteq BOOLEAN
    /\ sortBy \in Orders /\ pageNumber \in Nat
    /\ queries \subseteq QueryType /\ shownFor \in QueryType
    /\ \A a \in results : a.q \in QueryType
    /\ queried \in 1 .. MaxQueries /\ shownFor.n <= queried
    /\ \A q \in UnderWayQs : q.n <= queried
    /\ walked \subseteq Catalogue

\* Every answer that is no error is right.
Answers == \A a \in results : a.ok => AnswerOf(a.q, a.data, a.total)

\* What is shown is the answer to a query, or nothing was answered yet.
ShownIsAnswer ==
    \/ AnswerOf(shownFor, products, totalCount) /\ hasMore = HasMore(shownFor.page, totalCount)
    \/ /\ shownFor = FirstQuery /\ products = <<>> /\ totalCount = 0 /\ ~hasMore
       /\ queried > 1 \/ loadError \/ FirstQuery \in UnderWayQs

\* The query sent last carries the controls.
NewestIsSet ==
    \A q \in UnderWayQs \cup {shownFor} :
        q.n = queried => q.filter = filter /\ q.sortBy = sortBy /\ q.page = pageNumber

\* Unless something went wrong the last query is under way or shown.
NewestArrives ==
    ~muddled /\ ~loadError =>
        shownFor.n = queried \/ \E q \in UnderWayQs : q.n = queried

\* Past the first page the order and the text are those of the pages before,
\* there is such a page, and all before it were walked past.
PageIsReached ==
    ~muddled /\ pageNumber > 0 =>
        /\ shownFor.filter = filter /\ shownFor.sortBy = sortBy
        /\ pageNumber * ItemsPerPage < Count(shownFor)
        /\ \A q \in UnderWayQs : q.n = queried /\ q.search = shownFor.search
        /\ sortBy = "createdAt" =>
               \A i \in 1 .. pageNumber * ItemsPerPage : NewestFirst(shownFor)[i] \in walked

\* Nothing under way is older than what is shown.
NothingOlder == ~muddled => \A q \in UnderWayQs : shownFor.n <= q.n

ShelfInv ==
    NothingOlder /\ ShelfTypes /\ Answers /\ ShownIsAnswer /\ NewestIsSet /\ NewestArrives /\ PageIsReached

\* The n-th entry of the last is the first.
LEMMA ReversedList ==
  ASSUME NEW T, NEW s \in Seq(T)
  PROVE  /\ Reverse(s) \in Seq(T) /\ Len(Reverse(s)) = Len(s)
         /\ \A i \in 1 .. Len(s) : Reverse(s)[i] = s[Len(s) - i + 1]
<1> DEFINE r == Reverse(s)
<1>1. r = [i \in 1 .. Len(s) |-> s[(Len(s) - i) + 1]]
  BY DEF Reverse
<1>2. Len(s) \in Nat /\ \A i \in 1 .. Len(s) : s[(Len(s) - i) + 1] \in T
  OBVIOUS
<1> HIDE DEF r
<1>3. r \in [1 .. Len(s) -> T]
  BY <1>1, <1>2
<1>4. r \in Seq(T) /\ Len(r) = Len(s)
  BY <1>2, <1>3
<1> QED
  BY <1>1, <1>4 DEF r

LEMMA MatchesFinite ==
  ASSUME NEW q
  PROVE  /\ Matches(q) \in SUBSET Catalogue /\ Matches(q) \in SUBSET Int
         /\ IsFiniteSet(Matches(q)) /\ Count(q) \in Nat /\ Count(q) <= Cardinality(Catalogue)
         /\ Cardinality(Catalogue) \in Nat
<1> DEFINE M == Matches(q)
<1>1. M \in SUBSET Catalogue
  BY DEF Matches
<1>2. Catalogue \in SUBSET Int /\ IsFiniteSet(Catalogue)
  BY ShelfAssumption
<1> HIDE DEF M
<1>3. IsFiniteSet(M) /\ Cardinality(M) <= Cardinality(Catalogue)
  BY <1>1, <1>2, FS_Subset, Zenon
<1>4. Cardinality(M) \in Nat /\ Cardinality(Catalogue) \in Nat
  BY <1>2, <1>3, FS_CardinalityType
<1> QED
  BY <1>1, <1>2, <1>3, <1>4 DEF M, Count

\* The newest first: every product of the query, once.
LEMMA NewestFirstLists ==
  ASSUME NEW q
  PROVE  /\ NewestFirst(q) \in Seq(Matches(q)) /\ Len(NewestFirst(q)) = Count(q)
         /\ \A x \in Matches(q) : \E i \in 1 .. Count(q) : NewestFirst(q)[i] = x
<1> DEFINE M == Matches(q)  n == Count(q)  a == Ascending(M)  r == NewestFirst(q)
<1>1. M \in SUBSET Int /\ IsFiniteSet(M) /\ n \in Nat
  BY MatchesFinite
<1>2. n = Cardinality(M)
  BY DEF Count
<1>3. a \in [1 .. n -> M] /\ \A x \in M : \E i \in 1 .. n : a[i] = x
  <2> HIDE DEF M, n, a
  <2> QED
    BY <1>1, <1>2, AscendingLists DEF a
<1>4. r = Reverse(a)
  BY DEF NewestFirst
<1> HIDE DEF M, n, a, r
<1>5. a \in Seq(M) /\ Len(a) = n
  BY <1>1, <1>3
<1>6. r \in Seq(M) /\ Len(r) = n /\ \A i \in 1 .. n : r[i] = a[n - i + 1]
  BY <1>4, <1>5, ReversedList
<1>7. ASSUME NEW x \in M PROVE \E i \in 1 .. n : r[i] = x
  <2>1. PICK i \in 1 .. n : a[i] = x
    BY <1>3
  <2>2. n - i + 1 \in 1 .. n /\ n - (n - i + 1) + 1 = i
    BY <1>1
  <2> QED
    BY <1>6, <2>1, <2>2
<1> QED
  BY <1>6, <1>7 DEF M, n, r

\* Whatever the order, it lists products of the query, as many as there are.
LEMMA OrderingsList ==
  ASSUME NEW q, NEW order \in Orderings(q)
  PROVE  order \in Seq(Matches(q)) /\ Len(order) = Count(q)
<1> DEFINE M == Matches(q)  n == Count(q)
<1>1. n \in Nat /\ n = Cardinality(M)
  BY MatchesFinite DEF Count
<1>2. CASE q.sortBy = "createdAt"
  <2>1. order = NewestFirst(q)
    BY <1>2 DEF Orderings, NewestFirst
  <2> QED
    BY <2>1, NewestFirstLists
<1>3. CASE q.sortBy # "createdAt"
  <2>1. order \in [1 .. n -> M]
    BY <1>1, <1>3 DEF Orderings, SetToSeqs
  <2> HIDE DEF M, n
  <2>2. order \in Seq(M) /\ Len(order) = n
    BY <1>1, <2>1
  <2> QED
    BY <2>2 DEF M, n
<1> QED
  BY <1>2, <1>3

\* A page is what there is of the order from its first entry on, ItemsPerPage at most.
LEMMA PageIs ==
  ASSUME NEW T, NEW order \in Seq(T), NEW p \in Nat
  PROVE  LET first == p * ItemsPerPage
             data == PageOf(order, p)
         IN  /\ first \in Nat
             /\ (p + 1) * ItemsPerPage = first + ItemsPerPage
             /\ data \in Seq(T)
             /\ Len(data) \in Nat /\ Len(data) <= ItemsPerPage
             /\ first + Len(data) <= Len(order) \/ Len(data) = 0
             /\ \A i \in 1 .. ItemsPerPage : first + i <= Len(order) =>
                    i \in 1 .. Len(data) /\ data[i] = order[first + i]
<1> DEFINE first == p * ItemsPerPage  data == PageOf(order, p)
           end == IF first + ItemsPerPage < Len(order) THEN first + ItemsPerPage ELSE Len(order)
<1>1. ItemsPerPage \in Nat \ {0} /\ Len(order) \in Nat
  BY ShelfAssumption
<1>2. first \in Nat /\ (p + 1) * ItemsPerPage = first + ItemsPerPage
  BY <1>1
<1>3. data = SubSeq(order, first + 1, end)
  BY <1>2 DEF PageOf
<1> HIDE DEF first, data
<1>6. CASE first < Len(order)
  <2>1. /\ end \in Nat /\ end <= Len(order) /\ first + 1 <= end /\ end <= first + ItemsPerPage
        /\ \A i \in 1 .. ItemsPerPage : first + i <= Len(order) => i <= end - first
    BY <1>1, <1>2, <1>6
  <2> HIDE DEF end
  <2>2. first + 1 \in 1 .. Len(order) + 1 /\ end \in (first + 1) - 1 .. Len(order)
    BY <1>1, <1>2, <1>6, <2>1
  <2>3. /\ data \in Seq(T)
        /\ Len(data) = IF first + 1 <= end THEN end - (first + 1) + 1 ELSE 0
        /\ \A i \in 1 .. end - (first + 1) + 1 : data[i] = order[(first + 1) + i - 1]
    BY <1>3, <2>2, SubSeqProperties
  <2>4. Len(data) = end - first
    BY <1>2, <2>1, <2>3
  <2>5. \A i \in 1 .. end - first : data[i] = order[first + i]
    <3>1. \A i \in 1 .. end - first : i \in 1 .. end - (first + 1) + 1 /\ (first + 1) + i - 1 = first + i
      BY <1>2, <2>1
    <3> QED
      BY <2>3, <3>1
  <2>6. Len(data) \in Nat /\ Len(data) <= ItemsPerPage /\ first + Len(data) <= Len(order)
    BY <1>1, <1>2, <2>1, <2>4
  <2>7. \A i \in 1 .. ItemsPerPage : first + i <= Len(order) =>
            i \in 1 .. Len(data) /\ data[i] = order[first + i]
    BY <1>1, <1>2, <2>1, <2>4, <2>5
  <2> QED
    BY <1>2, <2>3, <2>6, <2>7, Zenon DEF first, data
<1>7. CASE first >= Len(order)
  <2>1. end = Len(order) /\ first + 1 > end /\ end \in Nat /\ first + 1 \in Nat
    BY <1>1, <1>2, <1>7
  <2> HIDE DEF end
  <2>2. data = <<>>
    BY <1>3, <2>1, SubSeqEmpty
  <2>3. data \in Seq(T) /\ Len(data) = 0
    BY <2>2
  <2>4. \A i \in 1 .. ItemsPerPage : ~(first + i <= Len(order))
    BY <1>1, <1>2, <1>7
  <2> QED
    BY <1>1, <1>2, <2>3, <2>4 DEF first, data
<1> QED
  BY <1>1, <1>2, <1>6, <1>7
\* What an answer with a page of a query can be.
LEMMA AnswerIs ==
  ASSUME NEW q \in QueryType, NEW data, NEW count, AnswerOf(q, data, count)
  PROVE  /\ q.page \in Nat /\ q.page * ItemsPerPage \in Nat
         /\ (q.page + 1) * ItemsPerPage = q.page * ItemsPerPage + ItemsPerPage
         /\ count = Count(q) /\ count \in Nat
         /\ data \in Seq(Catalogue) /\ Len(data) \in Nat /\ Len(data) <= ItemsPerPage
         /\ data = <<>> => count <= q.page * ItemsPerPage
         /\ q.sortBy = "createdAt" =>
               \A i \in 1 .. ItemsPerPage : q.page * ItemsPerPage + i <= count =>
                   i \in 1 .. Len(data) /\ data[i] = NewestFirst(q)[q.page * ItemsPerPage + i]
<1>1. PICK order \in Orderings(q) : data = PageOf(order, q.page)
  BY DEF AnswerOf
<1>2. q.page \in Nat /\ count = Count(q) /\ count \in Nat /\ ItemsPerPage \in Nat \ {0}
  BY MatchesFinite, ShelfAssumption DEF AnswerOf, QueryType
<1>3. order \in Seq(Catalogue) /\ Len(order) = count
  <2>1. order \in Seq(Matches(q)) /\ Len(order) = Count(q)
    BY OrderingsList
  <2>2. Matches(q) \subseteq Catalogue
    BY MatchesFinite
  <2> QED
    BY <1>2, <2>1, <2>2, SeqMonotonic
<1> DEFINE first == q.page * ItemsPerPage
<1>4. /\ first \in Nat
      /\ (q.page + 1) * ItemsPerPage = first + ItemsPerPage
      /\ data \in Seq(Catalogue)
      /\ Len(data) \in Nat /\ Len(data) <= ItemsPerPage
      /\ \A i \in 1 .. ItemsPerPage : first + i <= Len(order) =>
             i \in 1 .. Len(data) /\ data[i] = order[first + i]
  <2> DEFINE C == Catalogue  p == q.page
  <2>1. order \in Seq(C) /\ p \in Nat /\ data = PageOf(order, p)
    BY <1>1, <1>2, <1>3
  <2> HIDE DEF C, p
  <2>2. /\ p * ItemsPerPage \in Nat
        /\ (p + 1) * ItemsPerPage = p * ItemsPerPage + ItemsPerPage
        /\ data \in Seq(C)
        /\ Len(data) \in Nat /\ Len(data) <= ItemsPerPage
        /\ \A i \in 1 .. ItemsPerPage : p * ItemsPerPage + i <= Len(order) =>
               i \in 1 .. Len(data) /\ data[i] = order[p * ItemsPerPage + i]
    BY <2>1, PageIs, Zenon
  <2> QED
    BY <2>2, Zenon DEF C, p
<1> HIDE DEF first
<1>5. data = <<>> => count <= first
  <2> SUFFICES ASSUME data = <<>>, first + 1 <= count PROVE FALSE
    BY <1>2, <1>4
  <2>1. 1 \in 1 .. Len(data)
    BY <1>2, <1>3, <1>4
  <2>2. Len(data) = 0
    OBVIOUS
  <2> QED
    BY <2>1, <2>2
<1>6. q.sortBy = "createdAt" => order = NewestFirst(q)
  BY DEF Orderings, NewestFirst
<1> QED
  BY <1>2, <1>3, <1>4, <1>5, <1>6 DEF first

\* With the same filter and text as another, a query is of the same products.
LEMMA SameMatches ==
  ASSUME NEW q, NEW r, q.filter = r.filter, q.search = r.search
  PROVE  Matches(q) = Matches(r) /\ Count(q) = Count(r) /\ NewestFirst(q) = NewestFirst(r)
<1>1. Matches(q) = Matches(r)
  BY DEF Matches
<1> QED
  BY <1>1 DEF Count, NewestFirst

LEMMA ShelfStart == ShelfInit => ShelfInv
<1> SUFFICES ASSUME ShelfInit PROVE ShelfInv
  OBVIOUS
<1> USE DEF ShelfInit
<1>1. UnderWayQs = {FirstQuery}
  BY DEF UnderWayQs
<1>2. FirstQuery \in QueryType /\ FirstQuery.n = 1 /\ 1 \in 1 .. MaxQueries
  BY ShelfAssumption DEF FirstQuery, Query, QueryType, Orders
<1>3. ShelfTypes
  <2>1. \A q \in UnderWayQs : q.n <= queried
    BY <1>1, <1>2
  <2>2. sortBy \in Orders /\ pageNumber \in Nat /\ queried \in 1 .. MaxQueries /\ walked \subseteq Catalogue
    BY <1>2 DEF Orders
  <2> QED
    BY <1>1, <1>2, <2>1, <2>2 DEF ShelfTypes
<1>4. NewestIsSet /\ NewestArrives /\ NothingOlder
  <2>1. FirstQuery.filter = FALSE /\ FirstQuery.sortBy = "createdAt" /\ FirstQuery.page = 0
    BY DEF FirstQuery, Query
  <2>2. NewestIsSet
    BY <1>1, <2>1 DEF NewestIsSet
  <2>3. NewestArrives
    BY <1>2 DEF NewestArrives
  <2>4. NothingOlder
    BY <1>1, <1>2 DEF NothingOlder
  <2> QED
    BY <2>2, <2>3, <2>4
<1> QED
  BY <1>1, <1>3, <1>4 DEF ShelfInv, Answers, ShownIsAnswer, PageIsReached

LEMMA FindKeeps == ShelfInv /\ FindAll => ShelfInv'
<1> SUFFICES ASSUME ShelfInv, FindAll PROVE ShelfInv'
  OBVIOUS
<1>1. PICK q \in queries :
          /\ queries' = queries \ {q}
          /\ \/ \E order \in Orderings(q) :
                   results' = results \cup {[q |-> q, ok |-> TRUE, data |-> PageOf(order, q.page),
                                             total |-> Len(order)]}
             \/ results' = results \cup {[q |-> q, ok |-> FALSE, data |-> <<>>, total |-> 0]}
  BY DEF FindAll
<1>2. UNCHANGED <<controls, shelf, queried>>
  BY DEF FindAll
<1> USE DEF controls, shelf
<1>3. UnderWayQs' = UnderWayQs
  <2>1. \E a : a.q = q /\ results' = results \cup {a}
    BY <1>1
  <2>2. PICK a : a.q = q /\ results' = results \cup {a}
    BY <2>1
  <2> QED
    BY <1>1, <2>2 DEF UnderWayQs
<1>4. q \in QueryType /\ \A a \in results' : a.q \in QueryType
  BY <1>1 DEF ShelfInv, ShelfTypes
<1>5. ShelfTypes'
  BY <1>1, <1>2, <1>3, <1>4 DEF ShelfInv, ShelfTypes
<1>6. Answers'
  <2> SUFFICES ASSUME NEW a \in results', a.ok, a \notin results
               PROVE  AnswerOf(a.q, a.data, a.total)
    BY DEF ShelfInv, Answers, AnswerOf, Count, Matches, Orderings, PageOf
  <2>1. PICK order \in Orderings(q) :
            a = [q |-> q, ok |-> TRUE, data |-> PageOf(order, q.page), total |-> Len(order)]
    BY <1>1
  <2> QED
    BY <2>1, OrderingsList DEF AnswerOf
<1>7. ShownIsAnswer' /\ NewestIsSet' /\ NewestArrives' /\ PageIsReached' /\ NothingOlder'
  BY <1>2, <1>3 DEF ShelfInv, ShownIsAnswer, NewestIsSet, NewestArrives, PageIsReached,
     NothingOlder
<1> QED
  BY <1>5, <1>6, <1>7 DEF ShelfInv

LEMMA ReceiveProductsKeeps == ShelfInv /\ ReceiveProducts => ShelfInv'
<1> SUFFICES ASSUME ShelfInv, ReceiveProducts PROVE ShelfInv'
  OBVIOUS
<1>1. PICK a \in results :
          /\ results' = results \ {a}
          /\ loadingProducts' = FALSE
          /\ IF a.ok THEN /\ products' = a.data /\ totalCount' = a.total
                          /\ hasMore' = HasMore(a.q.page, a.total)
                          /\ UNCHANGED loadError
                     ELSE loadError' = TRUE /\ UNCHANGED <<products, totalCount, hasMore>>
          /\ shownFor' = IF a.ok THEN a.q ELSE shownFor
          /\ muddled' = (muddled \/ \E q \in queries \cup {b.q : b \in results} : q.n < a.q.n)
  BY DEF ReceiveProducts
<1>2. UNCHANGED <<controls, queries, queried, walked>>
  BY DEF ReceiveProducts
<1> USE DEF controls
<1>3. /\ a.q \in UnderWayQs /\ UnderWayQs' \subseteq UnderWayQs
      /\ \A q \in UnderWayQs : q \in UnderWayQs' \/ q = a.q
  BY <1>1, <1>2 DEF UnderWayQs
<1>4. /\ a.q \in QueryType /\ shownFor \in QueryType
      /\ \A q \in UnderWayQs : q \in QueryType /\ q.n \in Int /\ q.n <= queried
      /\ queried \in Int /\ shownFor.n \in Int
  BY DEF ShelfInv, ShelfTypes, UnderWayQs, QueryType
<1>5. muddled' = (muddled \/ \E q \in UnderWayQs : q.n < a.q.n)
  BY <1>1 DEF UnderWayQs
<1>6. ShelfTypes'
  <2>1. {hasMore', loadError', muddled'} \subseteq BOOLEAN
    <3>1. a.ok => hasMore' \in BOOLEAN
      BY <1>1 DEF HasMore
    <3> QED
      BY <1>1, <3>1 DEF ShelfInv, ShelfTypes
  <2> QED
    BY <1>1, <1>2, <1>3, <1>4, <2>1 DEF ShelfInv, ShelfTypes
<1>7. Answers'
  BY <1>1 DEF ShelfInv, Answers, AnswerOf, Count, Matches, Orderings, PageOf
<1>8. ShownIsAnswer'
  <2>1. CASE a.ok
    BY <1>1, <2>1 DEF ShelfInv, Answers, ShownIsAnswer
  <2>2. CASE ~a.ok
    BY <1>1, <1>2, <2>2 DEF ShelfInv, ShownIsAnswer
  <2> QED
    BY <2>1, <2>2
<1>9. NewestIsSet'
  BY <1>1, <1>2, <1>3 DEF ShelfInv, NewestIsSet
<1>10. NewestArrives'
  <2> SUFFICES ASSUME ~muddled', ~loadError'
               PROVE  shownFor'.n = queried \/ \E q \in UnderWayQs' : q.n = queried
    BY <1>2 DEF NewestArrives
  <2>1. a.ok /\ ~muddled /\ ~loadError /\ shownFor' = a.q
    BY <1>1
  <2>2. shownFor.n = queried => a.q.n = queried
    BY <1>3, <1>4, <2>1 DEF ShelfInv, NothingOlder
  <2> QED
    BY <1>3, <2>1, <2>2 DEF ShelfInv, NewestArrives
<1>11. NothingOlder'
  <2> SUFFICES ASSUME ~muddled', NEW q \in UnderWayQs' PROVE shownFor'.n <= q.n
    BY DEF NothingOlder
  <2>1. ~(q.n < a.q.n) /\ ~muddled /\ q \in UnderWayQs
    BY <1>3, <1>5
  <2> QED
    BY <1>1, <1>3, <1>4, <2>1 DEF ShelfInv, NothingOlder
<1>12. PageIsReached'
  <2> SUFFICES ASSUME ~muddled', pageNumber > 0
               PROVE  /\ shownFor'.filter = filter /\ shownFor'.sortBy = sortBy
                      /\ pageNumber * ItemsPerPage < Count(shownFor')
                      /\ \A q \in UnderWayQs' : q.n = queried /\ q.search = shownFor'.search
                      /\ sortBy = "createdAt" =>
                             \A i \in 1 .. pageNumber * ItemsPerPage :
                                 NewestFirst(shownFor')[i] \in walked
    BY <1>2 DEF PageIsReached, Count, NewestFirst, Matches
  <2>1. ~muddled
    BY <1>5
  <2>2. /\ shownFor.filter = filter /\ shownFor.sortBy = sortBy
        /\ pageNumber * ItemsPerPage < Count(shownFor)
        /\ \A q \in UnderWayQs : q.n = queried /\ q.search = shownFor.search
        /\ sortBy = "createdAt" =>
               \A i \in 1 .. pageNumber * ItemsPerPage : NewestFirst(shownFor)[i] \in walked
    BY <2>1 DEF ShelfInv, PageIsReached
  <2>3. a.q.filter = filter /\ a.q.sortBy = sortBy /\ a.q.search = shownFor.search
    BY <1>3, <2>2 DEF ShelfInv, NewestIsSet
  <2>4. Count(a.q) = Count(shownFor) /\ NewestFirst(a.q) = NewestFirst(shownFor)
    BY <2>2, <2>3, SameMatches
  <2>5. shownFor' = a.q \/ shownFor' = shownFor
    BY <1>1
  <2> QED
    BY <1>3, <2>2, <2>3, <2>4, <2>5
<1> QED
  BY <1>6, <1>7, <1>8, <1>9, <1>10, <1>11, <1>12 DEF ShelfInv

\* A request is sent: the last one asked for carries the new controls.
LEMMA LoadKeeps ==
  ASSUME ShelfInv, NEW fresh \in SUBSET QueryType, LoadProducts(fresh),
         search' \in BOOLEAN, filter' \in BOOLEAN, sortBy' \in Orders, pageNumber' \in Nat,
         walked' \subseteq Catalogue,
         \A q \in fresh : queried < q.n /\ q.n <= queried',
         \A q \in fresh : q.n = queried' =>
             q.filter = filter' /\ q.sortBy = sortBy' /\ q.page = pageNumber',
         \E q \in fresh : q.n = queried',
         PageIsReached'
  PROVE  ShelfInv'
<1>1. /\ queried + Cardinality(fresh) <= MaxQueries
      /\ queried' = queried + Cardinality(fresh)
      /\ queries' = queries \cup fresh
      /\ loadingProducts' = TRUE /\ loadError' = FALSE
      /\ muddled' = IF queries \cup results # {} THEN TRUE
                    ELSE /\ \A q \in fresh : q.page # 0
                         /\ muddled \/ \E q \in fresh :
                                <<q.search, q.sortBy>> # <<shownFor.search, shownFor.sortBy>>
      /\ UNCHANGED <<products, totalCount, hasMore, results, shownFor>>
  BY DEF LoadProducts
<1>2. UnderWayQs' = UnderWayQs \cup fresh
  BY <1>1 DEF UnderWayQs
<1>3. muddled' \in BOOLEAN /\ (~muddled' => UnderWayQs = {})
  BY <1>1 DEF UnderWayQs
<1>4. /\ queried \in 1 .. MaxQueries /\ MaxQueries \in Nat
      /\ \A q \in UnderWayQs : q.n \in Int /\ q.n <= queried
      /\ \A q \in fresh : q.n \in 1 .. MaxQueries
      /\ shownFor.n \in Int /\ shownFor.n <= queried /\ shownFor \in QueryType
  BY ShelfAssumption DEF ShelfInv, ShelfTypes, UnderWayQs, QueryType
<1>5. queried' \in 1 .. MaxQueries /\ queried < queried'
  <2>1. PICK q \in fresh : q.n = queried'
    OBVIOUS
  <2> QED
    BY <1>4, <2>1
<1>6. ShelfTypes'
  <2>1. \A q \in UnderWayQs' : q.n <= queried'
    BY <1>2, <1>4, <1>5
  <2>2. shownFor'.n <= queried'
    BY <1>1, <1>4, <1>5
  <2>3. {search', filter', hasMore', loadingProducts', loadError', muddled'} \subseteq BOOLEAN
    BY <1>1, <1>3 DEF ShelfInv, ShelfTypes
  <2> QED
    BY <1>1, <1>5, <2>1, <2>2, <2>3 DEF ShelfInv, ShelfTypes
<1>7. Answers'
  BY <1>1 DEF ShelfInv, Answers, AnswerOf, Count, Matches, Orderings, PageOf
<1>8. ShownIsAnswer'
  <2>1. queried' > 1
    BY <1>4, <1>5
  <2> QED
    BY <1>1, <2>1 DEF ShelfInv, ShownIsAnswer, AnswerOf, Count, Matches, Orderings, PageOf, HasMore
<1>9. NewestIsSet'
  <2>1. \A q \in UnderWayQs \cup {shownFor} : q.n # queried'
    BY <1>4, <1>5
  <2> QED
    BY <1>1, <1>2, <2>1 DEF NewestIsSet
<1>10. NewestArrives'
  BY <1>2 DEF NewestArrives
<1>11. NothingOlder'
  <2> SUFFICES ASSUME ~muddled', NEW q \in fresh PROVE shownFor'.n <= q.n
    BY <1>2, <1>3 DEF NothingOlder
  <2> QED
    BY <1>1, <1>4
<1> QED
  BY <1>6, <1>7, <1>8, <1>9, <1>10, <1>11 DEF ShelfInv

\* One request with the new controls.
LEMMA OneLoadKeeps ==
  ASSUME ShelfInv, NEW text \in BOOLEAN, NEW narrowed \in BOOLEAN, NEW order \in Orders,
         NEW p \in Nat, LoadProducts({Query(text, narrowed, order, p, queried + 1)}),
         search' \in BOOLEAN, filter' = narrowed, sortBy' = order, pageNumber' = p,
         walked' \subseteq Catalogue, PageIsReached'
  PROVE  ShelfInv'
<1> DEFINE q == Query(text, narrowed, order, p, queried + 1)
<1>1. q.filter = narrowed /\ q.sortBy = order /\ q.page = p /\ q.n = queried + 1
  BY DEF Query
<1>2. Cardinality({q}) = 1
  BY FS_Singleton
<1>3. queried \in Nat /\ queried + 1 <= MaxQueries /\ queried' = queried + 1 /\ MaxQueries \in Nat
  BY <1>2, ShelfAssumption DEF LoadProducts, ShelfInv, ShelfTypes
<1>4. q \in QueryType
  BY <1>3 DEF Query, QueryType
<1> HIDE DEF q
<1>5. {q} \in SUBSET QueryType /\ LoadProducts({q})
  BY <1>4 DEF q
<1>6. \A r \in {q} : queried < r.n /\ r.n <= queried'
  BY <1>1, <1>3
<1> QED
  BY <1>1, <1>3, <1>5, <1>6, LoadKeeps

\* Of a request for a later page that does not muddle the walk, the text and
\* the order are those that are shown, and nothing else is under way.
LEMMA LaterPage ==
  ASSUME ShelfInv, NEW text, NEW narrowed, NEW order, NEW p, ~muddled',
         LoadProducts({Query(text, narrowed, order, p, queried + 1)}), p # 0
  PROVE  /\ ~muddled /\ UnderWayQs = {}
         /\ text = shownFor.search /\ order = shownFor.sortBy
         /\ \A q \in UnderWayQs' : q.n = queried' /\ q.search = text
<1> DEFINE q == Query(text, narrowed, order, p, queried + 1)
<1>1. q.search = text /\ q.sortBy = order /\ q.page = p /\ q.n = queried + 1
  BY DEF Query
<1>2. Cardinality({q}) = 1
  BY FS_Singleton
<1> HIDE DEF q
<1>3. /\ queried' = queried + Cardinality({q}) /\ queries' = queries \cup {q} /\ results' = results
      /\ muddled' = IF queries \cup results # {} THEN TRUE
                    ELSE /\ \A r \in {q} : r.page # 0
                         /\ muddled \/ \E r \in {q} :
                                <<r.search, r.sortBy>> # <<shownFor.search, shownFor.sortBy>>
  BY DEF LoadProducts, q
<1>4. queries = {} /\ results = {} /\ UnderWayQs = {} /\ UnderWayQs' = {q}
  BY <1>3 DEF UnderWayQs
<1>5. ~muddled /\ <<q.search, q.sortBy>> = <<shownFor.search, shownFor.sortBy>>
  BY <1>1, <1>3, <1>4
<1>6. queried' = queried + 1
  BY <1>2, <1>3
<1> QED
  BY <1>1, <1>4, <1>5, <1>6

LEMMA FirstPageReached == ASSUME pageNumber' = 0 PROVE PageIsReached'
  BY DEF PageIsReached

\* Whatever else a step changes, the page walked to is still reached.
LEMMA RestKeepsShelf ==
  ASSUME ShelfInv, search' \in BOOLEAN, walked' \subseteq Catalogue,
         walked' = walked \/ PageIsReached',
         UNCHANGED <<filter, sortBy, pageNumber, products, totalCount, hasMore, loadingProducts,
                     loadError, shownFor, muddled, queries, results, queried>>
  PROVE  ShelfInv'
<1>1. UnderWayQs' = UnderWayQs
  BY DEF UnderWayQs
<1>2. ShelfTypes'
  BY <1>1 DEF ShelfInv, ShelfTypes
<1>3. Answers' /\ ShownIsAnswer'
  BY <1>1 DEF ShelfInv, Answers, ShownIsAnswer, AnswerOf, Count, Matches, Orderings, PageOf, HasMore
<1>4. NewestIsSet' /\ NewestArrives' /\ NothingOlder'
  BY <1>1 DEF ShelfInv, NewestIsSet, NewestArrives, NothingOlder
<1>5. PageIsReached'
  BY <1>1 DEF ShelfInv, PageIsReached, Count, NewestFirst, Matches
<1> QED
  BY <1>2, <1>3, <1>4, <1>5 DEF ShelfInv

\* The box says nothing to the service.
LEMMA TypeKeeps == ShelfInv /\ Type => ShelfInv'
<1> SUFFICES ASSUME ShelfInv, Type PROVE ShelfInv'
  OBVIOUS
<1>1. search' \in BOOLEAN /\ UNCHANGED <<filter, sortBy, pageNumber, shelf, queries, results, queried>>
  BY DEF Type
<1> QED
  BY <1>1, RestKeepsShelf DEF shelf, ShelfInv, ShelfTypes

LEMMA HandleSearchKeeps == ShelfInv /\ HandleSearch => ShelfInv'
<1> SUFFICES ASSUME ShelfInv, HandleSearch PROVE ShelfInv'
  OBVIOUS
<1> DEFINE old == Query(search, filter, sortBy, pageNumber, queried + 1)
           new == Query(search, filter, sortBy, 0, queried + 2)
           fresh == IF pageNumber = 0 THEN {old} ELSE {old, new}
<1>1. /\ LoadProducts(fresh) /\ pageNumber' = 0 /\ walked' = {}
      /\ UNCHANGED <<search, filter, sortBy>>
  BY DEF HandleSearch
<1>2. /\ search \in BOOLEAN /\ filter \in BOOLEAN /\ sortBy \in Orders /\ pageNumber \in Nat
      /\ queried \in 1 .. MaxQueries /\ MaxQueries \in Nat
  BY ShelfAssumption DEF ShelfInv, ShelfTypes
<1>3. /\ old.filter = filter /\ old.sortBy = sortBy /\ old.page = pageNumber /\ old.n = queried + 1
      /\ new.filter = filter /\ new.sortBy = sortBy /\ new.page = 0 /\ new.n = queried + 2
  BY DEF Query
<1>4. PageIsReached'
  BY <1>1, FirstPageReached
<1>5. queried' = queried + Cardinality(fresh) /\ queried' <= MaxQueries
  BY <1>1 DEF LoadProducts
<1>6. CASE pageNumber = 0
  BY <1>1, <1>2, <1>4, <1>6, OneLoadKeeps
<1>7. CASE pageNumber # 0
  <2>1. fresh = {old, new}
    BY <1>7
  <2>2. old # new
    BY <1>2, <1>3
  <2>3. Cardinality({old, new}) = 2
    <3> HIDE DEF old, new
    <3>1. IsFiniteSet({old}) /\ Cardinality({old}) = 1
      BY FS_Singleton
    <3>2. Cardinality({old} \cup {new}) = Cardinality({old}) + 1
      BY <2>2, <3>1, FS_AddElement
    <3>3. {old, new} = {old} \cup {new}
      OBVIOUS
    <3> QED
      BY <3>1, <3>2, <3>3
  <2>4. queried' = queried + 2
    BY <1>5, <2>1, <2>3
  <2>5. old \in QueryType /\ new \in QueryType
    BY <1>2, <1>5, <2>4 DEF Query, QueryType
  <2> HIDE DEF old, new, fresh
  <2>6. fresh \in SUBSET QueryType
    BY <2>1, <2>5
  <2>7. /\ \A q \in fresh : queried < q.n /\ q.n <= queried'
        /\ \A q \in fresh : q.n = queried' => q = new
        /\ new \in fresh /\ new.n = queried'
    BY <1>2, <1>3, <2>1, <2>4
  <2>8. \A q \in fresh : q.n = queried' =>
            q.filter = filter' /\ q.sortBy = sortBy' /\ q.page = pageNumber'
    BY <1>1, <1>3, <2>7
  <2>9. walked' \subseteq Catalogue /\ search' \in BOOLEAN /\ filter' \in BOOLEAN
        /\ sortBy' \in Orders /\ pageNumber' \in Nat
    BY <1>1, <1>2
  <2> QED
    BY <1>1, <1>4, <2>6, <2>7, <2>8, <2>9, LoadKeeps
<1> QED
  BY <1>6, <1>7

LEMMA ChangeFilterKeeps == ShelfInv /\ ChangeFilter => ShelfInv'
<1> SUFFICES ASSUME ShelfInv, ChangeFilter PROVE ShelfInv'
  OBVIOUS
<1>1. search \in BOOLEAN /\ filter \in BOOLEAN /\ sortBy \in Orders
  BY DEF ShelfInv, ShelfTypes
<1>2. /\ search' = search /\ filter' = ~filter /\ sortBy' = sortBy /\ pageNumber' = 0
      /\ walked' = {}
      /\ LoadProducts({Query(search, ~filter, sortBy, 0, queried + 1)})
  BY <1>1 DEF ChangeFilter, SetControls, Effect
<1> QED
  BY <1>1, <1>2, FirstPageReached, OneLoadKeeps

\* Another order on a later page is another list than the one walked through.
LEMMA ChangeSortKeeps == ShelfInv /\ ChangeSort => ShelfInv'
<1> SUFFICES ASSUME ShelfInv, ChangeSort PROVE ShelfInv'
  OBVIOUS
<1>1. search \in BOOLEAN /\ filter \in BOOLEAN /\ sortBy \in Orders /\ pageNumber \in Nat
  BY DEF ShelfInv, ShelfTypes
<1>2. PICK order \in Orders \ {sortBy} :
          /\ SetControls(search, filter, order, pageNumber)
          /\ Effect(search, filter, order, pageNumber)
  BY DEF ChangeSort
<1>3. /\ search' = search /\ filter' = filter /\ sortBy' = order /\ pageNumber' = pageNumber
      /\ walked' = {}
      /\ LoadProducts({Query(search, filter, order, pageNumber, queried + 1)})
  BY <1>2 DEF ChangeSort, SetControls, Effect
<1>4. PageIsReached'
  <2> SUFFICES ASSUME ~muddled', pageNumber > 0 PROVE FALSE
    BY <1>3 DEF PageIsReached
  <2>1. ~muddled /\ order = shownFor.sortBy
    BY <1>1, <1>3, LaterPage
  <2> QED
    BY <1>2, <2>1 DEF ShelfInv, PageIsReached
<1> QED
  BY <1>1, <1>2, <1>3, <1>4, OneLoadKeeps

LEMMA ClearFiltersKeeps == ShelfInv /\ ClearFilters => ShelfInv'
<1> SUFFICES ASSUME ShelfInv, ClearFilters PROVE ShelfInv'
  OBVIOUS
<1>1. search' = FALSE /\ filter' = FALSE /\ sortBy' = "createdAt" /\ pageNumber' = 0 /\ walked' = {}
  BY DEF ClearFilters, SetControls
<1>2. Effect(FALSE, FALSE, "createdAt", 0)
  BY DEF ClearFilters
<1>3. CASE <<FALSE, "createdAt", 0>> = <<filter, sortBy, pageNumber>>
  <2>1. UNCHANGED <<queries, queried, results, products, totalCount, hasMore, loadingProducts,
                    loadError, shownFor, muddled>>
    BY <1>2, <1>3 DEF Effect
  <2>2. UNCHANGED <<filter, sortBy, pageNumber>> /\ search' \in BOOLEAN
    BY <1>1, <1>3
  <2>3. walked' \subseteq Catalogue /\ PageIsReached'
    BY <1>1, FirstPageReached
  <2> QED
    BY <2>1, <2>2, <2>3, RestKeepsShelf
<1>4. CASE <<FALSE, "createdAt", 0>> # <<filter, sortBy, pageNumber>>
  <2>1. LoadProducts({Query(FALSE, FALSE, "createdAt", 0, queried + 1)})
    BY <1>2, <1>4 DEF Effect
  <2>2. "createdAt" \in Orders /\ PageIsReached' /\ walked' \subseteq Catalogue
    BY <1>1, FirstPageReached DEF Orders
  <2> QED
    BY <1>1, <2>1, <2>2, OneLoadKeeps
<1> QED
  BY <1>3, <1>4

\* With nothing under way or wrong, what the page shows is the query sent last.
LEMMA ShownIsNewest ==
  ASSUME ShelfInv, ~muddled, ~loadError, UnderWayQs = {}
  PROVE  /\ shownFor.n = queried /\ shownFor \in QueryType
         /\ shownFor.filter = filter /\ shownFor.sortBy = sortBy /\ shownFor.page = pageNumber
BY DEF ShelfInv, NewestArrives, NewestIsSet, ShelfTypes

LEMMA NextPageKeeps == ShelfInv /\ NextPage => ShelfInv'
<1> SUFFICES ASSUME ShelfInv, NextPage PROVE ShelfInv'
  OBVIOUS
<1>1. /\ search \in BOOLEAN /\ filter \in BOOLEAN /\ sortBy \in Orders /\ pageNumber \in Nat
      /\ walked \subseteq Catalogue /\ ItemsPerPage \in Nat \ {0} /\ shownFor \in QueryType
  BY ShelfAssumption DEF ShelfInv, ShelfTypes
<1> DEFINE p == pageNumber + 1
<1>2. pageNumber # p /\ p \in Nat /\ p > 0 /\ p # 0
  BY <1>1
<1>3. /\ search' = search /\ filter' = filter /\ sortBy' = sortBy /\ pageNumber' = p
      /\ walked' = walked \cup ToSet(products)
      /\ LoadProducts({Query(search, filter, sortBy, p, queried + 1)})
      /\ ~loadError /\ hasMore
  BY <1>2 DEF NextPage, TurnTo, SetControls, Effect, PagerShown
<1>4. shownFor' = shownFor
  BY <1>3 DEF LoadProducts
<1> HIDE DEF p
\* "Next" is offered: the page shown is full, and there is more.
<1>5. AnswerOf(shownFor, products, totalCount) /\ HasMore(shownFor.page, totalCount)
  BY <1>3 DEF ShelfInv, ShownIsAnswer
<1> DEFINE first == shownFor.page * ItemsPerPage
<1>6. /\ shownFor.page \in Nat /\ first \in Nat
      /\ (shownFor.page + 1) * ItemsPerPage = first + ItemsPerPage
      /\ totalCount = Count(shownFor) /\ totalCount \in Nat
      /\ products \in Seq(Catalogue) /\ Len(products) \in Nat
      /\ shownFor.sortBy = "createdAt" =>
            \A i \in 1 .. ItemsPerPage : first + i <= totalCount =>
                i \in 1 .. Len(products) /\ products[i] = NewestFirst(shownFor)[first + i]
  BY <1>1, <1>5, AnswerIs
<1>7. first + ItemsPerPage < totalCount
  BY <1>5, <1>6 DEF HasMore
<1>8. ToSet(products) \subseteq Catalogue
  BY <1>6 DEF ToSet
<1>9. PageIsReached'
  <2> SUFFICES ASSUME ~muddled'
               PROVE  /\ shownFor.filter = filter /\ shownFor.sortBy = sortBy
                      /\ p * ItemsPerPage < Count(shownFor)
                      /\ \A q \in UnderWayQs' : q.n = queried' /\ q.search = shownFor.search
                      /\ sortBy = "createdAt" =>
                             \A i \in 1 .. p * ItemsPerPage :
                                 NewestFirst(shownFor)[i] \in walked'
    BY <1>3, <1>4 DEF PageIsReached, Count, NewestFirst, Matches
  <2>1. /\ ~muddled /\ UnderWayQs = {} /\ search = shownFor.search
        /\ \A q \in UnderWayQs' : q.n = queried' /\ q.search = search
    BY <1>2, <1>3, LaterPage
  <2>2. shownFor.filter = filter /\ shownFor.sortBy = sortBy /\ shownFor.page = pageNumber
    BY <1>3, <2>1, ShownIsNewest
  <2>3. p * ItemsPerPage = first + ItemsPerPage
    BY <1>6, <2>2 DEF p
  <2>4. ASSUME sortBy = "createdAt", NEW i \in 1 .. first + ItemsPerPage
        PROVE  NewestFirst(shownFor)[i] \in walked'
    <3>1. CASE i <= first
      <4>1. pageNumber > 0
        <5> SUFFICES ASSUME pageNumber = 0 PROVE FALSE
          BY <1>1
        <5>1. first = 0
          BY <1>1, <2>2
        <5> QED
          BY <3>1, <5>1
      <4>2. i \in 1 .. pageNumber * ItemsPerPage
        BY <1>6, <2>2, <3>1
      <4> QED
        BY <1>3, <2>1, <2>4, <4>1, <4>2 DEF ShelfInv, PageIsReached
    <3>2. CASE ~(i <= first)
      <4> DEFINE j == i - first
      <4>1. j \in 1 .. ItemsPerPage /\ first + j = i /\ first + j <= totalCount
        BY <1>1, <1>6, <1>7, <3>2, SMTT(30)
      <4> HIDE DEF j, first
      <4>2. j \in 1 .. Len(products) /\ products[j] = NewestFirst(shownFor)[i]
        BY <1>6, <2>2, <2>4, <4>1
      <4>3. products[j] \in ToSet(products)
        BY <1>6, <4>2 DEF ToSet
      <4> QED
        BY <1>3, <4>2, <4>3
    <3> QED
      BY <3>1, <3>2
  <2> HIDE DEF first
  <2> QED
    BY <1>6, <1>7, <2>1, <2>2, <2>3, <2>4
<1> QED
  BY <1>1, <1>2, <1>3, <1>8, <1>9, OneLoadKeeps

\* A page before one that is reached is reached.
LEMMA EarlierPages ==
  ASSUME ShelfInv, NEW p \in Nat, p > 0, p <= pageNumber, ~muddled', walked' = walked,
         LoadProducts({Query(search, filter, sortBy, p, queried + 1)}),
         UNCHANGED <<search, filter, sortBy>>, pageNumber' = p
  PROVE  PageIsReached'
<1>1. pageNumber \in Nat /\ ItemsPerPage \in Nat \ {0}
  BY ShelfAssumption DEF ShelfInv, ShelfTypes
<1>2. /\ ~muddled /\ search = shownFor.search
      /\ \A q \in UnderWayQs' : q.n = queried' /\ q.search = search
  BY LaterPage
<1>3. shownFor' = shownFor
  BY DEF LoadProducts
<1>4. /\ shownFor.filter = filter /\ shownFor.sortBy = sortBy
      /\ pageNumber * ItemsPerPage < Count(shownFor)
      /\ sortBy = "createdAt" =>
             \A i \in 1 .. pageNumber * ItemsPerPage : NewestFirst(shownFor)[i] \in walked
  BY <1>1, <1>2 DEF ShelfInv, PageIsReached
<1>5. p * ItemsPerPage <= pageNumber * ItemsPerPage
  BY <1>1
<1>6. Count(shownFor) \in Nat /\ p * ItemsPerPage \in Nat /\ pageNumber * ItemsPerPage \in Nat
  BY <1>1, MatchesFinite
<1>7. p * ItemsPerPage < Count(shownFor)
  BY <1>4, <1>5, <1>6
<1>8. sortBy = "createdAt" =>
          \A i \in 1 .. p * ItemsPerPage : NewestFirst(shownFor)[i] \in walked
  BY <1>4, <1>5, <1>6
<1> QED
  BY <1>2, <1>3, <1>4, <1>7, <1>8 DEF PageIsReached, Count, NewestFirst, Matches

LEMMA PreviousPageKeeps == ShelfInv /\ PreviousPage => ShelfInv'
<1> SUFFICES ASSUME ShelfInv, PreviousPage PROVE ShelfInv'
  OBVIOUS
<1>1. /\ search \in BOOLEAN /\ filter \in BOOLEAN /\ sortBy \in Orders /\ pageNumber \in Nat
      /\ walked \subseteq Catalogue
  BY DEF ShelfInv, ShelfTypes
<1> DEFINE p == pageNumber - 1
<1>2. pageNumber # p /\ p \in Nat /\ p <= pageNumber
  BY <1>1 DEF PreviousPage
<1>3. /\ search' = search /\ filter' = filter /\ sortBy' = sortBy /\ pageNumber' = p
      /\ walked' = walked
      /\ LoadProducts({Query(search, filter, sortBy, p, queried + 1)})
  BY <1>2 DEF PreviousPage, TurnTo, SetControls, Effect
<1> HIDE DEF p
<1>4. PageIsReached'
  <2>1. CASE p = 0
    BY <1>3, <2>1, FirstPageReached
  <2>2. CASE p > 0 /\ ~muddled'
    BY <1>2, <1>3, <2>2, EarlierPages
  <2>3. CASE muddled'
    BY <2>3 DEF PageIsReached
  <2> QED
    BY <1>2, <2>1, <2>2, <2>3
<1> QED
  BY <1>1, <1>2, <1>3, <1>4, OneLoadKeeps

LEMMA TryAgainKeeps == ShelfInv /\ TryAgain => ShelfInv'
<1> SUFFICES ASSUME ShelfInv, TryAgain PROVE ShelfInv'
  OBVIOUS
<1>1. /\ search \in BOOLEAN /\ filter \in BOOLEAN /\ sortBy \in Orders /\ pageNumber \in Nat
      /\ walked \subseteq Catalogue
  BY DEF ShelfInv, ShelfTypes
<1>2. /\ UNCHANGED <<search, filter, sortBy, pageNumber, walked>>
      /\ LoadProducts({Query(search, filter, sortBy, pageNumber, queried + 1)})
  BY DEF TryAgain, controls
<1>3. PageIsReached'
  <2>1. CASE pageNumber = 0
    BY <1>2, <2>1, FirstPageReached
  <2>2. CASE pageNumber > 0 /\ ~muddled'
    <3>1. pageNumber <= pageNumber
      BY <1>1
    <3> QED
      BY <1>1, <1>2, <2>2, <3>1, EarlierPages
  <2>3. CASE muddled'
    BY <2>3 DEF PageIsReached
  <2> QED
    BY <1>1, <2>1, <2>2, <2>3
<1> QED
  BY <1>1, <1>2, <1>3, OneLoadKeeps

LEMMA NextShelf == ShelfInv /\ [ShelfNext]_shelf_vars => ShelfInv'
<1> SUFFICES ASSUME ShelfInv, [ShelfNext]_shelf_vars PROVE ShelfInv'
  OBVIOUS
<1>1. CASE UNCHANGED shelf_vars
  BY <1>1, RestKeepsShelf DEF shelf_vars, controls, shelf, ShelfInv, ShelfTypes
<1> QED
  BY <1>1, FindKeeps, ReceiveProductsKeeps, TypeKeeps, HandleSearchKeeps, ChangeFilterKeeps,
     ChangeSortKeeps, ClearFiltersKeeps, NextPageKeeps, PreviousPageKeeps, TryAgainKeeps
     DEF ShelfNext

LEMMA NothingHidden == ShelfInv => ShelfHidesNothing
<1> SUFFICES ASSUME ShelfInv, ShelfSettled PROVE
        /\ products = <<>> => Matches(shownFor) = {}
        /\ ~hasMore /\ sortBy = "createdAt" => Matches(shownFor) \subseteq walked \cup ToSet(products)
  BY DEF ShelfHidesNothing, EmptyMeansNone, WalkSeesAll
<1>1. UnderWayQs = {} /\ ~loadError /\ ~muddled /\ shownFor.n = queried
  BY DEF ShelfSettled, UnderWayQs
<1>2. /\ shownFor \in QueryType /\ shownFor.filter = filter /\ shownFor.sortBy = sortBy
      /\ shownFor.page = pageNumber
  BY <1>1, ShownIsNewest
<1>3. AnswerOf(shownFor, products, totalCount) /\ hasMore = HasMore(shownFor.page, totalCount)
  <2> SUFFICES ASSUME shownFor = FirstQuery, queried > 1 PROVE FALSE
    BY <1>1 DEF ShelfInv, ShownIsAnswer
  <2> QED
    BY <1>1 DEF FirstQuery, Query, ShelfInv, ShelfTypes
<1> DEFINE M == Matches(shownFor)  n == Count(shownFor)  first == pageNumber * ItemsPerPage
           order == NewestFirst(shownFor)
<1>4. /\ pageNumber \in Nat /\ first \in Nat /\ totalCount = n /\ n \in Nat
      /\ (pageNumber + 1) * ItemsPerPage = first + ItemsPerPage
      /\ products \in Seq(Catalogue)
      /\ products = <<>> => n <= first
      /\ sortBy = "createdAt" =>
            \A i \in 1 .. ItemsPerPage : first + i <= n =>
                i \in 1 .. Len(products) /\ products[i] = order[first + i]
  BY <1>2, <1>3, AnswerIs
<1>5. ItemsPerPage \in Nat \ {0}
  BY ShelfAssumption
<1>6. \A x \in M : \E i \in 1 .. n : order[i] = x
  BY NewestFirstLists
<1>7. pageNumber > 0 =>
          /\ first < n
          /\ sortBy = "createdAt" => \A i \in 1 .. first : order[i] \in walked
  BY <1>1 DEF ShelfInv, PageIsReached
<1>8. pageNumber = 0 => first = 0
  BY <1>5
<1>9. ~hasMore => n <= first + ItemsPerPage
  <2>1. ~hasMore => ~(first + ItemsPerPage < n)
    BY <1>2, <1>3, <1>4 DEF HasMore
  <2> QED
    BY <1>4, <1>5, <2>1
<1> HIDE DEF M, n, first, order
<1>10. ASSUME products = <<>> PROVE M = {}
  <2>1. n = 0
    BY <1>4, <1>7, <1>8, <1>10
  <2> QED
    BY <1>6, <2>1
<1>11. ASSUME ~hasMore, sortBy = "createdAt", NEW x \in M PROVE x \in walked \cup ToSet(products)
  <2>1. PICK i \in 1 .. n : order[i] = x
    BY <1>6
  <2>2. CASE i <= first
    <3>1. pageNumber > 0 /\ i \in 1 .. first
      BY <1>4, <1>8, <2>2
    <3> QED
      BY <1>7, <1>11, <2>1, <3>1
  <2>3. CASE ~(i <= first)
    <3>1. i - first \in 1 .. ItemsPerPage /\ first + (i - first) = i /\ i <= n
      BY <1>4, <1>5, <1>9, <1>11, <2>3
    <3>2. i - first \in 1 .. Len(products) /\ products[i - first] = x
      BY <1>4, <1>11, <2>1, <3>1
    <3> QED
      BY <1>4, <3>2 DEF ToSet
  <2> QED
    BY <2>2, <2>3
<1> QED
  BY <1>10, <1>11 DEF M

\* Whatever filters were changed on whatever page, an empty page means that there
\* is nothing, and the last page that everything was seen, unless requests
\* overlapped or failed or the pager was used with a text or an order that is not
\* the one shown: for any catalogue, filter, text and page size and any number of
\* requests.
THEOREM ShelfIsHonest == ShelfSpec => []ShelfHidesNothing
BY ShelfStart, NextShelf, NothingHidden, PTL DEF ShelfSpec

----------------------------------------------------------------------------
(* The page of addresses. *)

\* What an address on the page, a request and an answer look like.
LineType == [id : 1 .. ids, pin : Pins, isDefault : BOOLEAN]
RequestType ==
    [op : {"load", "create", "update", "setDefault", "delete"}, id : 0 .. ids,
     pin : Pins \cup {Short}, mark : BOOLEAN, n : Nat]
ReplyType == [r : RequestType, ok : BOOLEAN, rows : Seq(LineType)]

\* The kinds of values, of the service's part too.
AddressTypes ==
    /\ AddressFormTypeOK /\ ids \in Nat
    /\ asked \subseteq RequestType /\ replies \in Seq(ReplyType)
    /\ \A r \in asked : r.op = "setDefault" => r.mark
    /\ \A r \in begun : r.op # "setDefault" => r.pin \in Serviceable

\* The marks are accounted for; and no handler is between its two statements.
Marked == ~unmarked /\ ~overlapped
Exact == Marked /\ begun = {}

\* The lines are those of the book b.
Shows(lines, b, marked) ==
    /\ {a.id : a \in ToSet(lines)} = DOMAIN b
    /\ \A a \in ToSet(lines) :
          /\ a.pin = b[a.id].pin
          /\ marked => a.isDefault = b[a.id].isDefault

\* Two books have the same addresses.
Agrees(b, c, marked) ==
    /\ DOMAIN b = DOMAIN c
    /\ \A x \in DOMAIN b :
          /\ b[x].pin = c[x].pin
          /\ marked => b[x].isDefault = c[x].isDefault

\* The answer a tells of the step from the book b to the book c.
Tells(a, b, c, marked) ==
    \/ (~a.ok \/ a.r.op = "load") /\ c = b
    \/ /\ a.ok /\ a.r.op \in {"create", "update"}
       /\ \E id \in DOMAIN c :
             /\ a.rows = <<Line(id, c[id])>> /\ DOMAIN c = DOMAIN b \cup {id}
             /\ IF a.r.op = "create" THEN id \notin DOMAIN b ELSE id = a.r.id /\ id \in DOMAIN b
             /\ \A x \in DOMAIN b \ {id} :
                   /\ c[x].pin = b[x].pin
                   /\ ~a.r.mark => c[x].isDefault = b[x].isDefault
    \/ /\ a.ok /\ a.r.op = "setDefault" /\ IdIn(a) = a.r.id /\ DOMAIN c = DOMAIN b
       /\ \A x \in DOMAIN b :
             /\ c[x].pin = b[x].pin
             /\ marked => c[x].isDefault = (x = a.r.id)
    \/ a.ok /\ a.r.op \in {"update", "setDefault"} /\ a.rows = <<>> /\ ~marked /\ c = b
    \/ /\ a.ok /\ a.r.op = "delete" /\ DOMAIN c = DOMAIN b \ {a.r.id}
       /\ \A x \in DOMAIN c : c[x].pin = b[x].pin

\* A load runs alone, and its answer lists the book.
LoadAlone ==
    /\ \A r \in asked : r.op = "load" => asked = {r} /\ replies = <<>>
    /\ \A i \in 1 .. Len(replies) : replies[i].r.op = "load" =>
          /\ asked = {} /\ Len(replies) = 1
          /\ replies[i].ok => Shows(replies[i].rows, book, TRUE)

\* The book went from what the page shows to what is stored by the steps that
\* the answers under way tell of, in their order; the marks are apart from it
\* while a handler has cleared them.
Told ==
    \E h : /\ Agrees(h[Len(replies)], book, Exact) /\ Shows(addresses, h[0], Marked)
           /\ \A i \in 1 .. Len(replies) : Tells(replies[i], h[i - 1], h[i], Marked)

MarkLeft ==
    ~unmarked => \A r \in UnderWay : r.op # "delete" /\ (r.op \in {"create", "update"} => ~r.mark)

\* One handler at a time has cleared the marks, all of them, and its row is there.
Cleared ==
    Marked => \A r \in begun :
                  begun = {r} /\ r.id \in DOMAIN book /\ \A x \in DOMAIN book : ~book[x].isDefault

BookInv ==
    /\ FormInv /\ AddressTypes /\ MarkLeft /\ Cleared
    /\ ~crossed => LoadAlone
    /\ ~crossed /\ status = "shown" => Told

\* What was said with the marks holds without them.
LEMMA WithoutMarks ==
  ASSUME NEW m, NEW n, n => m
  PROVE  /\ \A lines, b : Shows(lines, b, m) => Shows(lines, b, n)
         /\ \A b, c : Agrees(b, c, m) => Agrees(b, c, n)
         /\ \A a, b, c : Tells(a, b, c, m) => Tells(a, b, c, n)
<1>1. \A lines, b : Shows(lines, b, m) => Shows(lines, b, n)
  BY DEF Shows
<1>2. \A b, c : Agrees(b, c, m) => Agrees(b, c, n)
  BY DEF Agrees
<1>3. \A a, b, c : Tells(a, b, c, m) => Tells(a, b, c, n)
  <2> SUFFICES ASSUME NEW a, NEW b, NEW c, Tells(a, b, c, m) PROVE Tells(a, b, c, n)
    OBVIOUS
  <2>1. CASE a.ok /\ a.r.op = "setDefault" /\ IdIn(a) = a.r.id /\ DOMAIN c = DOMAIN b
             /\ \A x \in DOMAIN b : c[x].pin = b[x].pin /\ (m => c[x].isDefault = (x = a.r.id))
    BY <2>1 DEF Tells
  <2>2. CASE a.ok /\ a.r.op \in {"update", "setDefault"} /\ a.rows = <<>> /\ ~m /\ c = b
    BY <2>2 DEF Tells
  <2> QED
    BY <2>1, <2>2, Zenon DEF Tells
<1> QED
  BY <1>1, <1>2, <1>3

LEMMA BookStart == AddressFormInit => BookInv
<1> SUFFICES ASSUME AddressFormInit PROVE BookInv
  OBVIOUS
<1> USE DEF AddressFormInit
<1>1. FormInv
  BY DEF FormInv, Asked, VerdictIsOfThePincode
<1>2. AddressTypes
  <2>1. PICK d \in FirstDefaults, pins \in [1 .. Stored -> Serviceable] :
            book = [id \in 1 .. Stored |-> [pin |-> pins[id], isDefault |-> id = d]]
    OBVIOUS
  <2>2. DOMAIN book \subseteq 1 .. ids
        /\ \A id \in DOMAIN book : book[id] \in [pin : Serviceable, isDefault : BOOLEAN]
    <3> DEFINE first(id) == id = d
    <3>1. \A id \in 1 .. Stored : first(id) \in BOOLEAN
      OBVIOUS
    <3>2. book = [id \in 1 .. Stored |-> [pin |-> pins[id], isDefault |-> first(id)]]
      BY <2>1
    <3> HIDE DEF first
    <3> QED
      BY <3>1, <3>2
  <2>3. Request("load", 0, Short, FALSE, 0) \in RequestType
    <3>1. 0 \in 0 .. ids /\ Short \in Pins \cup {Short}
      BY PinsAssumption
    <3> QED
      BY <3>1 DEF Request, RequestType
  <2>4. addresses \in Seq([id : 1 .. ids, pin : Pins, isDefault : BOOLEAN])
        /\ replies \in Seq(ReplyType)
    BY EmptySeq
  <2>5. typed \in 0 .. MaxTyped /\ calls \in 1 .. MaxCalls + 1 /\ editing \in 0 .. ids
        /\ deletingId \in 0 .. ids /\ ids \in Nat
    BY PinsAssumption
  <2>6. /\ status \in {"loading", "error", "shown"}
        /\ {modalOpen, modalLoading, isDefault, touched, timeout, validating,
            retyped, crossed, unmarked, overlapped} \subseteq BOOLEAN
        /\ pincode \in Pins \cup {Short}
        /\ validation \in [pin : Pins, serviceable : BOOLEAN] \cup {NoVerdict}
        /\ \A c \in checks : c.pin \in Pins
    OBVIOUS
  <2>7. asked \subseteq RequestType
    BY <2>3
  <2>8. begun = {} /\ \A r \in asked : r.op # "setDefault"
    BY DEF Request
  <2> QED
    BY <2>2, <2>4, <2>5, <2>6, <2>7, <2>8 DEF AddressTypes, AddressFormTypeOK
<1>3. LoadAlone /\ MarkLeft /\ Cleared
  <2>1. Len(replies) = 0 /\ Request("load", 0, Short, FALSE, 0).op = "load"
    BY DEF Request
  <2>2. UnderWay = asked
    BY <2>1 DEF UnderWay
  <2>3. LoadAlone
    BY <2>1 DEF LoadAlone
  <2>4. MarkLeft
    BY <2>1, <2>2 DEF MarkLeft
  <2>5. Cleared
    BY DEF Cleared
  <2> QED
    BY <2>3, <2>4, <2>5
<1> QED
  BY <1>1, <1>2, <1>3 DEF BookInv

----------------------------------------------------------------------------
(* The service. *)

LEMMA BookFinite ==
  ASSUME AddressTypes
  PROVE  DOMAIN book \in SUBSET Int /\ IsFiniteSet(DOMAIN book)
<1>1. DOMAIN book \in SUBSET (1 .. ids) /\ ids \in Nat
  BY DEF AddressTypes, AddressFormTypeOK
<1>2. IsFiniteSet(1 .. ids)
  BY <1>1, FS_Interval
<1>3. IsFiniteSet(DOMAIN book)
  BY <1>1, <1>2, FS_Subset, Zenon
<1> QED
  BY <1>1, <1>3

\* The address is put: it is there, the others stay as they are.
PutAs(id, pin, mark) ==
    /\ DOMAIN book' = DOMAIN book \cup {id}
    /\ \A x \in DOMAIN book' : book'[x] \in [pin : Serviceable, isDefault : BOOLEAN]
    /\ book'[id].pin = pin
    /\ mark = TRUE => book'[id].isDefault = TRUE
    /\ mark = FALSE /\ DOMAIN book # {} => book'[id].isDefault = FALSE
    /\ \A x \in DOMAIN book \ {id} : book'[x] = book[x]

LEMMA PutIs ==
  ASSUME AddressTypes, NEW id \in 1 .. ids + 1, NEW pin \in Serviceable, NEW mark \in BOOLEAN,
         PutAddress(id, pin, mark)
  PROVE  PutAs(id, pin, mark)
<1> DEFINE m == mark \/ (id > ids /\ DOMAIN book = {})
<1>1. \A x \in DOMAIN book : book[x] \in [pin : Serviceable, isDefault : BOOLEAN]
  BY DEF AddressTypes, AddressFormTypeOK
<1>2. book' = [x \in DOMAIN book \cup {id} |->
                 IF x = id THEN [pin |-> pin, isDefault |-> m] ELSE book[x]]
  BY DEF PutAddress
<1>3. m \in BOOLEAN /\ (mark = TRUE => m = TRUE) /\ (mark = FALSE /\ DOMAIN book # {} => m = FALSE)
  OBVIOUS
<1> HIDE DEF m
<1>4. DOMAIN book' = DOMAIN book \cup {id} /\ book'[id] = [pin |-> pin, isDefault |-> m]
      /\ \A x \in DOMAIN book \ {id} : book'[x] = book[x]
  BY <1>2
<1>5. book'[id] \in [pin : Serviceable, isDefault : BOOLEAN]
  BY <1>3, <1>4
<1> QED
  BY <1>1, <1>3, <1>4, <1>5 DEF PutAs

LEMMA DropIs ==
  ASSUME AddressTypes, NEW id, DropAddress(id)
  PROVE  /\ DOMAIN book' = DOMAIN book \ {id}
         /\ \A x \in DOMAIN book' : book'[x] \in [pin : Serviceable, isDefault : BOOLEAN]
         /\ \A x \in DOMAIN book' : book'[x].pin = book[x].pin
<1>1. \A x \in DOMAIN book : book[x] \in [pin : Serviceable, isDefault : BOOLEAN]
  BY DEF AddressTypes, AddressFormTypeOK
<1> DEFINE rest == DOMAIN book \ {id}
           mark(x) == book[x].isDefault \/ (book[id].isDefault /\ \A y \in rest : x <= y)
<1>2. book' = [x \in rest |-> [book[x] EXCEPT !.isDefault = mark(x)]]
  BY DEF DropAddress
<1>3. \A x \in rest : mark(x) \in BOOLEAN
  OBVIOUS
<1> HIDE DEF mark
<1>4. \A x \in rest : book'[x] = [pin |-> book[x].pin, isDefault |-> mark(x)]
  BY <1>1, <1>2
<1> QED
  BY <1>1, <1>2, <1>3, <1>4

\* The answer goes on from any book that agrees with the stored one.
Continues(a) ==
    \A b : Agrees(b, book, Exact) =>
               \E c : Tells(a, b, c, Marked) /\ Agrees(c, book', Exact')

\* A step of the service: one request less, one answer more, which tells of
\* the step unless it is lost.
ServedAs(r, a) ==
    /\ asked' = asked \ {r} /\ begun' = begun \ {r} /\ replies' = Append(replies, a)
    /\ a.r = r /\ a \in [r : {r}, ok : BOOLEAN, rows : Seq(LineType')]
    /\ ids' \in Nat /\ ids <= ids'
    /\ DOMAIN book' \subseteq 1 .. ids'
    /\ \A x \in DOMAIN book' : book'[x] \in [pin : Serviceable, isDefault : BOOLEAN]
    /\ crossed' \in BOOLEAN /\ Cleared'
    /\ ~crossed' => ~crossed /\ Continues(a)
    /\ r.op = "load" => book' = book /\ (a.ok => Shows(a.rows, book, TRUE))

LEMMA BookTypes ==
  ASSUME AddressTypes
  PROVE  /\ ids \in Nat /\ DOMAIN book \subseteq 1 .. ids /\ crossed \in BOOLEAN
         /\ \A x \in DOMAIN book : book[x] \in [pin : Serviceable, isDefault : BOOLEAN]
BY DEF AddressTypes, AddressFormTypeOK

\* Handlers that are through do no harm to the marks.
LEMMA FewerCleared ==
  ASSUME Cleared, NEW r, book' = book, begun' = begun \ {r}, UNCHANGED <<unmarked, overlapped>>
  PROVE  Cleared'
BY DEF Cleared, Marked

\* An answer that says no.
LEMMA Refused ==
  ASSUME AddressTypes, Cleared, NEW r \in asked, Answered(r, FALSE, <<>>),
         UNCHANGED <<book, ids, unmarked, overlapped>>,
         (r \notin begun /\ crossed' = crossed) \/ crossed' = TRUE
  PROVE  \E a : ServedAs(r, a)
<1> DEFINE a == [r |-> r, ok |-> FALSE, rows |-> <<>>]
<1>1. asked' = asked \ {r} /\ begun' = begun \ {r} /\ replies' = Append(replies, a)
  BY DEF Answered
<1>2. a.r = r /\ ~a.ok /\ a \in [r : {r}, ok : BOOLEAN, rows : Seq(LineType')]
  <2>1. <<>> \in Seq(LineType')
    BY EmptySeq
  <2> QED
    BY <2>1
<1> HIDE DEF a
<1>3. ~crossed' => Continues(a)
  <2> SUFFICES ASSUME ~crossed', NEW b, Agrees(b, book, Exact)
               PROVE  \E c : Tells(a, b, c, Marked) /\ Agrees(c, book', Exact')
    BY DEF Continues
  <2>1. begun' = begun
    BY <1>1
  <2>2. Exact' = Exact
    BY <2>1 DEF Exact, Marked
  <2>3. Tells(a, b, b, Marked)
    BY <1>2 DEF Tells
  <2>4. Agrees(b, book', Exact')
    BY <2>2
  <2> QED
    BY <2>3, <2>4
<1>4. ids \in Nat /\ ids <= ids /\ DOMAIN book \subseteq 1 .. ids /\ crossed' \in BOOLEAN
      /\ \A x \in DOMAIN book : book[x] \in [pin : Serviceable, isDefault : BOOLEAN]
  <2>1. crossed' \in BOOLEAN
    BY BookTypes
  <2> QED
    BY <2>1, BookTypes
<1>5. Cleared'
  BY <1>1, FewerCleared
<1>6. /\ r.op = "load" => book' = book /\ (a.ok => Shows(a.rows, book, TRUE))
      /\ ~crossed' => ~crossed /\ Continues(a)
  <2>1. ~a.ok
    BY <1>2
  <2>2. ~crossed' => ~crossed
    OBVIOUS
  <2> QED
    BY <1>3, <2>1, <2>2
<1>7. ServedAs(r, a)
  BY <1>1, <1>2, <1>4, <1>5, <1>6 DEF ServedAs
<1> QED
  BY <1>7

\* The row that a handler cleared the marks for is gone.
LEMMA GoneServed ==
  ASSUME AddressTypes, Cleared, NEW r \in asked, ServeGone(r), UNCHANGED unmarked
  PROVE  \E a : ServedAs(r, a)
<1> DEFINE a == [r |-> r, ok |-> TRUE, rows |-> <<>>]
<1>1. /\ asked' = asked \ {r} /\ begun' = begun \ {r} /\ replies' = Append(replies, a)
      /\ UNCHANGED <<book, ids, crossed, overlapped>>
      /\ r \in begun /\ r.op \in {"update", "setDefault"} /\ r.id \notin DOMAIN book
  BY DEF ServeGone, Answered
<1>2. a.r = r /\ a.ok /\ a.rows = <<>> /\ a \in [r : {r}, ok : BOOLEAN, rows : Seq(LineType')]
  <2>1. <<>> \in Seq(LineType')
    BY EmptySeq
  <2> QED
    BY <2>1
<1> HIDE DEF a
<1>3. ~Marked /\ ~Marked'
  BY <1>1 DEF Cleared, Marked
<1>4. Continues(a)
  <2> SUFFICES ASSUME NEW b, Agrees(b, book, Exact)
               PROVE  \E c : Tells(a, b, c, Marked) /\ Agrees(c, book', Exact')
    BY DEF Continues
  <2>1. Tells(a, b, b, Marked)
    BY <1>1, <1>2, <1>3 DEF Tells
  <2>2. ~Exact'
    BY <1>3 DEF Exact
  <2>3. Agrees(b, book', Exact')
    BY <1>1, <2>2 DEF Agrees
  <2> QED
    BY <2>1, <2>3
<1>5. ids \in Nat /\ ids <= ids /\ DOMAIN book \subseteq 1 .. ids /\ crossed \in BOOLEAN
      /\ \A x \in DOMAIN book : book[x] \in [pin : Serviceable, isDefault : BOOLEAN]
  BY BookTypes
<1>6. Cleared'
  BY <1>1, FewerCleared
<1>7. ServedAs(r, a)
  BY <1>1, <1>2, <1>4, <1>5, <1>6 DEF ServedAs
<1> QED
  BY <1>7

LEMMA LoadServed ==
  ASSUME AddressTypes, Cleared, NEW r \in asked, ServeLoadOf(r), UNCHANGED unmarked
  PROVE  \E a : ServedAs(r, a)
<1> DEFINE order == Ascending(DOMAIN book)
           lines == [i \in 1 .. Len(order) |-> Line(order[i], book[order[i]])]
           a == [r |-> r, ok |-> TRUE, rows |-> lines]
           n == Cardinality(DOMAIN book)
<1>1. /\ r.op = "load" /\ UNCHANGED <<book, ids, crossed, overlapped>>
      /\ asked' = asked \ {r} /\ begun' = begun \ {r} /\ replies' = Append(replies, a)
  BY DEF ServeLoadOf, Answered
<1>2. n \in Nat /\ order \in [1 .. n -> DOMAIN book] /\ \A x \in DOMAIN book : \E i \in 1 .. n : order[i] = x
  <2> DEFINE S == DOMAIN book
  <2>1. S \in SUBSET Int /\ IsFiniteSet(S)
    BY BookFinite
  <2> HIDE DEF S
  <2>2. Cardinality(S) \in Nat /\ Ascending(S) \in [1 .. Cardinality(S) -> S]
        /\ \A x \in S : \E i \in 1 .. Cardinality(S) : Ascending(S)[i] = x
    BY <2>1, AscendingLists
  <2> QED
    BY <2>2 DEF S
<1> HIDE DEF n, order
<1>3. Len(order) = n
  BY <1>2
<1>4. \A i \in 1 .. n : order[i] \in DOMAIN book
  BY <1>2
<1>5. lines = [i \in 1 .. n |-> Line(order[i], book[order[i]])]
  BY <1>3
<1> HIDE DEF lines
<1>6. ASSUME NEW x \in DOMAIN book
      PROVE  /\ Line(x, book[x]) \in LineType'
             /\ Line(x, book[x]).id = x /\ Line(x, book[x]).pin = book[x].pin
             /\ Line(x, book[x]).isDefault = book[x].isDefault
  <2>1. x \in 1 .. ids /\ book[x].pin \in Pins /\ book[x].isDefault \in BOOLEAN
    BY BookTypes, PinsAssumption
  <2> QED
    BY <1>1, <2>1 DEF Line, LineType
<1>7. \A i \in 1 .. n : lines[i] = Line(order[i], book[order[i]]) /\ lines[i] \in LineType'
  BY <1>4, <1>5, <1>6
<1>8. lines \in Seq(LineType') /\ Len(lines) = n
  <2>1. lines \in [1 .. n -> LineType']
    BY <1>5, <1>7
  <2> QED
    BY <1>2, <2>1
<1>9. Shows(lines, book, TRUE)
  <2>1. ToSet(lines) = {Line(x, book[x]) : x \in DOMAIN book}
    <3>1. ToSet(lines) = {lines[i] : i \in 1 .. n}
      BY <1>2, <1>8 DEF ToSet
    <3>2. \A i \in 1 .. n : lines[i] \in {Line(x, book[x]) : x \in DOMAIN book}
      BY <1>4, <1>7
    <3>3. ASSUME NEW x \in DOMAIN book PROVE Line(x, book[x]) \in {lines[i] : i \in 1 .. n}
      <4>1. PICK i \in 1 .. n : order[i] = x
        BY <1>2
      <4> QED
        BY <1>7, <4>1
    <3> QED
      BY <3>1, <3>2, <3>3
  <2>2. \A x \in DOMAIN book : \E e \in ToSet(lines) : e.id = x
    BY <1>6, <2>1
  <2>3. \A e \in ToSet(lines) :
            e.id \in DOMAIN book /\ e.pin = book[e.id].pin /\ e.isDefault = book[e.id].isDefault
    BY <1>6, <2>1
  <2>4. {e.id : e \in ToSet(lines)} = DOMAIN book
    BY <2>2, <2>3
  <2> QED
    BY <2>3, <2>4 DEF Shows
<1>10. a.r = r /\ a.rows = lines /\ a \in [r : {r}, ok : BOOLEAN, rows : Seq(LineType')]
  BY <1>8
<1> HIDE DEF a
<1>11. Continues(a)
  <2> SUFFICES ASSUME NEW b, Agrees(b, book, Exact)
               PROVE  \E c : Tells(a, b, c, Marked) /\ Agrees(c, book', Exact')
    BY DEF Continues
  <2>1. begun' = begun
    BY <1>1 DEF AddressTypes, AddressFormTypeOK
  <2>2. Exact' = Exact
    BY <1>1, <2>1 DEF Exact, Marked
  <2>3. Tells(a, b, b, Marked)
    BY <1>1, <1>10 DEF Tells
  <2>4. Agrees(b, book', Exact')
    BY <1>1, <2>2
  <2> QED
    BY <2>3, <2>4
<1>12. ids \in Nat /\ ids <= ids /\ DOMAIN book \subseteq 1 .. ids /\ crossed \in BOOLEAN
      /\ \A x \in DOMAIN book : book[x] \in [pin : Serviceable, isDefault : BOOLEAN]
  BY BookTypes
<1>13. Cleared'
  BY <1>1, FewerCleared
<1>14. ServedAs(r, a)
  BY <1>1, <1>9, <1>10, <1>11, <1>12, <1>13 DEF ServedAs
<1> QED
  BY <1>14

\* A row that was put: the marks that were cleared stay so, but for its own.
LEMMA PutKeepsCleared ==
  ASSUME AddressTypes, MarkLeft, Cleared, NEW r \in asked, NEW id, NEW pin, PutAs(id, pin, r.mark),
         begun' = begun \ {r}, UNCHANGED <<unmarked, overlapped>>, r.mark => r \in begun
  PROVE  Cleared'
<1>1. SUFFICES ASSUME Marked, NEW q \in begun'
               PROVE  begun' = {q} /\ q.id \in DOMAIN book' /\ \A x \in DOMAIN book' : ~book'[x].isDefault
  BY DEF Cleared, Marked
<1>2. begun = {q} /\ q.id \in DOMAIN book /\ \A x \in DOMAIN book : ~book[x].isDefault
  BY <1>1 DEF Cleared
<1>3. begun' = {q} /\ r \notin begun
  BY <1>1, <1>2
<1>4. r.mark = FALSE
  BY <1>3 DEF AddressTypes, RequestType
<1>5. /\ DOMAIN book' = DOMAIN book \cup {id} /\ book'[id].isDefault = FALSE
      /\ \A x \in DOMAIN book \ {id} : book'[x] = book[x]
  BY <1>2, <1>4 DEF PutAs
<1> QED
  BY <1>2, <1>3, <1>5

\* The answer with the row goes on from any book that agrees.
LEMMA PutContinues ==
  ASSUME AddressTypes, MarkLeft, Cleared, NEW r \in asked, NEW id, NEW pin, PutAs(id, pin, r.mark),
         begun' = begun \ {r}, UNCHANGED <<unmarked, overlapped>>, r.mark => r \in begun,
         r.op = "create" => id \notin DOMAIN book,
         r.op # "create" => id = r.id /\ id \in DOMAIN book,
         r.op \in {"create", "update", "setDefault"},
         r.op = "setDefault" => pin = book[id].pin,
         NEW a, a.ok, a.r = r, a.rows = <<Line(id, book'[id])>>
  PROVE  Continues(a)
<1> SUFFICES ASSUME NEW b, Agrees(b, book, Exact)
             PROVE  \E c : Tells(a, b, c, Marked) /\ Agrees(c, book', Exact')
  BY DEF Continues
<1>1. /\ DOMAIN book' = DOMAIN book \cup {id} /\ book'[id].pin = pin
      /\ r.mark = TRUE => book'[id].isDefault = TRUE
      /\ \A x \in DOMAIN book \ {id} : book'[x] = book[x]
  BY DEF PutAs
<1>2. DOMAIN b = DOMAIN book
      /\ \A x \in DOMAIN b : b[x].pin = book[x].pin /\ (Exact => b[x].isDefault = book[x].isDefault)
  BY DEF Agrees
<1>3. CASE r.op = "setDefault"
  <2>1. r.mark /\ r.mark = TRUE /\ r \in begun /\ id = r.id /\ DOMAIN book' = DOMAIN b
    BY <1>1, <1>2, <1>3 DEF AddressTypes, RequestType
  <2>2. \A x \in DOMAIN b : book'[x].pin = b[x].pin
    BY <1>1, <1>2, <1>3
  <2>3. ASSUME Marked, NEW x \in DOMAIN b PROVE book'[x].isDefault = (x = r.id)
    <3>1. ~book[x].isDefault /\ book[x].isDefault \in BOOLEAN
      BY <1>2, <2>1, <2>3, BookTypes DEF Cleared
    <3>2. CASE x = id
      BY <1>1, <2>1, <3>2
    <3>3. CASE x # id
      BY <1>1, <1>2, <2>1, <3>1, <3>3
    <3> QED
      BY <3>2, <3>3
  <2>4. IdIn(a) = r.id
    BY <2>1 DEF IdIn, Line
  <2>5. Tells(a, b, book', Marked)
    BY <1>3, <2>1, <2>2, <2>3, <2>4 DEF Tells
  <2>6. Agrees(book', book', Exact')
    BY DEF Agrees
  <2> QED
    BY <2>5, <2>6
<1>4. CASE r.op # "setDefault"
  <2> DEFINE c == [x \in DOMAIN book' |-> IF x = id THEN book'[id] ELSE b[x]]
  <2>1. /\ DOMAIN c = DOMAIN b \cup {id} /\ DOMAIN c = DOMAIN book' /\ c[id] = book'[id] /\ id \in DOMAIN c
        /\ \A x \in DOMAIN b \ {id} : c[x] = b[x]
    BY <1>1, <1>2
  <2> HIDE DEF c
  <2>2. Tells(a, b, c, Marked)
    <3>1. r.op \in {"create", "update"} /\ a.rows = <<Line(id, c[id])>>
      BY <1>4, <2>1
    <3>2. IF r.op = "create" THEN id \notin DOMAIN b ELSE id = r.id /\ id \in DOMAIN b
      BY <1>2
    <3> QED
      BY <2>1, <3>1, <3>2 DEF Tells
  <2>3. Exact' => Exact
    <3> SUFFICES ASSUME Exact' PROVE Exact
      OBVIOUS
    <3>1. Marked /\ begun \ {r} = {}
      BY DEF Exact, Marked
    <3>2. ~r.mark
      <4>1. r \in UnderWay /\ ~unmarked
        BY <3>1 DEF UnderWay, Marked
      <4> QED
        BY <1>4, <4>1 DEF MarkLeft
    <3>3. r \notin begun
      BY <3>2 DEF AddressTypes, AddressFormTypeOK
    <3> QED
      BY <3>1, <3>3 DEF Exact
  <2>4. Agrees(c, book', Exact')
    <3> DEFINE e == Exact'
    <3>1. ASSUME NEW x \in DOMAIN c
          PROVE  c[x].pin = book'[x].pin /\ (e => c[x].isDefault = book'[x].isDefault)
      <4>1. CASE x = id
        BY <2>1, <4>1
      <4>2. CASE x # id
        <5>1. x \in DOMAIN b /\ c[x] = b[x] /\ book'[x] = book[x]
          BY <1>1, <1>2, <2>1, <4>2
        <5> QED
          BY <1>2, <2>3, <5>1
      <4> QED
        BY <4>1, <4>2
    <3> HIDE DEF e
    <3>2. Agrees(c, book', e)
      BY <2>1, <3>1 DEF Agrees
    <3> QED
      BY <3>2 DEF e
  <2> QED
    BY <2>2, <2>4
<1> QED
  BY <1>3, <1>4

\* A row that was put is answered with, or the answer is lost.
LEMMA PutServed ==
  ASSUME AddressTypes, MarkLeft, Cleared, NEW r \in asked, NEW id \in 1 .. ids + 1,
         WriteAddress(r, id), UNCHANGED unmarked, ids' = IF id > ids THEN id ELSE ids,
         r.op = "create" => id \notin DOMAIN book,
         r.op # "create" => id = r.id /\ id \in DOMAIN book,
         r.op \in {"create", "update", "setDefault"}
  PROVE  \E a : ServedAs(r, a)
<1> DEFINE pin == IF r.op = "setDefault" THEN book[id].pin ELSE r.pin
<1>1. /\ r \in begun \/ (~r.mark /\ Accepted(r))
      /\ PutAddress(id, pin, r.mark) /\ UNCHANGED overlapped
      /\ \/ Answered(r, TRUE, <<Line(id, book'[id])>>) /\ UNCHANGED crossed
         \/ Answered(r, FALSE, <<>>) /\ crossed' = TRUE
  BY DEF WriteAddress
<1>2. ids \in Nat /\ DOMAIN book \subseteq 1 .. ids /\ crossed \in BOOLEAN
      /\ \A x \in DOMAIN book : book[x] \in [pin : Serviceable, isDefault : BOOLEAN]
  BY BookTypes
<1>3. pin \in Serviceable /\ r.mark \in BOOLEAN
  <2>1. r.mark \in BOOLEAN
    BY DEF AddressTypes, RequestType
  <2>2. r.op = "setDefault" => book[id].pin \in Serviceable
    BY <1>2
  <2>3. r.op # "setDefault" /\ r \in begun => r.pin \in Serviceable
    BY DEF AddressTypes
  <2>4. r.op # "setDefault" /\ Accepted(r) => r.pin \in Serviceable
    <3> SUFFICES ASSUME r.op # "setDefault", Accepted(r)
                 PROVE  r.pin \in Serviceable
      OBVIOUS
    <3>1. MayBeSaved(r) /\ (r.op = "update" => r.id \in DOMAIN book)
      BY DEF Accepted
    <3> QED
      BY <1>2, <3>1 DEF MayBeSaved
  <2>5. r.op # "setDefault" => r.pin \in Serviceable
    BY <1>1, <2>3, <2>4
  <2> QED
    BY <2>1, <2>2, <2>5
<1>4. r.op = "setDefault" => pin = book[id].pin
  OBVIOUS
<1> HIDE DEF pin
<1>5. PutAs(id, pin, r.mark)
  BY <1>1, <1>3, PutIs
<1>6. DOMAIN book' = DOMAIN book \cup {id}
      /\ \A x \in DOMAIN book' : book'[x] \in [pin : Serviceable, isDefault : BOOLEAN]
  BY <1>5 DEF PutAs
<1>7. ids' \in Nat /\ ids <= ids' /\ id \in 1 .. ids' /\ DOMAIN book' \subseteq 1 .. ids'
  BY <1>2, <1>6
<1>8. begun' = begun \ {r} /\ (r.mark => r \in begun) /\ r.op # "load"
  BY <1>1 DEF Answered
<1>9. Cleared'
  BY <1>1, <1>5, <1>8, PutKeepsCleared
<1>10. CASE Answered(r, FALSE, <<>>) /\ crossed' = TRUE
  <2> DEFINE a == [r |-> r, ok |-> FALSE, rows |-> <<>>]
  <2>1. asked' = asked \ {r} /\ replies' = Append(replies, a)
    BY <1>10 DEF Answered
  <2>2. a.r = r /\ a \in [r : {r}, ok : BOOLEAN, rows : Seq(LineType')]
    <3>1. <<>> \in Seq(LineType')
      BY EmptySeq
    <3> QED
      BY <3>1
  <2> HIDE DEF a
  <2>3. ServedAs(r, a)
    BY <1>6, <1>7, <1>8, <1>9, <1>10, <2>1, <2>2 DEF ServedAs
  <2> QED
    BY <2>3
<1>11. CASE Answered(r, TRUE, <<Line(id, book'[id])>>) /\ UNCHANGED crossed
  <2> DEFINE line == Line(id, book'[id])
             a == [r |-> r, ok |-> TRUE, rows |-> <<line>>]
  <2>1. asked' = asked \ {r} /\ replies' = Append(replies, a)
    BY <1>11 DEF Answered
  <2>2. line \in LineType'
    <3>1. book'[id].pin \in Pins /\ book'[id].isDefault \in BOOLEAN
      BY <1>6, PinsAssumption
    <3> QED
      BY <1>7, <3>1 DEF Line, LineType
  <2>3. a.r = r /\ a.ok /\ a.rows = <<Line(id, book'[id])>>
        /\ a \in [r : {r}, ok : BOOLEAN, rows : Seq(LineType')]
    <3> HIDE DEF line
    <3>1. <<line>> \in Seq(LineType')
      BY <2>2
    <3> QED
      BY <3>1 DEF line
  <2> HIDE DEF a, line
  <2>4. Continues(a)
    BY <1>1, <1>4, <1>5, <1>8, <2>3, PutContinues
  <2>5. ServedAs(r, a)
    BY <1>2, <1>6, <1>7, <1>8, <1>9, <1>11, <2>1, <2>3, <2>4 DEF ServedAs
  <2> QED
    BY <2>5
<1> QED
  BY <1>1, <1>10, <1>11

LEMMA RemoveServed ==
  ASSUME AddressTypes, MarkLeft, NEW r \in asked, ServeRemove(r), UNCHANGED unmarked
  PROVE  \E a : ServedAs(r, a)
<1>1. r.op = "delete" /\ ids' = ids /\ overlapped' = overlapped
  BY DEF ServeRemove
<1>2. /\ DOMAIN book' = DOMAIN book \ {r.id}
      /\ \A x \in DOMAIN book' : book'[x] \in [pin : Serviceable, isDefault : BOOLEAN]
      /\ \A x \in DOMAIN book' : book'[x].pin = book[x].pin
  BY DropIs DEF ServeRemove
<1>3. ids \in Nat /\ DOMAIN book \subseteq 1 .. ids /\ crossed \in BOOLEAN
  BY BookTypes
<1>4. PICK ok \in BOOLEAN : Answered(r, ok, <<>>) /\ crossed' = IF ok THEN crossed ELSE TRUE
  <2>1. \/ Answered(r, TRUE, <<>>) /\ UNCHANGED crossed
        \/ Answered(r, FALSE, <<>>) /\ crossed' = TRUE
    BY DEF ServeRemove
  <2> QED
    BY <2>1
<1> DEFINE a == [r |-> r, ok |-> ok, rows |-> <<>>]
<1>5. asked' = asked \ {r} /\ begun' = begun \ {r} /\ replies' = Append(replies, a)
  BY <1>4 DEF Answered
<1>6. a.r = r /\ a.ok = ok /\ a \in [r : {r}, ok : BOOLEAN, rows : Seq(LineType')]
  <2>1. <<>> \in Seq(LineType')
    BY EmptySeq
  <2> QED
    BY <2>1
<1> HIDE DEF a
<1>7. ASSUME ok PROVE Continues(a)
  <2> SUFFICES ASSUME NEW b, Agrees(b, book, Exact)
               PROVE  \E c : Tells(a, b, c, Marked) /\ Agrees(c, book', Exact')
    BY DEF Continues
  <2>1. Tells(a, b, book', Marked)
    <3>1. DOMAIN book' = DOMAIN b \ {r.id} /\ \A x \in DOMAIN book' : book'[x].pin = b[x].pin
      BY <1>2 DEF Agrees
    <3> QED
      BY <1>1, <1>6, <1>7, <3>1 DEF Tells
  <2>2. Agrees(book', book', Exact')
    BY DEF Agrees
  <2> QED
    BY <2>1, <2>2
<1>8. ids' \in Nat /\ ids <= ids' /\ DOMAIN book' \subseteq 1 .. ids' /\ r.op # "load"
  BY <1>1, <1>2, <1>3
<1>9. crossed' \in BOOLEAN /\ (~crossed' => ok /\ ~crossed)
  BY <1>3, <1>4
<1>10. Cleared'
  <2>1. r \in UnderWay
    BY DEF UnderWay
  <2>2. unmarked'
    BY <1>1, <2>1 DEF MarkLeft
  <2> QED
    BY <2>2 DEF Cleared, Marked
<1>11. ServedAs(r, a)
  BY <1>1, <1>2, <1>5, <1>6, <1>7, <1>8, <1>9, <1>10 DEF ServedAs
<1> QED
  BY <1>11

LEMMA Served ==
  ASSUME AddressTypes, MarkLeft, Cleared, ServeAddresses,
         ~\E r \in asked : ClearDefaultAddress(r)
  PROVE  \E r \in asked : (\E a : ServedAs(r, a))
<1>1. PICK r \in asked :
          \/ ServeLoadOf(r) \/ ServeCreate(r) \/ ServeUpdate(r)
          \/ ServeGone(r) \/ ServeBroken(r) \/ ServeRemove(r) \/ ServeNothing(r)
  BY DEF ServeAddresses
<1>2. unmarked' = unmarked
  BY DEF ServeAddresses
<1>3. ids \in Nat /\ DOMAIN book \subseteq 1 .. ids
  BY BookTypes
<1>4. CASE ServeCreate(r)
  <2>1. r.op = "create" /\ WriteAddress(r, ids + 1) /\ ids' = ids + 1
    BY <1>4 DEF ServeCreate
  <2> DEFINE id == ids + 1
  <2>2. id \in 1 .. ids + 1 /\ id > ids /\ id \notin DOMAIN book /\ WriteAddress(r, id) /\ ids' = id
    BY <1>3, <2>1
  <2> HIDE DEF id
  <2> QED
    BY <1>2, <2>1, <2>2, PutServed
<1>5. CASE ServeUpdate(r)
  <2>1. r.op \in {"update", "setDefault"} /\ r.id \in DOMAIN book /\ WriteAddress(r, r.id) /\ ids' = ids
    BY <1>5 DEF ServeUpdate
  <2>2. r.id \in 1 .. ids + 1 /\ ~(r.id > ids)
    BY <1>3, <2>1
  <2> QED
    BY <1>2, <2>1, <2>2, PutServed
<1>6. CASE ServeBroken(r)
  BY <1>2, <1>6, Refused DEF ServeBroken
<1>7. CASE ServeNothing(r)
  BY <1>2, <1>7, Refused DEF ServeNothing
<1> QED
  BY <1>1, <1>2, <1>4, <1>5, <1>6, <1>7, LoadServed, RemoveServed, GoneServed

\* With more addresses created the types only grow.
LEMMA TypesGrow ==
  ASSUME ids \in Nat, ids' \in Nat, ids <= ids'
  PROVE  /\ LineType \subseteq LineType' /\ RequestType \subseteq RequestType'
         /\ ReplyType \subseteq ReplyType'
         /\ \A s \in Seq(LineType) : s \in Seq(LineType')
         /\ \A s \in Seq(ReplyType) : s \in Seq(ReplyType')
<1>1. LineType \subseteq LineType' /\ RequestType \subseteq RequestType'
  BY DEF LineType, RequestType
<1>2. \A s \in Seq(LineType) : s \in Seq(LineType')
  <2> DEFINE L == LineType  M == LineType'
  <2>1. L \subseteq M
    BY <1>1
  <2> HIDE DEF L, M
  <2>2. Seq(L) \subseteq Seq(M)
    BY <2>1, SeqMonotonic
  <2> QED
    BY <2>2 DEF L, M
<1>3. ReplyType \subseteq ReplyType'
  BY <1>1, <1>2 DEF ReplyType
<1>4. \A s \in Seq(ReplyType) : s \in Seq(ReplyType')
  <2> DEFINE L == ReplyType  M == ReplyType'
  <2>1. L \subseteq M
    BY <1>3
  <2> HIDE DEF L, M
  <2>2. Seq(L) \subseteq Seq(M)
    BY <2>1, SeqMonotonic
  <2> QED
    BY <2>2 DEF L, M
<1> QED
  BY <1>1, <1>2, <1>3, <1>4

\* A handler takes the mark from every row.
LEMMA ClearKeepsBook ==
  ASSUME BookInv, ServeAddresses, NEW r \in asked, ClearDefaultAddress(r)
  PROVE  BookInv'
<1>1. AddressTypes /\ MarkLeft /\ r \in RequestType
  BY DEF BookInv, AddressTypes
<1>2. UNCHANGED <<page_of_addresses, form_vars, validating, checks, typed, calls, retyped, unmarked>>
  BY DEF ServeAddresses
<1> USE DEF page_of_addresses, form_vars
<1>3. /\ r.mark /\ Accepted(r) /\ begun' = begun \cup {r}
      /\ book' = [x \in DOMAIN book |-> [book[x] EXCEPT !.isDefault = FALSE]]
      /\ overlapped' = (overlapped \/ begun # {})
      /\ UNCHANGED <<ids, asked, replies, crossed>>
  BY DEF ClearDefaultAddress
<1>4. /\ r.op \in {"create", "update", "setDefault"}
      /\ r.op # "create" => r.id \in DOMAIN book
      /\ r.op # "setDefault" => r.pin \in Serviceable
  BY <1>1, <1>3, BookTypes DEF Accepted, MayBeSaved
<1>5. /\ DOMAIN book' = DOMAIN book
      /\ \A x \in DOMAIN book :
            /\ book'[x].pin = book[x].pin /\ book'[x].isDefault = FALSE
            /\ book'[x] \in [pin : Serviceable, isDefault : BOOLEAN]
  BY <1>1, <1>3, BookTypes
<1>6. FormInv'
  BY <1>2, RestKeepsForm DEF BookInv
<1>7. AddressTypes'
  <2>1. RequestType' = RequestType /\ LineType' = LineType
    BY <1>3 DEF RequestType, LineType
  <2>2. ReplyType' = ReplyType
    BY <2>1 DEF ReplyType
  <2>3. overlapped' \in BOOLEAN /\ begun' \subseteq asked'
        /\ \A q \in begun' : q.mark /\ q.op \in {"create", "update", "setDefault"}
    BY <1>1, <1>3, <1>4 DEF AddressTypes, AddressFormTypeOK
  <2>4. AddressFormTypeOK'
    BY <1>1, <1>2, <1>3, <1>5, <2>3 DEF AddressTypes, AddressFormTypeOK
  <2>5. /\ asked' \subseteq RequestType' /\ replies' \in Seq(ReplyType') /\ ids' \in Nat
        /\ \A q \in asked' : q.op = "setDefault" => q.mark
        /\ \A q \in begun' : q.op # "setDefault" => q.pin \in Serviceable
    BY <1>1, <1>3, <1>4, <2>1, <2>2 DEF AddressTypes
  <2> QED
    BY <2>4, <2>5 DEF AddressTypes
<1>8. UnderWay' = UnderWay /\ r \in UnderWay
  BY <1>3 DEF UnderWay
<1>9. MarkLeft'
  BY <1>1, <1>2, <1>8 DEF MarkLeft
<1>10. Cleared'
  <2> SUFFICES ASSUME Marked', NEW q \in begun'
               PROVE  begun' = {q} /\ q.id \in DOMAIN book' /\ \A x \in DOMAIN book' : ~book'[x].isDefault
    BY DEF Cleared
  <2>1. ~unmarked /\ begun = {}
    BY <1>2, <1>3 DEF Marked
  <2>2. r.op = "setDefault"
    BY <1>1, <1>3, <1>4, <1>8, <2>1 DEF MarkLeft
  <2> QED
    BY <1>3, <1>4, <1>5, <2>1, <2>2
<1> SUFFICES ASSUME ~crossed' PROVE LoadAlone' /\ (status' = "shown" => Told')
  BY <1>6, <1>7, <1>9, <1>10 DEF BookInv
<1>11. LoadAlone'
  <2>1. LoadAlone
    BY <1>3 DEF BookInv
  <2>2. \A q \in asked' : q.op # "load"
    BY <1>3, <1>4, <2>1 DEF LoadAlone
  <2>3. \A i \in 1 .. Len(replies') : replies'[i].r.op # "load"
    BY <1>3, <2>1 DEF LoadAlone
  <2> QED
    BY <2>2, <2>3 DEF LoadAlone
<1>12. ASSUME status' = "shown" PROVE Told'
  <2>1. PICK h : /\ Agrees(h[Len(replies)], book, Exact) /\ Shows(addresses, h[0], Marked)
                 /\ \A i \in 1 .. Len(replies) : Tells(replies[i], h[i - 1], h[i], Marked)
    BY <1>2, <1>3, <1>12 DEF BookInv, Told
  <2>2. Marked' => Marked
    BY <1>2, <1>3 DEF Marked
  <2>3. ~Exact'
    BY <1>3 DEF Exact
  <2>4. Agrees(h[Len(replies)], book', Exact')
    BY <1>5, <2>1, <2>3 DEF Agrees
  <2> DEFINE m == Marked
             k == Marked'
  <2>5. k => m
    BY <2>2
  <2>6. Shows(addresses, h[0], m) /\ \A i \in 1 .. Len(replies) : Tells(replies[i], h[i - 1], h[i], m)
    BY <2>1
  <2> HIDE DEF m, k
  <2>7. Shows(addresses, h[0], k) /\ \A i \in 1 .. Len(replies) : Tells(replies[i], h[i - 1], h[i], k)
    BY <2>5, <2>6, WithoutMarks
  <2>8. /\ Shows(addresses', h[0], Marked')
        /\ \A i \in 1 .. Len(replies') : Tells(replies'[i], h[i - 1], h[i], Marked')
    BY <1>2, <1>3, <2>7 DEF k
  <2> QED
    BY <1>3, <2>4, <2>8 DEF Told
<1> QED
  BY <1>11, <1>12

LEMMA ServiceKeepsBook == BookInv /\ ServeAddresses => BookInv'
<1> SUFFICES ASSUME BookInv, ServeAddresses, ~\E r \in asked : ClearDefaultAddress(r) PROVE BookInv'
  BY ClearKeepsBook
<1>1. AddressTypes /\ MarkLeft /\ Cleared
  BY DEF BookInv
<1>2. PICK r \in asked : \E a : ServedAs(r, a)
  BY <1>1, Served
<1> PICK a : ServedAs(r, a)
  BY <1>2
<1>3. UNCHANGED <<page_of_addresses, form_vars, validating, checks, typed, calls, retyped, unmarked,
                  overlapped>>
  BY DEF ServeAddresses, ServeLoadOf, ServeCreate, ServeUpdate, WriteAddress, ServeGone, ServeBroken,
     ServeRemove, ServeNothing
<1> USE DEF page_of_addresses, form_vars
<1>4. /\ asked' = asked \ {r} /\ begun' = begun \ {r} /\ replies' = Append(replies, a)
      /\ a.r = r /\ a \in [r : {r}, ok : BOOLEAN, rows : Seq(LineType')]
      /\ ids' \in Nat /\ ids <= ids' /\ ids \in Nat
      /\ DOMAIN book' \subseteq 1 .. ids'
      /\ \A x \in DOMAIN book' : book'[x] \in [pin : Serviceable, isDefault : BOOLEAN]
      /\ crossed' \in BOOLEAN /\ Cleared'
      /\ ~crossed' => ~crossed /\ Continues(a)
      /\ r.op = "load" => book' = book /\ (a.ok => Shows(a.rows, book, TRUE))
  BY <1>1, BookTypes DEF ServedAs
<1>5. FormInv'
  BY <1>3, RestKeepsForm DEF BookInv
<1>6. /\ LineType \subseteq LineType' /\ RequestType \subseteq RequestType'
      /\ \A s \in Seq(LineType) : s \in Seq(LineType')
      /\ \A s \in Seq(ReplyType) : s \in Seq(ReplyType')
  BY <1>4, TypesGrow
<1>7. replies \in Seq(ReplyType) /\ replies \in Seq(ReplyType') /\ asked \subseteq RequestType
  BY <1>1, <1>6 DEF AddressTypes
<1> DEFINE n == Len(replies)
<1>8. /\ n \in Nat /\ Len(replies') = n + 1 /\ replies'[n + 1] = a
      /\ \A i \in 1 .. n : replies'[i] = replies[i]
  BY <1>4, <1>7
<1>9. AddressTypes'
  <2>1. a \in ReplyType'
    BY <1>4, <1>6, <1>7 DEF ReplyType
  <2>2. replies' \in Seq(ReplyType')
    BY <1>4, <1>7, <2>1
  <2>3. asked' \subseteq RequestType'
    BY <1>4, <1>6, <1>7
  <2>4. addresses' \in Seq([id : 1 .. ids', pin : Pins, isDefault : BOOLEAN])
    <3>1. addresses \in Seq(LineType)
      BY <1>1 DEF AddressTypes, AddressFormTypeOK, LineType
    <3> QED
      BY <1>3, <1>6, <3>1 DEF LineType
  <2>5. editing' \in 0 .. ids' /\ deletingId' \in 0 .. ids'
    BY <1>1, <1>3, <1>4 DEF AddressTypes, AddressFormTypeOK
  <2>6. /\ begun' \subseteq asked'
        /\ \A q \in begun' : q.mark /\ q.op \in {"create", "update", "setDefault"}
        /\ \A q \in asked' : q.op = "setDefault" => q.mark
        /\ \A q \in begun' : q.op # "setDefault" => q.pin \in Serviceable
    BY <1>1, <1>4 DEF AddressTypes, AddressFormTypeOK
  <2> QED
    BY <1>1, <1>3, <1>4, <1>8, <2>2, <2>3, <2>4, <2>5, <2>6 DEF AddressTypes, AddressFormTypeOK
<1>10. MarkLeft'
  <2>1. UnderWay' \subseteq UnderWay
    <3>1. \A i \in 1 .. n + 1 : replies'[i].r \in UnderWay
      BY <1>4, <1>8 DEF UnderWay
    <3> QED
      BY <1>4, <1>8, <3>1 DEF UnderWay
  <2> QED
    BY <1>3, <2>1 DEF BookInv, MarkLeft
<1>11. ASSUME ~crossed' PROVE LoadAlone'
  <2>1. LoadAlone
    BY <1>4, <1>11 DEF BookInv
  <2>2. ASSUME NEW q \in asked', q.op = "load" PROVE FALSE
    BY <1>4, <2>1, <2>2 DEF LoadAlone
  <2>3. ASSUME NEW i \in 1 .. n + 1, replies'[i].r.op = "load"
        PROVE  /\ asked' = {} /\ Len(replies') = 1
               /\ replies'[i].ok => Shows(replies'[i].rows, book', TRUE)
    <3>1. i = n + 1
      <4>1. i \in 1 .. n => asked = {}
        BY <1>8, <2>1, <2>3 DEF LoadAlone
      <4> QED
        BY <1>8, <4>1
    <3>2. r.op = "load" /\ replies'[i] = a
      BY <1>4, <1>8, <2>3, <3>1
    <3>3. asked = {r} /\ replies = <<>>
      BY <2>1, <3>2 DEF LoadAlone
    <3>4. Len(replies') = 1
      BY <1>8, <3>3
    <3>5. asked' = {} /\ (replies'[i].ok => Shows(replies'[i].rows, book', TRUE))
      BY <1>4, <3>2, <3>3
    <3> QED
      BY <3>4, <3>5
  <2> QED
    BY <1>8, <2>2, <2>3 DEF LoadAlone
<1>12. ASSUME ~crossed', status' = "shown" PROVE Told'
  <2>1. PICK h : /\ Agrees(h[n], book, Exact) /\ Shows(addresses, h[0], Marked)
                 /\ \A i \in 1 .. n : Tells(replies[i], h[i - 1], h[i], Marked)
    BY <1>3, <1>4, <1>12 DEF BookInv, Told
  <2>2. PICK c : Tells(a, h[n], c, Marked) /\ Agrees(c, book', Exact')
    <3>1. Continues(a)
      BY <1>4, <1>12
    <3> QED
      BY <2>1, <3>1 DEF Continues
  <2>3. Marked' = Marked
    BY <1>3 DEF Marked
  <2> DEFINE k == [i \in 0 .. n + 1 |-> IF i <= n THEN h[i] ELSE c]
             m == Marked
  <2>4. /\ k[n + 1] = c /\ k[0] = h[0] /\ k[n] = h[n]
        /\ \A i \in 1 .. n : k[i] = h[i] /\ k[i - 1] = h[i - 1]
    BY <1>8
  <2>5. Tells(a, h[n], c, m) /\ \A i \in 1 .. n : Tells(replies[i], h[i - 1], h[i], m)
    BY <2>1, <2>2
  <2> HIDE DEF k, n, m
  <2>6. \A i \in 1 .. n : Tells(replies'[i], k[i - 1], k[i], m)
    BY <1>8, <2>4, <2>5
  <2>7. Tells(replies'[n + 1], k[n + 1 - 1], k[n + 1], m)
    <3>1. n + 1 - 1 = n
      BY <1>8
    <3> QED
      BY <1>8, <2>4, <2>5, <3>1
  <2>8. \A i \in 1 .. n + 1 : Tells(replies'[i], k[i - 1], k[i], m)
    BY <1>8, <2>6, <2>7
  <2>9. \A i \in 1 .. n + 1 : Tells(replies'[i], k[i - 1], k[i], Marked')
    BY <2>3, <2>8 DEF m
  <2>10. Shows(addresses', k[0], Marked')
    BY <1>3, <2>1, <2>3, <2>4
  <2>11. Agrees(k[n + 1], book', Exact')
    BY <2>2, <2>4
  <2> QED
    BY <1>8, <2>9, <2>10, <2>11 DEF Told
<1> QED
  BY <1>4, <1>5, <1>9, <1>10, <1>11, <1>12 DEF BookInv

----------------------------------------------------------------------------
(* The page. *)

\* What is left of a list without an id.
LEMMA WithoutIs ==
  ASSUME NEW T, NEW entries \in Seq(T), NEW id
  PROVE  /\ Without(entries, id) \in Seq(T)
         /\ ToSet(Without(entries, id)) = {e \in ToSet(entries) : e.id # id}
<1> DEFINE kept == {i \in 1 .. Len(entries) : entries[i].id # id}
           n == Cardinality(kept)
           rest == Without(entries, id)
<1>1. kept \in SUBSET (1 .. Len(entries))
  OBVIOUS
<1>2. rest = AtPositions(entries, kept)
  BY DEF Without
<1> HIDE DEF kept, n, rest
<1>3. /\ n \in Nat /\ rest \in Seq(T) /\ Len(rest) = n
      /\ \E p \in [1 .. n -> kept] :
            /\ \A k \in kept : \E j \in 1 .. n : p[j] = k
            /\ \A j \in 1 .. n : rest[j] = entries[p[j]]
  BY <1>1, <1>2, FilterKeeps DEF n
<1>4. PICK p \in [1 .. n -> kept] :
          /\ \A k \in kept : \E j \in 1 .. n : p[j] = k
          /\ \A j \in 1 .. n : rest[j] = entries[p[j]]
  BY <1>3
<1>5. ToSet(rest) = {rest[j] : j \in 1 .. n} /\ ToSet(entries) = {entries[i] : i \in 1 .. Len(entries)}
  <2>1. DOMAIN rest = 1 .. n /\ DOMAIN entries = 1 .. Len(entries)
    BY <1>3
  <2> QED
    BY <2>1 DEF ToSet
<1>6. ASSUME NEW j \in 1 .. n PROVE rest[j] \in ToSet(entries) /\ rest[j].id # id
  BY <1>4, <1>5 DEF kept
<1>7. ASSUME NEW i \in 1 .. Len(entries), entries[i].id # id PROVE entries[i] \in ToSet(rest)
  <2>1. PICK j \in 1 .. n : p[j] = i
    BY <1>4, <1>7 DEF kept
  <2> QED
    BY <1>4, <1>5, <2>1
<1>8. ToSet(rest) = {e \in ToSet(entries) : e.id # id}
  BY <1>5, <1>6, <1>7
<1> QED
  BY <1>3, <1>8 DEF rest

\* The lines that an answer other than a load's makes of the lines.
NewLines(a) ==
    IF ~a.ok THEN addresses
    ELSE IF a.r.op = "create" THEN addresses \o a.rows
    ELSE IF a.r.op = "update"
         THEN [i \in 1 .. Len(addresses) |->
                  IF addresses[i].id = IdIn(a) THEN a.rows[1] ELSE addresses[i]]
    ELSE IF a.r.op = "setDefault" THEN MarkOnly(addresses, IdIn(a))
    ELSE Without(addresses, a.r.id)

LEMMA NewLinesType ==
  ASSUME AddressTypes, NEW a \in ReplyType
  PROVE  NewLines(a) \in Seq(LineType)
<1>1. addresses \in Seq(LineType)
  BY DEF AddressTypes, AddressFormTypeOK, LineType
<1>2. a.rows \in Seq(LineType)
  BY DEF ReplyType
<1>3. CASE a.ok /\ a.r.op = "create"
  <2>1. addresses \o a.rows \in Seq(LineType)
    BY <1>1, <1>2
  <2> QED
    BY <1>3, <2>1 DEF NewLines
<1>4. CASE a.ok /\ a.r.op = "update"
  <2>1. \A i \in 1 .. Len(addresses) : addresses[i].id = IdIn(a) => a.rows[1] \in LineType
    <3>1. \A i \in 1 .. Len(addresses) : addresses[i].id # 0
      <4>1. \A e \in LineType : e.id # 0
        BY DEF LineType, AddressTypes
      <4> QED
        BY <1>1, <4>1
    <3>2. a.rows # <<>> => a.rows[1] \in LineType
      BY <1>2
    <3> QED
      BY <3>1, <3>2 DEF IdIn
  <2> DEFINE s == [i \in 1 .. Len(addresses) |->
                      IF addresses[i].id = IdIn(a) THEN a.rows[1] ELSE addresses[i]]
  <2>2. s \in Seq(LineType)
    <3>1. \A i \in 1 .. Len(addresses) : s[i] \in LineType
      BY <1>1, <2>1
    <3>2. Len(addresses) \in Nat /\ s \in [1 .. Len(addresses) -> LineType]
      BY <1>1, <3>1
    <3> QED
      BY <3>2
  <2> QED
    BY <1>4, <2>2 DEF NewLines
<1>5. CASE a.ok /\ a.r.op = "setDefault"
  <2> DEFINE s == [i \in 1 .. Len(addresses) |->
                      [addresses[i] EXCEPT !.isDefault = addresses[i].id = IdIn(a)]]
  <2>1. ASSUME NEW i \in 1 .. Len(addresses) PROVE s[i] \in LineType
    <3> DEFINE m == (addresses[i].id = IdIn(a))
    <3>1. s[i] = [addresses[i] EXCEPT !.isDefault = m] /\ addresses[i] \in LineType /\ m \in BOOLEAN
      BY <1>1
    <3> HIDE DEF m, s
    <3> QED
      BY <3>1 DEF LineType
  <2>2. Len(addresses) \in Nat /\ s \in [1 .. Len(addresses) -> LineType]
    BY <1>1, <2>1
  <2>3. s \in Seq(LineType)
    BY <2>2
  <2> QED
    BY <1>5, <2>3 DEF NewLines, MarkOnly
<1>6. CASE a.ok /\ a.r.op \notin {"create", "update", "setDefault"}
  <2>1. Without(addresses, a.r.id) \in Seq(LineType)
    BY <1>1, WithoutIs
  <2> QED
    BY <1>6, <2>1 DEF NewLines
<1>7. CASE ~a.ok
  BY <1>1, <1>7 DEF NewLines
<1> QED
  BY <1>3, <1>4, <1>5, <1>6, <1>7

\* The page takes the step that the answer tells of.
LEMMA PageFollows ==
  ASSUME ids \in Nat, addresses \in Seq(LineType), NEW a, a.rows \in Seq(LineType), NEW b,
         NEW c, NEW marked \in BOOLEAN,
         Shows(addresses, b, marked), Tells(a, b, c, marked), a.r.op # "load",
         marked => a.r.op # "delete" /\ (a.r.op \in {"create", "update"} => ~a.r.mark)
  PROVE  Shows(NewLines(a), c, marked)
<1> DEFINE lines == NewLines(a)
<1>1. {e.id : e \in ToSet(addresses)} = DOMAIN b
      /\ \A e \in ToSet(addresses) :
            /\ e.id \in DOMAIN b /\ e.pin = b[e.id].pin
            /\ marked => e.isDefault = b[e.id].isDefault
  BY DEF Shows
<1>2. ToSet(addresses) = {addresses[i] : i \in 1 .. Len(addresses)}
  BY DEF ToSet
<1>3. CASE ~a.ok
  <2>1. c = b /\ lines = addresses
    BY <1>3 DEF Tells, NewLines
  <2> QED
    BY <2>1
<1>4. CASE a.ok /\ a.r.op = "create"
  <2>1. PICK id \in DOMAIN c :
          /\ a.rows = <<Line(id, c[id])>> /\ DOMAIN c = DOMAIN b \cup {id} /\ id \notin DOMAIN b
          /\ \A x \in DOMAIN b \ {id} :
                c[x].pin = b[x].pin /\ (~a.r.mark => c[x].isDefault = b[x].isDefault)
    BY <1>4 DEF Tells
  <2> DEFINE line == Line(id, c[id])
  <2>2. line.id = id /\ line.pin = c[id].pin /\ line.isDefault = c[id].isDefault
    BY DEF Line
  <2> HIDE DEF line
  <2>3. lines = addresses \o <<line>> /\ a.rows = <<line>>
    BY <1>4, <2>1 DEF NewLines, line
  <2>4. ToSet(lines) = ToSet(addresses) \cup {line}
    <3>1. ToSet(addresses \o <<line>>) = ToSet(addresses) \cup ToSet(<<line>>)
      <4>1. <<line>> \in Seq(LineType) /\ addresses \in Seq(LineType)
        BY <2>3
      <4> HIDE DEF lines
      <4>2. ASSUME NEW s \in Seq(LineType), NEW t \in Seq(LineType)
            PROVE  ToSet(s \o t) = ToSet(s) \cup ToSet(t)
        BY ToSetConcat
      <4> QED
        BY <4>1, <4>2, Zenon
    <3>2. ToSet(<<line>>) = {line}
      BY DEF ToSet
    <3> QED
      BY <2>3, <3>1, <3>2
  <2> HIDE DEF lines
  <2>5. \A e \in ToSet(addresses) : e.id \in DOMAIN b \ {id}
    BY <1>1, <2>1
  <2>6. \A e \in ToSet(lines) :
            /\ e.id \in DOMAIN c /\ e.pin = c[e.id].pin
            /\ marked => e.isDefault = c[e.id].isDefault
    BY <1>1, <1>4, <2>1, <2>2, <2>4, <2>5
  <2>7. \A x \in DOMAIN c : \E e \in ToSet(lines) : e.id = x
    BY <1>1, <2>1, <2>2, <2>4
  <2>8. {e.id : e \in ToSet(lines)} = DOMAIN c
    BY <2>6, <2>7
  <2> QED
    BY <2>6, <2>8 DEF Shows, lines
<1>5. CASE a.ok /\ a.r.op = "update" /\ a.rows # <<>>
  <2> DEFINE id == a.r.id
             line == Line(id, c[id])
  <2>1. /\ a.rows = <<line>> /\ DOMAIN c = DOMAIN b \cup {id} /\ id \in DOMAIN b
        /\ \A x \in DOMAIN b \ {id} :
              c[x].pin = b[x].pin /\ (~a.r.mark => c[x].isDefault = b[x].isDefault)
    BY <1>5 DEF Tells
  <2>10. IdIn(a) = id
    BY <2>1 DEF IdIn, Line
  <2>2. line.id = id /\ line.pin = c[id].pin /\ line.isDefault = c[id].isDefault
    BY DEF Line
  <2>3. DOMAIN c = DOMAIN b
    BY <2>1
  <2> HIDE DEF line, id
  <2>4. lines = [i \in 1 .. Len(addresses) |->
                    IF addresses[i].id = id THEN line ELSE addresses[i]]
    BY <1>5, <2>1, <2>10 DEF NewLines
  <2> HIDE DEF lines
  <2>5. ToSet(lines) = {IF e.id = id THEN line ELSE e : e \in ToSet(addresses)}
    BY <1>2, <2>4 DEF ToSet
  <2>6. \A e \in ToSet(addresses) :
            LET f == IF e.id = id THEN line ELSE e
            IN  /\ f.id = e.id /\ f.pin = c[e.id].pin
                /\ marked => f.isDefault = c[e.id].isDefault
    BY <1>1, <1>5, <2>1, <2>2
  <2>7. \A f \in ToSet(lines) :
            /\ f.id \in DOMAIN c /\ f.pin = c[f.id].pin
            /\ marked => f.isDefault = c[f.id].isDefault
    BY <1>1, <2>3, <2>5, <2>6
  <2>8. \A x \in DOMAIN c : \E f \in ToSet(lines) : f.id = x
    <3> SUFFICES ASSUME NEW x \in DOMAIN c PROVE \E f \in ToSet(lines) : f.id = x
      OBVIOUS
    <3>1. PICK e \in ToSet(addresses) : e.id = x
      BY <1>1, <2>3
    <3> QED
      BY <2>5, <2>6, <3>1
  <2>9. {e.id : e \in ToSet(lines)} = DOMAIN c
    BY <2>7, <2>8
  <2> QED
    BY <2>7, <2>9 DEF Shows, lines
<1>6. CASE a.ok /\ a.r.op = "setDefault"
  <2> DEFINE id == IdIn(a)
  <2>1. DOMAIN c = DOMAIN b
        /\ \A x \in DOMAIN b : c[x].pin = b[x].pin /\ (marked => c[x].isDefault = (x = id))
    BY <1>6 DEF Tells
  <2> HIDE DEF id
  <2> DEFINE M(e) == [e EXCEPT !.isDefault = e.id = id]
  <2>2. lines = [i \in 1 .. Len(addresses) |-> M(addresses[i])]
    BY <1>6 DEF NewLines, MarkOnly, id
  <2>3. \A e \in ToSet(addresses) :
            /\ M(e).id = e.id /\ M(e).pin = e.pin
            /\ M(e).isDefault = (e.id = id)
    <3>1. \A e \in ToSet(addresses) : e \in LineType
      BY DEF ToSet
    <3> QED
      BY <3>1 DEF LineType
  <2> HIDE DEF M, lines
  <2>4. ToSet(lines) = {M(e) : e \in ToSet(addresses)}
    BY <1>2, <2>2 DEF ToSet
  <2>5. \A f \in ToSet(lines) :
            /\ f.id \in DOMAIN c /\ f.pin = c[f.id].pin
            /\ marked => f.isDefault = c[f.id].isDefault
    BY <1>1, <2>1, <2>3, <2>4
  <2>6. \A x \in DOMAIN c : \E f \in ToSet(lines) : f.id = x
    BY <1>1, <2>1, <2>3, <2>4
  <2>7. {f.id : f \in ToSet(lines)} = DOMAIN c
    BY <2>5, <2>6
  <2> QED
    BY <2>5, <2>7 DEF Shows, lines
<1>7. CASE a.ok /\ a.r.op = "delete"
  <2>1. DOMAIN c = DOMAIN b \ {a.r.id} /\ \A x \in DOMAIN c : c[x].pin = b[x].pin
    BY <1>7 DEF Tells
  <2>2. lines = Without(addresses, a.r.id) /\ ~marked
    BY <1>7 DEF NewLines
  <2> HIDE DEF lines
  <2>3. ToSet(lines) = {e \in ToSet(addresses) : e.id # a.r.id}
    BY <2>2, WithoutIs
  <2>4. \A e \in ToSet(lines) : e.id \in DOMAIN c /\ e.pin = c[e.id].pin
    BY <1>1, <2>1, <2>3
  <2>5. \A x \in DOMAIN c : \E e \in ToSet(lines) : e.id = x
    BY <1>1, <2>1, <2>3
  <2>6. {e.id : e \in ToSet(lines)} = DOMAIN c
    BY <2>4, <2>5
  <2> QED
    BY <2>2, <2>4, <2>6 DEF Shows, lines
<1>8. CASE a.ok /\ a.r.op = "update" /\ a.rows = <<>>
  <2>1. c = b
    <3>1. \A id \in DOMAIN c : a.rows # <<Line(id, c[id])>>
      BY <1>8
    <3> QED
      BY <1>8, <3>1 DEF Tells
  <2>2. IdIn(a) = 0 /\ \A i \in 1 .. Len(addresses) : addresses[i].id # 0
    <3>1. \A e \in LineType : e.id # 0
      BY DEF LineType
    <3>2. \A i \in 1 .. Len(addresses) : addresses[i].id # 0
      BY <3>1
    <3> QED
      BY <1>8, <3>2 DEF IdIn
  <2>3. NewLines(a) = [i \in 1 .. Len(addresses) |-> addresses[i]]
    BY <1>8, <2>2 DEF NewLines
  <2>4. lines = addresses
    BY <2>3
  <2> QED
    BY <2>1, <2>4
<1> QED
  BY <1>3, <1>4, <1>5, <1>6, <1>7, <1>8 DEF Tells

LEMMA ReplyKeepsBook == BookInv /\ ReceiveReply => BookInv'
<1> SUFFICES ASSUME BookInv, ReceiveReply PROVE BookInv'
  OBVIOUS
<1>1. AddressTypes /\ replies \in Seq(ReplyType)
  BY DEF BookInv, AddressTypes
<1>2. PICK i \in 1 .. Len(replies) :
          /\ replies' = RemoveAt(replies, i)
          /\ \/ AddressesLoaded(replies[i]) \/ AddressSaved(replies[i])
             \/ DefaultSet(replies[i]) \/ AddressDeleted(replies[i])
          /\ crossed' = (crossed \/ i > 1)
  BY DEF ReceiveReply
<1>3. UNCHANGED <<book, ids, validating, checks, asked, begun, typed, calls, unmarked, overlapped>>
  BY DEF ReceiveReply
<1> DEFINE a == replies[i]  n == Len(replies)
<1>4. /\ n \in Nat /\ Len(replies') = n - 1 /\ replies' \in Seq(ReplyType)
      /\ \A j \in 1 .. n - 1 : replies'[j] = IF j < i THEN replies[j] ELSE replies[j + 1]
  <2> DEFINE T == ReplyType  s == replies
  <2>1. s \in Seq(T) /\ i \in 1 .. Len(s) /\ replies' = RemoveAt(s, i)
    BY <1>1, <1>2
  <2> HIDE DEF T, s
  <2>2. /\ RemoveAt(s, i) \in Seq(T) /\ Len(RemoveAt(s, i)) = Len(s) - 1
        /\ \A j \in 1 .. Len(s) - 1 : RemoveAt(s, i)[j] = IF j < i THEN s[j] ELSE s[j + 1]
    BY <2>1, RemovedAt
  <2>3. Len(s) \in Nat
    BY <2>1
  <2> QED
    BY <2>1, <2>2, <2>3 DEF T, s
<1>5. a \in ReplyType /\ a.rows \in Seq(LineType) /\ a.ok \in BOOLEAN
  <2>1. a \in ReplyType
    BY <1>1
  <2> HIDE DEF a
  <2>2. a.rows \in Seq(LineType) /\ a.ok \in BOOLEAN
    BY <2>1 DEF ReplyType
  <2> QED
    BY <1>1, <2>1, <2>2 DEF a
<1>6. FormInv'
  BY ReplyKeepsForm DEF BookInv
<1>7. /\ a.r.op = "load" => /\ addresses' = IF a.ok THEN a.rows ELSE addresses
                            /\ status' = IF a.ok THEN "shown" ELSE "error"
      /\ a.r.op # "load" => addresses' = NewLines(a) /\ status' = status
  BY <1>2 DEF AddressesLoaded, AddressSaved, DefaultSet, AddressDeleted, NewLines
<1>8. addresses \in Seq(LineType) /\ addresses' \in Seq(LineType)
  <2>1. addresses \in Seq(LineType)
    BY <1>1 DEF AddressTypes, AddressFormTypeOK, LineType
  <2>2. NewLines(a) \in Seq(LineType)
    BY <1>1, <1>5, NewLinesType
  <2> QED
    BY <1>5, <1>7, <2>1, <2>2
\* The form is closed and emptied, or stays as it is.
<1>9. \/ UNCHANGED <<modalOpen, editing, pincode, isDefault, touched, timeout, validation, retyped>>
      \/ /\ modalOpen' = FALSE /\ editing' = 0 /\ pincode' = Short /\ isDefault' = FALSE
         /\ touched' = FALSE /\ timeout' = FALSE /\ validation' = NoVerdict
         /\ retyped' = (retyped \/ checks # {})
  BY <1>2 DEF AddressesLoaded, AddressSaved, DefaultSet, AddressDeleted, SetModalOf, ResetForm,
     form_vars
<1>10. /\ modalLoading' \in {modalLoading, FALSE} /\ deletingId' \in {deletingId, 0}
       /\ status' \in {status, "shown", "error"}
  BY <1>2 DEF AddressesLoaded, AddressSaved, DefaultSet, AddressDeleted
<1> HIDE DEF a, n
<1>11. AddressTypes'
  <2>1. RequestType' = RequestType /\ LineType' = LineType
    BY <1>3 DEF RequestType, LineType
  <2>2. ReplyType' = ReplyType
    BY <2>1 DEF ReplyType
  <2>4. {modalOpen', modalLoading', isDefault', touched', timeout', validating',
         retyped', crossed', unmarked', overlapped'} \subseteq BOOLEAN
    BY <1>1, <1>2, <1>3, <1>9, <1>10 DEF AddressTypes, AddressFormTypeOK
  <2>5. /\ editing' \in 0 .. ids /\ deletingId' \in 0 .. ids
        /\ pincode' \in Pins \cup {Short}
        /\ validation' \in [pin : Pins, serviceable : BOOLEAN] \cup {NoVerdict}
        /\ status' \in {"loading", "error", "shown"}
    BY <1>1, <1>9, <1>10 DEF AddressTypes, AddressFormTypeOK
  <2>6. addresses' \in Seq([id : 1 .. ids, pin : Pins, isDefault : BOOLEAN])
    BY <1>8 DEF LineType
  <2>7. AddressFormTypeOK'
    BY <1>1, <1>3, <2>4, <2>5, <2>6 DEF AddressTypes, AddressFormTypeOK
  <2>8. /\ asked' \subseteq RequestType' /\ replies' \in Seq(ReplyType') /\ ids' \in Nat
        /\ \A q \in asked' : q.op = "setDefault" => q.mark
        /\ \A q \in begun' : q.op # "setDefault" => q.pin \in Serviceable
    BY <1>1, <1>3, <1>4, <2>1, <2>2 DEF AddressTypes
  <2> QED
    BY <2>7, <2>8 DEF AddressTypes
<1>12. UnderWay' \subseteq UnderWay /\ a.r \in UnderWay
  <2>1. ASSUME NEW j \in 1 .. n - 1 PROVE replies'[j].r \in UnderWay
    <3>1. replies'[j] = replies[j] \/ replies'[j] = replies[j + 1]
      BY <1>4, <2>1
    <3>2. j \in 1 .. n /\ j + 1 \in 1 .. n
      BY <1>4, <2>1
    <3> QED
      BY <3>1, <3>2 DEF UnderWay, n
  <2> QED
    BY <1>3, <1>4, <2>1 DEF UnderWay, a
<1>13. MarkLeft'
  BY <1>3, <1>12 DEF BookInv, MarkLeft
<1>18. Cleared' /\ Marked' = Marked /\ Exact' = Exact
  BY <1>3 DEF BookInv, Cleared, Marked, Exact
<1> SUFFICES ASSUME ~crossed' PROVE LoadAlone' /\ (status' = "shown" => Told')
  BY <1>6, <1>11, <1>13, <1>18 DEF BookInv
<1>14. i = 1 /\ ~crossed /\ LoadAlone
  <2>1. ~crossed /\ ~(i > 1)
    BY <1>2
  <2> QED
    BY <2>1 DEF BookInv
<1>15. \A j \in 1 .. n - 1 : replies'[j] = replies[j + 1] /\ j + 1 \in 1 .. n
  BY <1>4, <1>14
<1>16. LoadAlone'
  <2>1. ASSUME NEW q \in asked', q.op = "load" PROVE FALSE
    BY <1>2, <1>3, <1>14, <2>1 DEF LoadAlone
  <2>2. ASSUME NEW j \in 1 .. n - 1, replies'[j].r.op = "load" PROVE FALSE
    <3>1. n = 1
      BY <1>14, <1>15, <2>2 DEF LoadAlone, n
    <3> QED
      BY <2>2, <3>1
  <2> QED
    BY <1>4, <2>1, <2>2 DEF LoadAlone
<1>17. ASSUME status' = "shown" PROVE Told'
  <2>1. CASE a.r.op = "load"
    <3>1. a.ok /\ addresses' = a.rows /\ n = 1 /\ Shows(a.rows, book, TRUE)
      BY <1>7, <1>14, <1>17, <2>1 DEF LoadAlone, a, n
    <3> DEFINE k == [j \in {0} |-> book]
    <3>2. k[0] = book /\ Len(replies') = 0
      BY <1>4, <3>1
    <3> HIDE DEF k
    <3>3. Shows(addresses', k[0], Marked')
      BY <3>1, <3>2 DEF Shows
    <3>4. Agrees(k[0], book', Exact')
      BY <1>3, <3>2 DEF Agrees
    <3> QED
      BY <3>2, <3>3, <3>4 DEF Told
  <2>2. CASE a.r.op # "load"
    <3> DEFINE m == Marked
    <3>1. status = "shown" /\ addresses' = NewLines(a)
      BY <1>7, <1>17, <2>2
    <3>2. PICK h : /\ Agrees(h[n], book, Exact) /\ Shows(addresses, h[0], m)
                   /\ \A j \in 1 .. n : Tells(replies[j], h[j - 1], h[j], m)
      BY <1>14, <3>1 DEF BookInv, Told, n
    <3>3. m \in BOOLEAN
      BY DEF Marked
    <3>4. m => a.r.op # "delete" /\ (a.r.op \in {"create", "update"} => ~a.r.mark)
      BY <1>12 DEF BookInv, MarkLeft, Marked
    <3>5. Marked' = m
      BY <1>18
    <3> HIDE DEF m
    <3>6. Shows(NewLines(a), h[1], m)
      <4>1. Tells(a, h[0], h[1], m)
        <5>1. 1 \in 1 .. n /\ 1 - 1 = 0
          BY <1>4, <1>14 DEF n
        <5> QED
          BY <1>14, <3>2, <5>1 DEF a
      <4> QED
        <5>1. ids \in Nat
          BY <1>1 DEF AddressTypes
        <5> QED
          BY <5>1, <1>5, <1>8, <2>2, <3>2, <3>3, <3>4, <4>1, PageFollows
    <3> DEFINE k == [j \in 0 .. n - 1 |-> h[j + 1]]
    <3>7. /\ k[n - 1] = h[n] /\ k[0] = h[1]
          /\ \A j \in 1 .. n - 1 : k[j] = h[j + 1] /\ k[j - 1] = h[j] /\ j + 1 - 1 = j
      <4>1. n - 1 \in 0 .. n - 1 /\ n - 1 + 1 = n /\ 0 \in 0 .. n - 1 /\ 0 + 1 = 1
        BY <1>2, <1>4 DEF n
      <4>2. \A j \in 1 .. n - 1 : j \in 0 .. n - 1 /\ j - 1 \in 0 .. n - 1 /\ j - 1 + 1 = j /\ j + 1 - 1 = j
        BY <1>4
      <4> QED
        BY <4>1, <4>2
    <3> HIDE DEF k
    <3>8. \A j \in 1 .. n - 1 : Tells(replies'[j], k[j - 1], k[j], m)
      <4> SUFFICES ASSUME NEW j \in 1 .. n - 1 PROVE Tells(replies'[j], k[j - 1], k[j], m)
        OBVIOUS
      <4>1. j + 1 \in 1 .. n /\ replies'[j] = replies[j + 1]
        BY <1>15
      <4>2. Tells(replies[j + 1], h[j + 1 - 1], h[j + 1], m)
        BY <3>2, <4>1
      <4> QED
        BY <3>7, <4>1, <4>2
    <3>9. Shows(addresses', k[0], Marked')
      BY <3>1, <3>5, <3>6, <3>7
    <3>10. Agrees(k[n - 1], book', Exact')
      BY <1>3, <1>18, <3>2, <3>7
    <3>11. \A j \in 1 .. n - 1 : Tells(replies'[j], k[j - 1], k[j], Marked')
      BY <3>5, <3>8
    <3> QED
      BY <1>4, <3>9, <3>10, <3>11 DEF Told
  <2> QED
    BY <2>1, <2>2
<1> QED
  BY <1>16, <1>17

\* A step of the form sends nothing and leaves the list alone.
LEMMA FormStepKeepsBook ==
  ASSUME BookInv, FormInv', AddressFormTypeOK',
         UNCHANGED <<book, ids, addresses, status, asked, replies, begun, crossed, unmarked,
                     overlapped>>
  PROVE  BookInv'
<1>1. AddressTypes'
  <2>1. RequestType' = RequestType /\ LineType' = LineType
    BY DEF RequestType, LineType
  <2>2. ReplyType' = ReplyType
    BY <2>1 DEF ReplyType
  <2> QED
    BY <2>1, <2>2 DEF BookInv, AddressTypes
<1>2. UnderWay' = UnderWay
  BY DEF UnderWay
<1>3. MarkLeft'
  BY <1>2 DEF BookInv, MarkLeft
<1>4. Marked' = Marked /\ Exact' = Exact /\ Cleared'
  BY DEF BookInv, Marked, Exact, Cleared
<1>5. ~crossed => LoadAlone'
  BY DEF BookInv, LoadAlone, Shows
<1>6. ~crossed /\ status = "shown" => Told'
  BY <1>4 DEF BookInv, Told
<1> QED
  BY <1>1, <1>3, <1>4, <1>5, <1>6 DEF BookInv

LEMMA TypingKeepsBook ==
  ASSUME BookInv, FormInv',
         HandleOpenCreate \/ HandleOpenEdit \/ OnClose \/ ChangePincode \/ ChangeDefault
            \/ ValidatePincode \/ PincodeValidated
  PROVE  BookInv'
<1>1. AddressFormTypeOK /\ FormInv /\ ids \in Nat /\ addresses \in Seq(LineType)
  BY DEF BookInv, AddressTypes, AddressFormTypeOK, LineType
<1>2. UNCHANGED <<book, ids, addresses, status, asked, replies, begun, crossed, unmarked,
                  overlapped, modalLoading, deletingId, calls>>
  BY DEF HandleOpenCreate, HandleOpenEdit, OnClose, ChangePincode, ChangeDefault, ValidatePincode,
     PincodeValidated, page_of_addresses
<1>3. CASE HandleOpenCreate \/ HandleOpenEdit \/ OnClose
  <2>1. UNCHANGED <<validating, checks, typed>>
    BY <1>3 DEF HandleOpenCreate, HandleOpenEdit, OnClose
  <2>2. PICK m \in BOOLEAN, id \in 0 .. ids, pin \in Pins \cup {Short}, mark \in BOOLEAN :
           SetModalOf(m, id, pin, mark)
    <3>1. CASE HandleOpenCreate \/ OnClose
      <4>1. 0 \in 0 .. ids /\ Short \in Pins \cup {Short}
        BY <1>1
      <4> QED
        BY <3>1, <4>1 DEF HandleOpenCreate, OnClose
    <3>2. CASE HandleOpenEdit
      <4>1. PICK a \in LinesShown : SetModalOf(TRUE, a.id, a.pin, a.isDefault)
        BY <3>2 DEF HandleOpenEdit
      <4>2. a \in LineType
        BY <1>1, <4>1 DEF LinesShown, ToSet
      <4>3. a.id \in 0 .. ids /\ a.pin \in Pins \cup {Short} /\ a.isDefault \in BOOLEAN
        BY <1>1, <4>2 DEF LineType
      <4> QED
        BY <4>1, <4>3
    <3> QED
      BY <1>3, <3>1, <3>2
  <2>3. /\ modalOpen' = m /\ editing' = id /\ pincode' = pin /\ isDefault' = mark
        /\ touched' = FALSE /\ timeout' = FALSE /\ validation' = NoVerdict
        /\ retyped' = (retyped \/ checks # {})
    BY <2>2 DEF SetModalOf, ResetForm
  <2>4. AddressFormTypeOK'
    BY <1>1, <1>2, <2>1, <2>3 DEF AddressFormTypeOK
  <2> QED
    BY <1>2, <2>4, FormStepKeepsBook
<1>4. CASE ChangePincode
  <2>1. PICK p \in (Pins \cup {Short}) \ {pincode} :
            /\ pincode' = p /\ touched' = TRUE
            /\ timeout' = (p # Short)
            /\ validation' = IF p = Short THEN NoVerdict ELSE validation
    BY <1>4 DEF ChangePincode
  <2>2. /\ typed < MaxTyped /\ typed' = typed + 1 /\ retyped' = (retyped \/ checks # {})
        /\ UNCHANGED <<modalOpen, editing, isDefault, validating, checks>>
    BY <1>4 DEF ChangePincode, page_of_addresses
  <2>3. typed' \in 0 .. MaxTyped
    BY <1>1, <2>2, PinsAssumption DEF AddressFormTypeOK
  <2>4. validation' \in [pin : Pins, serviceable : BOOLEAN] \cup {NoVerdict}
        /\ pincode' \in Pins \cup {Short}
    BY <1>1, <2>1 DEF AddressFormTypeOK
  <2>5. AddressFormTypeOK'
    BY <1>1, <1>2, <2>1, <2>2, <2>3, <2>4 DEF AddressFormTypeOK
  <2> QED
    BY <1>2, <2>5, FormStepKeepsBook
<1>5. CASE ChangeDefault
  <2>1. AddressFormTypeOK'
    BY <1>1, <1>2, <1>5 DEF AddressFormTypeOK, ChangeDefault, page_of_addresses
  <2> QED
    BY <1>2, <2>1, FormStepKeepsBook
<1>6. CASE ValidatePincode
  <2>1. pincode \in Pins
    BY <1>1, <1>6 DEF FormInv, Asked, ValidatePincode
  <2>2. \A c \in checks' : c.pin \in Pins
    BY <1>1, <1>6, <2>1 DEF AddressFormTypeOK, ValidatePincode
  <2>3. AddressFormTypeOK'
    BY <1>1, <1>2, <1>6, <2>2 DEF AddressFormTypeOK, ValidatePincode, page_of_addresses
  <2> QED
    BY <1>2, <2>3, FormStepKeepsBook
<1>7. CASE PincodeValidated
  <2>1. PICK c \in checks : \E ok \in {c.pin \in Serviceable, FALSE} :
            checks' = checks \ {c} /\ validation' = [pin |-> c.pin, serviceable |-> ok]
    BY <1>7 DEF PincodeValidated
  <2>2. c.pin \in Pins /\ checks' = checks \ {c}
        /\ validation' \in [pin : Pins, serviceable : BOOLEAN]
    <3>1. c.pin \in Pins
      BY <1>1 DEF AddressFormTypeOK
    <3> DEFINE known == c.pin \in Serviceable
    <3>2. known \in BOOLEAN
      OBVIOUS
    <3>3. \E ok \in {known, FALSE} :
              checks' = checks \ {c} /\ validation' = [pin |-> c.pin, serviceable |-> ok]
      BY <2>1
    <3> HIDE DEF known
    <3>4. PICK ok \in {known, FALSE} :
              checks' = checks \ {c} /\ validation' = [pin |-> c.pin, serviceable |-> ok]
      BY <3>3
    <3>5. ok \in BOOLEAN
      BY <3>2
    <3> QED
      BY <3>1, <3>4, <3>5
  <2>3. AddressFormTypeOK'
    BY <1>1, <1>2, <1>7, <2>1, <2>2 DEF AddressFormTypeOK, PincodeValidated, page_of_addresses
  <2> QED
    BY <1>2, <2>3, FormStepKeepsBook
<1> QED
  BY <1>3, <1>4, <1>5, <1>6, <1>7

\* A request is sent from the page.
LEMMA CallKeepsBook ==
  ASSUME BookInv, FormInv', NEW r \in RequestType, Call(r),
         status' = status \/ status' = "loading", modalOpen' = modalOpen, editing' = editing,
         modalLoading' \in BOOLEAN, deletingId' \in 0 .. ids, unmarked' \in BOOLEAN,
         r.op = "setDefault" => r.mark,
         ~unmarked' => /\ ~unmarked /\ r.op # "delete"
                       /\ r.op \in {"create", "update"} => ~r.mark
  PROVE  BookInv'
<1>1. /\ calls <= MaxCalls /\ calls' = calls + 1 /\ asked' = asked \cup {r}
      /\ crossed' = (crossed \/ \E q \in UnderWay : "load" \in {q.op, r.op})
      /\ UNCHANGED <<book, ids, addresses, form_vars, validating, checks, replies, begun, typed, retyped,
                     overlapped>>
  BY DEF Call
<1> USE DEF form_vars
<1>2. AddressTypes /\ AddressFormTypeOK
  BY DEF BookInv, AddressTypes
<1>3. calls' \in 1 .. MaxCalls + 1 /\ crossed' \in BOOLEAN
  BY <1>1, <1>2, PinsAssumption DEF AddressFormTypeOK
<1>4. AddressTypes'
  <2>1. RequestType' = RequestType /\ LineType' = LineType
    BY <1>1 DEF RequestType, LineType
  <2>2. ReplyType' = ReplyType
    BY <2>1 DEF ReplyType
  <2>3. AddressFormTypeOK'
    BY <1>1, <1>2, <1>3 DEF AddressFormTypeOK
  <2>4. /\ asked' \subseteq RequestType' /\ replies' \in Seq(ReplyType') /\ ids' \in Nat
        /\ \A q \in asked' : q.op = "setDefault" => q.mark
        /\ \A q \in begun' : q.op # "setDefault" => q.pin \in Serviceable
    BY <1>1, <1>2, <2>1, <2>2 DEF AddressTypes
  <2> QED
    BY <2>3, <2>4 DEF AddressTypes
<1>5. UnderWay' = UnderWay \cup {r}
  BY <1>1 DEF UnderWay
<1>6. MarkLeft'
  BY <1>5 DEF BookInv, MarkLeft
<1>10. (Marked' => Marked) /\ (Exact' => Exact)
  BY <1>1 DEF Marked, Exact
<1>11. Cleared'
  BY <1>1, <1>10 DEF BookInv, Cleared
<1> SUFFICES ASSUME ~crossed' PROVE LoadAlone' /\ (status' = "shown" => Told')
  BY <1>4, <1>6, <1>11 DEF BookInv
<1>7. ~crossed /\ LoadAlone /\ ~\E q \in UnderWay : "load" \in {q.op, r.op}
  BY <1>1 DEF BookInv
<1>8. LoadAlone'
  <2>1. ASSUME NEW i \in 1 .. Len(replies) PROVE replies[i].r.op # "load" /\ r.op # "load"
    <3>1. replies[i].r \in UnderWay
      BY DEF UnderWay
    <3> QED
      BY <1>7, <3>1
  <2>2. ASSUME NEW q \in asked', q.op = "load" PROVE asked' = {q} /\ replies' = <<>>
    <3>1. q = r
      BY <1>1, <1>7, <2>2 DEF UnderWay
    <3>2. UnderWay = {}
      BY <1>7, <2>2, <3>1
    <3>3. asked = {} /\ 1 .. Len(replies) = {}
      BY <3>2 DEF UnderWay
    <3>4. replies \in Seq(ReplyType)
      BY <1>2 DEF AddressTypes
    <3>5. replies = <<>>
      <4> DEFINE n == Len(replies)
      <4>1. n \in Nat
        BY <3>4
      <4>2. 1 .. n = {}
        BY <3>3
      <4> HIDE DEF n
      <4>3. n = 0
        BY <4>1, <4>2
      <4> QED
        BY <3>4, <4>3 DEF n
    <3> QED
      BY <1>1, <3>1, <3>3, <3>5
  <2> QED
    BY <1>1, <2>1, <2>2 DEF LoadAlone
<1>9. ASSUME status' = "shown" PROVE Told'
  <2>1. Told /\ status = "shown"
    BY <1>7, <1>9 DEF BookInv
  <2>2. PICK h : /\ Agrees(h[Len(replies)], book, Exact) /\ Shows(addresses, h[0], Marked)
                 /\ \A i \in 1 .. Len(replies) : Tells(replies[i], h[i - 1], h[i], Marked)
    BY <2>1 DEF Told
  <2>3. /\ Shows(addresses, h[0], Marked')
        /\ \A i \in 1 .. Len(replies) : Tells(replies[i], h[i - 1], h[i], Marked')
    <3> DEFINE m == Marked
               k == Marked'
    <3>1. k => m
      BY <1>10
    <3>2. Shows(addresses, h[0], m) /\ \A i \in 1 .. Len(replies) : Tells(replies[i], h[i - 1], h[i], m)
      BY <2>2
    <3> HIDE DEF m, k
    <3>3. Shows(addresses, h[0], k) /\ \A i \in 1 .. Len(replies) : Tells(replies[i], h[i - 1], h[i], k)
      BY <3>1, <3>2, WithoutMarks
    <3> QED
      BY <3>3 DEF k
  <2>4. Agrees(h[Len(replies)], book, Exact')
    BY <1>10, <2>2 DEF Agrees
  <2> QED
    BY <1>1, <2>3, <2>4 DEF Told
<1> QED
  BY <1>8, <1>9

LEMMA AsksKeepBook ==
  ASSUME BookInv, FormInv',
         LoadAddresses \/ HandleSubmitOf \/ HandleSetDefault \/ HandleDeleteOf
  PROVE  BookInv'
<1>1. /\ AddressFormTypeOK /\ ids \in Nat /\ addresses \in Seq(LineType) /\ calls \in Nat
      /\ {unmarked, isDefault, modalLoading} \subseteq BOOLEAN /\ pincode \in Pins \cup {Short}
      /\ editing \in 0 .. ids /\ deletingId \in 0 .. ids
  BY DEF BookInv, AddressTypes, AddressFormTypeOK, LineType
<1>2. ASSUME NEW op \in {"load", "create", "update", "setDefault", "delete"}, NEW id \in 0 .. ids,
             NEW pin \in Pins \cup {Short}, NEW mark \in {TRUE, FALSE}
      PROVE  /\ Request(op, id, pin, mark, calls) \in RequestType
             /\ Request(op, id, pin, mark, calls).op = op
             /\ Request(op, id, pin, mark, calls).mark = mark
  BY <1>1 DEF Request, RequestType
<1>3. \A a \in LinesShown : a.id \in 0 .. ids
  <2>1. \A a \in LinesShown : a \in LineType
    BY <1>1 DEF LinesShown, ToSet
  <2> QED
    BY <1>1, <2>1 DEF LineType
<1>4. CASE LoadAddresses
  <2> DEFINE r == Request("load", 0, Short, FALSE, calls)
  <2>1. r \in RequestType /\ r.op = "load"
    <3>1. 0 \in 0 .. ids /\ Short \in Pins \cup {Short}
      BY <1>1
    <3> QED
      BY <1>2, <3>1
  <2>2. /\ Call(r) /\ status' = "loading"
        /\ UNCHANGED <<modalOpen, editing, modalLoading, deletingId, unmarked>>
    BY <1>4 DEF LoadAddresses
  <2> HIDE DEF r
  <2> QED
    BY <1>1, <2>1, <2>2, CallKeepsBook
<1>5. CASE HandleSubmitOf
  <2> DEFINE op == IF editing = 0 THEN "create" ELSE "update"
             r == Request(op, editing, pincode, isDefault, calls)
  <2>1. op \in {"load", "create", "update", "setDefault", "delete"} /\ op # "delete"
        /\ op # "setDefault" /\ isDefault \in {TRUE, FALSE}
    BY <1>1
  <2> HIDE DEF op
  <2>2. r \in RequestType /\ r.op = op /\ r.mark = isDefault
    <3>1. editing \in 0 .. ids /\ pincode \in Pins \cup {Short}
      BY <1>1
    <3>2. r = [op |-> op, id |-> editing, pin |-> pincode, mark |-> isDefault, n |-> calls]
      BY DEF Request
    <3> HIDE DEF r
    <3> QED
      BY <1>1, <2>1, <3>1, <3>2 DEF RequestType
  <2>3. /\ Call(r) /\ modalLoading' = TRUE /\ unmarked' = (unmarked \/ isDefault)
        /\ UNCHANGED <<status, modalOpen, editing, deletingId>>
    BY <1>5 DEF HandleSubmitOf, op
  <2> HIDE DEF r
  <2>4. /\ unmarked' \in BOOLEAN /\ modalLoading' \in BOOLEAN /\ deletingId' \in 0 .. ids
        /\ ~unmarked' => ~unmarked /\ ~r.mark
    BY <1>1, <2>2, <2>3
  <2> QED
    BY <2>1, <2>2, <2>3, <2>4, CallKeepsBook
<1>6. CASE HandleSetDefault
  <2>1. PICK a \in LinesShown : Call(Request("setDefault", a.id, Short, TRUE, calls))
    BY <1>6 DEF HandleSetDefault
  <2> DEFINE r == Request("setDefault", a.id, Short, TRUE, calls)
  <2>2. r \in RequestType /\ r.op = "setDefault" /\ r.mark
    BY <1>2, <1>3
  <2>3. Call(r) /\ UNCHANGED <<status, modalOpen, editing, modalLoading, deletingId, unmarked>>
    BY <1>6, <2>1 DEF HandleSetDefault
  <2> HIDE DEF r
  <2> QED
    BY <1>1, <2>2, <2>3, CallKeepsBook
<1>7. CASE HandleDeleteOf
  <2>1. PICK a \in LinesShown :
            deletingId' = a.id /\ Call(Request("delete", a.id, Short, FALSE, calls))
    BY <1>7 DEF HandleDeleteOf
  <2> DEFINE r == Request("delete", a.id, Short, FALSE, calls)
  <2>2. r \in RequestType /\ r.op = "delete"
    BY <1>2, <1>3
  <2>3. /\ Call(r) /\ unmarked' = TRUE /\ deletingId' \in 0 .. ids
        /\ UNCHANGED <<status, modalOpen, editing, modalLoading>>
    BY <1>3, <1>7, <2>1 DEF HandleDeleteOf
  <2> HIDE DEF r
  <2> QED
    BY <1>1, <2>2, <2>3, CallKeepsBook
<1> QED
  BY <1>4, <1>5, <1>6, <1>7

LEMMA NextBook == BookInv /\ [AddressFormNext]_addressForm_vars => BookInv'
<1> SUFFICES ASSUME BookInv, [AddressFormNext]_addressForm_vars PROVE BookInv'
  OBVIOUS
<1>1. FormInv'
  BY NextForm DEF BookInv
<1>2. CASE UNCHANGED addressForm_vars
  <2>1. AddressFormTypeOK'
    BY <1>2 DEF BookInv, AddressTypes, AddressFormTypeOK, addressForm_vars, form_vars,
       page_of_addresses
  <2> QED
    BY <1>1, <1>2, <2>1, FormStepKeepsBook DEF addressForm_vars, page_of_addresses
<1> QED
  BY <1>1, <1>2, ServiceKeepsBook, ReplyKeepsBook, TypingKeepsBook, AsksKeepBook
     DEF AddressFormNext

\* Once nothing is under way the page lists the book with the pincodes it holds,
\* unless a load ran beside another request or an answer was lost or overtaken;
\* and the default mark as well, unless a form or a deletion moved it or two
\* requests that move it overlapped in the service.  The answers bring the page
\* there one after the other.  For any pincodes, any number of addresses and
\* requests and any order in which the service and the user act.
THEOREM PageIsTrue == AddressFormSpec => []PageIsTheBook
<1>1. BookInv => PageIsTheBook
  <2> SUFFICES ASSUME BookInv, UnderWay = {}, status = "shown", ~crossed
               PROVE  /\ {a.id : a \in ToSet(addresses)} = DOMAIN book
                      /\ \A a \in ToSet(addresses) :
                            /\ a.pin = book[a.id].pin
                            /\ unmarked \/ overlapped \/ a.isDefault = book[a.id].isDefault
    BY DEF PageIsTheBook
  <2>1. PICK h : Agrees(h[Len(replies)], book, Exact) /\ Shows(addresses, h[0], Marked)
    BY DEF BookInv, Told
  <2>2. Len(replies) = 0
    <3>1. 1 .. Len(replies) = {}
      BY DEF UnderWay
    <3>2. Len(replies) \in Nat
      BY DEF BookInv, AddressTypes
    <3> QED
      BY <3>1, <3>2
  <2>3. begun = {} /\ Agrees(h[0], book, Exact)
    BY <2>1, <2>2 DEF BookInv, AddressTypes, AddressFormTypeOK, UnderWay
  <2>4. Exact <=> ~unmarked /\ ~overlapped
    BY <2>3 DEF Exact, Marked
  <2> QED
    BY <2>1, <2>3, <2>4 DEF Shows, Agrees, Marked
<1> QED
  BY <1>1, BookStart, NextBook, PTL DEF AddressFormSpec

----------------------------------------------------------------------------
(* The admin's tables: the types of what they hold. *)

\* What an entry of a list, a request and an answer look like.
EntryType == [id : Nat \ {0}, row : Row]
Patches == UNION {[fields -> BOOLEAN] : fields \in SUBSET Fields}
Changes == {"create", "save", "switch", "delete"}
AskType == [op : {"load"} \cup Changes, id : Nat, patch : Patches, n : Nat]
AnswerType == [r : AskType, ok : BOOLEAN, got : Seq(EntryType), total : Nat]

\* The row that an answer is about.
About(a) == IF a.r.op = "create" THEN a.got[1].id ELSE a.r.id

\* An answer brings the row it is about, if any.
BringsItsRow(a) ==
    /\ a.r.op = "create" /\ a.ok = TRUE => a.got # <<>>
    /\ a.r.op \in Changes /\ a.got # <<>> => Len(a.got) = 1 /\ a.got[1].id = About(a)

\* Rows a desk may know of, in its list, its form, its requests or their answers, exist
\* or existed: b rows were created.
Known(asks, A, entries, m, b) ==
    /\ m <= b
    /\ \A k \in 1 .. Len(entries) : entries[k].id <= b
    /\ \A r \in asks : r.op \in Changes => r.id <= b
    /\ \A i \in 1 .. Len(A) :
          /\ A[i].r.op \in Changes => A[i].r.id <= b
          /\ \A k \in 1 .. Len(A[i].got) : A[i].got[k].id <= b

KnownTo(d) == Known(sent[d], answers[d], list[d], modal[d], born[kind[d]])

\* The rows of a table are numbered by what was created so far.
RowsType ==
    /\ DOMAIN rows = Tables /\ born \in [Tables -> Nat]
    /\ \A t \in Tables : /\ DOMAIN rows[t] \subseteq 1 .. born[t]
                         /\ \A id \in DOMAIN rows[t] : rows[t][id] \in Row

\* The kinds of values of a page.
PageType ==
    /\ kind \in [Desks -> Tables]
    /\ page \in [Desks -> Nat \ {0}] /\ total \in [Desks -> Int]
    /\ view \in [Desks -> {"loading", "error", "shown"}]
    /\ modal \in [Desks -> Nat \cup {-1}] /\ form \in [Desks -> Row]
    /\ saving \in [Desks -> BOOLEAN] /\ deleting \in [Desks -> Nat]
    /\ clicks \in [Desks -> 1 .. MaxClicks] /\ blurred \in [Desks -> BOOLEAN]

\* A desk that has sent one request sent the first load.
CallsType ==
    /\ list \in [Desks -> Seq(EntryType)]
    /\ sent \in [Desks -> SUBSET AskType] /\ answers \in [Desks -> Seq(AnswerType)]
    /\ \A d \in Desks :
          /\ \A i \in 1 .. Len(answers[d]) : BringsItsRow(answers[d][i])
          /\ clicks[d] = 1 => \A r \in sent[d] : r.op = "load"
          /\ \A r \in sent[d] : r.op = "load" => r.id # 0
          /\ KnownTo(d)

TableTypes == RowsType /\ PageType /\ CallsType

LEMMA RowsAreFields ==
  ASSUME NEW row \in Row, NEW patch \in Patches
  PROVE  Patched(row, patch) \in Row
<1>1. PICK fields \in SUBSET Fields : patch \in [fields -> BOOLEAN]
  BY DEF Patches
<1>2. ASSUME NEW f \in Fields
      PROVE  (IF f \in DOMAIN patch THEN patch[f] ELSE row[f]) \in BOOLEAN
  <2>1. f \in DOMAIN patch => patch[f] \in BOOLEAN
    BY <1>1, Zenon
  <2>2. row[f] \in BOOLEAN
    BY <1>2, Zenon DEF Row
  <2> QED
    BY <2>1, <2>2, Zenon
<1> QED
  BY <1>2, Zenon DEF Patched, Row

LEMMA FormsAreRows ==
  /\ FreshRow \in Row /\ NoPatch \in Patches /\ Row \subseteq Patches
  /\ \A field \in Fields : \A mark : [f \in {field} |-> ~mark] \in Patches
  /\ \A row \in Row : \A mark : [row EXCEPT !["other"] = ~mark] \in Row
<1>1. FreshRow \in Row
  BY Zenon DEF FreshRow, Row, Fields
<1>2. NoPatch \in Patches
  <2>1. NoPatch \in [{} -> BOOLEAN] /\ {} \in SUBSET Fields
    BY Zenon DEF NoPatch
  <2> QED
    BY <2>1, Zenon DEF Patches
<1>3. Row \subseteq Patches
  BY Zenon DEF Row, Patches
<1>4. ASSUME NEW field \in Fields, NEW mark
      PROVE  [f \in {field} |-> ~mark] \in Patches
  <2>1. [f \in {field} |-> ~mark] \in [{field} -> BOOLEAN] /\ {field} \in SUBSET Fields
    BY Zenon
  <2> QED
    BY <2>1, Zenon DEF Patches
<1>5. ASSUME NEW row \in Row, NEW mark
      PROVE  [row EXCEPT !["other"] = ~mark] \in Row
  <2>1. (~mark) \in BOOLEAN
    BY Zenon
  <2> QED
    BY <2>1 DEF Row
<1> QED
  BY <1>1, <1>2, <1>3, <1>4, <1>5

LEMMA TablesStart == TablesInit => TableTypes
<1> SUFFICES ASSUME TablesInit PROVE TableTypes
  OBVIOUS
<1> USE DEF TablesInit
<1>1. RowsType
  BY FormsAreRows, TablesAssumption DEF RowsType
<1>2. PageType
  BY FormsAreRows, TablesAssumption DEF PageType
<1>3. CallsType
  <2>1. Load(1, 0) \in AskType
    BY FormsAreRows DEF Load, Ask, AskType
  <2>2. list \in [Desks -> Seq(EntryType)] /\ answers \in [Desks -> Seq(AnswerType)]
    BY EmptySeq
  <2>3. ASSUME NEW d \in Desks
        PROVE  /\ sent[d] = {Load(1, 0)} /\ Load(1, 0).op = "load" /\ Load(1, 0).id = 1
               /\ modal[d] = -1 /\ born[kind[d]] = OldRows
               /\ Len(answers[d]) = 0 /\ Len(list[d]) = 0
    BY DEF Load, Ask
  <2>4. ASSUME NEW d \in Desks PROVE KnownTo(d)
    BY <2>3, TablesAssumption DEF KnownTo, Known, Changes
  <2> QED
    BY <2>1, <2>2, <2>3, <2>4 DEF CallsType
<1> QED
  BY <1>1, <1>2, <1>3 DEF TableTypes

----------------------------------------------------------------------------
(* What the admin does comes down to three steps. *)

\* The form opens, for a new row or one that is listed, or closes.
FormOpened(d) ==
    \E m \in Nat \cup {-1}, fields \in Row :
        SetModal(d, m, fields) /\ (m \in {-1, 0} \/ \E e \in Rows(d) : m = e.id)

\* A write is sent: a creation, or for the row in the form or one that is listed.
Written(d) ==
    \E op \in Changes, id \in Nat, patch \in Patches :
        /\ Write(d, op, id, patch)
        /\ IF op = "create" THEN id = 0 ELSE id = modal[d] \/ \E e \in Rows(d) : id = e.id
        /\ saving' \in [Desks -> BOOLEAN] /\ deleting' \in [Desks -> Nat]

\* A page is asked for.
Turned(d) == \E p \in Nat \ {0} : AskPage(d, p)

LEMMA RowsAreEntries ==
  ASSUME TableTypes, NEW d \in Desks
  PROVE  /\ \A e \in Rows(d) : e.id \in Nat \ {0} /\ e.row \in Row
         /\ \A e \in Rows(d) : \E k \in 1 .. Len(list[d]) : e = list[d][k]
<1>1. list[d] \in Seq(EntryType)
  BY DEF TableTypes, CallsType
<1>2. \A k \in 1 .. Len(list[d]) : list[d][k] \in EntryType
  BY <1>1, ElementOfSeq
<1> QED
  BY <1>2 DEF Rows, EntryType

LEMMA OpeningOpens ==
  ASSUME TableTypes, NEW d \in Desks, OpenCreate(d) \/ OpenEdit(d) \/ CloseModal(d)
  PROVE  FormOpened(d)
<1>1. CASE OpenCreate(d)
  BY <1>1, FormsAreRows DEF OpenCreate, FormOpened
<1>2. CASE CloseModal(d)
  BY <1>2, FormsAreRows DEF CloseModal, FormOpened
<1>3. CASE OpenEdit(d)
  <2>1. PICK e \in Rows(d) : SetModal(d, e.id, e.row)
    BY <1>3 DEF OpenEdit
  <2> QED
    BY <2>1, RowsAreEntries DEF FormOpened
<1> QED
  BY <1>1, <1>2, <1>3

LEMMA TurningTurns ==
  ASSUME TableTypes, NEW d \in Desks, LoadAgain(d) \/ TurnPage(d)
  PROVE  Turned(d)
<1>1. page[d] \in Nat \ {0}
  BY DEF TableTypes, PageType
<1>2. CASE LoadAgain(d)
  BY <1>1, <1>2 DEF LoadAgain, Turned
<1>3. CASE TurnPage(d)
  <2>1. (page[d] > 1 /\ AskPage(d, page[d] - 1)) \/ AskPage(d, page[d] + 1)
    BY <1>3 DEF TurnPage
  <2> QED
    BY <1>1, <2>1 DEF Turned
<1> QED
  BY <1>2, <1>3

LEMMA SwitchingWrites ==
  ASSUME TableTypes, NEW d \in Desks, NEW field \in Fields, Toggle(d, field)
  PROVE  Written(d)
<1>1. PICK e \in Rows(d) : Write(d, "switch", e.id, [f \in {field} |-> ~e.row[f]])
  BY DEF Toggle
<1>2. saving' \in [Desks -> BOOLEAN] /\ deleting' \in [Desks -> Nat]
  BY DEF Toggle, TableTypes, PageType
<1> DEFINE patch == [f \in {field} |-> ~e.row[f]]
<1>3. patch \in Patches
  <2>1. patch = [f \in {field} |-> ~e.row[field]]
    BY Zenon
  <2> QED
    <3>1. \A mark : [f \in {field} |-> ~mark] \in Patches
      BY FormsAreRows, Zenon
    <3> QED
      BY <2>1, <3>1, Zenon
<1>4. Write(d, "switch", e.id, patch)
  BY <1>1
<1> HIDE DEF patch
<1> QED
  BY <1>2, <1>3, <1>4, RowsAreEntries DEF Written, Changes

LEMMA SubmittingWrites ==
  ASSUME TableTypes, NEW d \in Desks, HandleSubmit(d)
  PROVE  Written(d)
<1>1. PICK fields \in FilledIn(d) :
          IF modal[d] = 0 THEN Write(d, "create", 0, fields)
                          ELSE Write(d, "save", modal[d], fields)
  BY DEF HandleSubmit
<1>2. fields \in Patches
  <2>1. form[d] \in Row
    BY DEF TableTypes, PageType
  <2>2. [form[d] EXCEPT !["other"] = ~form[d]["other"]] \in Row
    BY <2>1, FormsAreRows, Zenon
  <2>3. fields = form[d] \/ fields = [form[d] EXCEPT !["other"] = ~form[d]["other"]]
    BY Zenon DEF FilledIn
  <2>4. fields \in Row
    BY <2>1, <2>2, <2>3, Zenon
  <2> QED
    BY <2>4, FormsAreRows, Zenon
<1>3. saving' \in [Desks -> BOOLEAN] /\ deleting' \in [Desks -> Nat]
  BY DEF HandleSubmit, TableTypes, PageType
<1>4. modal[d] # -1 /\ modal[d] \in Nat \cup {-1}
  BY DEF HandleSubmit, TableTypes, PageType
<1>5. CASE modal[d] = 0
  BY <1>1, <1>2, <1>3, <1>5 DEF Written, Changes
<1>6. CASE modal[d] # 0
  <2>1. Write(d, "save", modal[d], fields)
    BY <1>1, <1>6
  <2> QED
    BY <1>2, <1>3, <1>4, <2>1 DEF Written, Changes
<1> QED
  BY <1>5, <1>6

LEMMA DeletingWrites ==
  ASSUME TableTypes, NEW d \in Desks, HandleDelete(d)
  PROVE  Written(d)
<1>1. PICK e \in Rows(d) :
          /\ deleting' = [deleting EXCEPT ![d] = e.id]
          /\ Write(d, "delete", e.id, NoPatch)
  BY DEF HandleDelete
<1>2. saving' \in [Desks -> BOOLEAN] /\ deleting' \in [Desks -> Nat]
  BY <1>1, RowsAreEntries DEF HandleDelete, TableTypes, PageType
<1> QED
  BY <1>1, <1>2, FormsAreRows, RowsAreEntries DEF Written, Changes

\* Every step of a desk is one of five.
LEMMA StepsOfADesk ==
  ASSUME TableTypes, TablesNext
  PROVE  \E d \in Desks : ServeDesk(d) \/ ReceiveDesk(d) \/ FormOpened(d) \/ Written(d) \/ Turned(d)
<1>1. PICK d \in Desks :
        \/ ServeDesk(d) \/ ReceiveDesk(d) \/ LoadAgain(d) \/ TurnPage(d)
        \/ OpenCreate(d) \/ OpenEdit(d) \/ CloseModal(d) \/ HandleSubmit(d)
        \/ HandleDelete(d) \/ ToggleActive(d) \/ ToggleFeatured(d) \/ ToggleServiceable(d)
  BY DEF TablesNext
<1>2. ToggleActive(d) \/ ToggleFeatured(d) \/ ToggleServiceable(d) => Written(d)
  BY SwitchingWrites DEF ToggleActive, ToggleFeatured, ToggleServiceable, Fields
<1> QED
  BY <1>1, <1>2, OpeningOpens, TurningTurns, SubmittingWrites, DeletingWrites

----------------------------------------------------------------------------
(* The service of the tables. *)

\* The row id of the desk's table was put or removed, and all else is as it was.
RowChanged(d, r, id) ==
    LET k == kind[d]
    IN  /\ r.op \in Changes
        /\ IF r.op = "create" THEN id = born[k] + 1 /\ born'[k] = id
           ELSE id = r.id /\ id \in DOMAIN rows[k] /\ born'[k] = born[k]
        /\ DOMAIN rows'[k] = IF r.op = "delete" THEN DOMAIN rows[k] \ {id}
                                                ELSE DOMAIN rows[k] \cup {id}
        /\ \A y \in DOMAIN rows'[k] \ {id} : rows'[k][y] = rows[k][y]
        /\ \A y \in DOMAIN rows'[k] : rows'[k][y] \in Row
        /\ \A t \in Tables \ {k} : rows'[t] = rows[t] /\ born'[t] = born[t]
        /\ DOMAIN rows' = Tables /\ born' \in [Tables -> Nat]

LEMMA RowIsChanged ==
  ASSUME TableTypes, NEW d \in Desks, NEW r \in AskType, NEW id,
         id = IF r.op = "create" THEN born[kind[d]] + 1 ELSE r.id,
         \/ r.op = "create" /\ CreateRow(d, id, r.patch)
         \/ r.op \in {"save", "switch"} /\ UpdateRow(d, id, r.patch)
         \/ r.op = "delete" /\ RemoveRow(d, id)
  PROVE  RowChanged(d, r, id)
<1> DEFINE k == kind[d]  T == rows[k]
<1>1. /\ k \in Tables /\ DOMAIN rows = Tables /\ born \in [Tables -> Nat]
      /\ \A y \in DOMAIN T : T[y] \in Row
      /\ r.patch \in Patches
  BY DEF TableTypes, RowsType, PageType, AskType
<1>2. CASE r.op = "create" /\ CreateRow(d, id, r.patch)
  <2> DEFINE new == Patched(FreshRow, r.patch)
             T2 == [x \in DOMAIN T \cup {id} |-> IF x = id THEN new ELSE T[x]]
  <2>1. rows' = [rows EXCEPT ![k] = T2] /\ born' = [born EXCEPT ![k] = id]
    BY <1>2 DEF CreateRow, SetTable, Table
  <2>2. new \in Row
    BY <1>1, RowsAreFields, FormsAreRows
  <2> HIDE DEF new
  <2>3. id = born[k] + 1 /\ id \in Nat
    BY <1>1, <1>2
  <2>4. /\ DOMAIN T2 = DOMAIN T \cup {id}
        /\ \A y \in DOMAIN T2 \ {id} : T2[y] = T[y]
        /\ \A y \in DOMAIN T2 : T2[y] \in Row
    BY <1>1, <2>2
  <2> HIDE DEF T2
  <2>5. rows'[k] = T2 /\ born'[k] = id /\ DOMAIN rows' = Tables /\ born' \in [Tables -> Nat]
        /\ \A t \in Tables \ {k} : rows'[t] = rows[t] /\ born'[t] = born[t]
    BY <1>1, <2>1, <2>3
  <2> HIDE DEF T
  <2> QED
    BY <1>2, <2>3, <2>4, <2>5 DEF RowChanged, Changes, T
<1>3. CASE r.op \in {"save", "switch"} /\ UpdateRow(d, id, r.patch)
  <2> DEFINE new == Patched(T[id], r.patch)
             T2 == [T EXCEPT ![id] = new]
  <2>1. rows' = [rows EXCEPT ![k] = T2] /\ born' = born /\ id \in DOMAIN T
    BY <1>3 DEF UpdateRow, SetTable, Table
  <2>2. new \in Row
    BY <1>1, <2>1, RowsAreFields
  <2> HIDE DEF new
  <2>4. /\ DOMAIN T2 = DOMAIN T \cup {id}
        /\ \A y \in DOMAIN T2 \ {id} : T2[y] = T[y]
        /\ \A y \in DOMAIN T2 : T2[y] \in Row
    BY <1>1, <2>1, <2>2
  <2> HIDE DEF T2
  <2>5. rows'[k] = T2 /\ DOMAIN rows' = Tables
        /\ \A t \in Tables \ {k} : rows'[t] = rows[t]
    BY <1>1, <2>1
  <2> HIDE DEF T
  <2> QED
    BY <1>1, <1>3, <2>1, <2>4, <2>5 DEF RowChanged, Changes, T
<1>4. CASE r.op = "delete" /\ RemoveRow(d, id)
  <2> DEFINE T2 == [x \in DOMAIN T \ {id} |-> T[x]]
  <2>1. rows' = [rows EXCEPT ![k] = T2] /\ born' = born /\ id \in DOMAIN T
    BY <1>4 DEF RemoveRow, SetTable, Table
  <2>4. /\ DOMAIN T2 = DOMAIN T \ {id}
        /\ \A y \in DOMAIN T2 \ {id} : T2[y] = T[y]
        /\ \A y \in DOMAIN T2 : T2[y] \in Row
    BY <1>1
  <2> HIDE DEF T2
  <2>5. rows'[k] = T2 /\ DOMAIN rows' = Tables
        /\ \A t \in Tables \ {k} : rows'[t] = rows[t]
    BY <1>1, <2>1
  <2> HIDE DEF T
  <2> QED
    BY <1>1, <1>4, <2>1, <2>4, <2>5 DEF RowChanged, Changes, T
<1> QED
  BY <1>2, <1>3, <1>4

\* The rows keep their type, and no row becomes unknown.
LEMMA ChangedRowsType ==
  ASSUME TableTypes, NEW d \in Desks, NEW r, NEW id, RowChanged(d, r, id)
  PROVE  /\ RowsType' /\ id \in 1 .. born'[kind[d]]
         /\ \A t \in Tables : born[t] <= born'[t]
<1> DEFINE k == kind[d]
<1>1. /\ k \in Tables /\ born \in [Tables -> Nat]
      /\ \A t \in Tables : DOMAIN rows[t] \subseteq 1 .. born[t]
                           /\ \A x \in DOMAIN rows[t] : rows[t][x] \in Row
  BY DEF TableTypes, RowsType, PageType
<1>2. id \in 1 .. born'[k] /\ born[k] <= born'[k]
  BY <1>1 DEF RowChanged
<1>3. DOMAIN rows'[k] \subseteq 1 .. born'[k]
  <2>1. DOMAIN rows'[k] \subseteq DOMAIN rows[k] \cup {id}
    BY DEF RowChanged
  <2>2. born[k] \in Nat /\ born'[k] \in Nat
    BY <1>1 DEF RowChanged
  <2> QED
    BY <1>1, <1>2, <2>1, <2>2
<1>4. \A t \in Tables : born[t] <= born'[t]
  BY <1>1, <1>2 DEF RowChanged
<1>5. RowsType'
  BY <1>1, <1>3 DEF RowsType, RowChanged
<1> QED
  BY <1>2, <1>4, <1>5

\* Entries of a table, each row once.
ListsRows(entries, T) ==
    /\ \A i, j \in 1 .. Len(entries) : entries[i].id = entries[j].id => i = j
    /\ \A i \in 1 .. Len(entries) :
          entries[i].id \in DOMAIN T /\ T[entries[i].id] = entries[i].row

LEMMA TableIsFinite ==
  ASSUME TableTypes, NEW d \in Desks
  PROVE  /\ DOMAIN Table(d) \in SUBSET Int /\ IsFiniteSet(DOMAIN Table(d))
         /\ DOMAIN Table(d) \subseteq 1 .. born[kind[d]] /\ born[kind[d]] \in Nat
         /\ \A x \in DOMAIN Table(d) : Table(d)[x] \in Row
         /\ Cardinality(DOMAIN Table(d)) \in Nat
<1> DEFINE D == DOMAIN Table(d)  b == born[kind[d]]
<1>1. D \in SUBSET (1 .. b) /\ b \in Nat /\ \A x \in D : Table(d)[x] \in Row
  BY DEF TableTypes, RowsType, PageType, Table
<1> HIDE DEF D, b
<1>2. IsFiniteSet(1 .. b)
  BY <1>1, FS_Interval
<1>3. IsFiniteSet(D)
  BY <1>1, <1>2, FS_Subset, Zenon
<1>4. Cardinality(D) \in Nat
  BY <1>3, FS_CardinalityType
<1> QED
  BY <1>1, <1>3, <1>4 DEF D, b

\* A part of the table's row numbers, each once.
Numbers(s, D) ==
    /\ s \in Seq(D)
    /\ \A i, j \in 1 .. Len(s) : s[i] = s[j] => i = j

LEMMA AscendingNumbers ==
  ASSUME NEW D \in SUBSET Int, IsFiniteSet(D), NEW S \in SUBSET D
  PROVE  Numbers(Ascending(S), D)
<1> DEFINE n == Cardinality(S)  a == Ascending(S)
<1>1. S \in SUBSET Int /\ IsFiniteSet(S)
  BY FS_Subset, Zenon
<1>2. /\ n \in Nat /\ a \in [1 .. n -> S]
      /\ \A i, j \in 1 .. n : i < j => a[i] < a[j]
  BY <1>1, AscendingLists
<1> HIDE DEF n, a
<1>3. a \in Seq(D) /\ Len(a) = n
  <2>1. a \in [1 .. n -> D]
    BY <1>2
  <2> QED
    BY <1>2, <2>1
<1>4. \A i \in 1 .. n : a[i] \in Int
  BY <1>1, <1>2
<1>5. \A i, j \in 1 .. n : a[i] = a[j] => i = j
  BY <1>2, <1>4
<1> QED
  BY <1>3, <1>5 DEF Numbers, a

LEMMA ReversedNumbers ==
  ASSUME NEW D, NEW s, Numbers(s, D)
  PROVE  Numbers(Reverse(s), D)
<1> DEFINE r == Reverse(s)
<1>1. s \in Seq(D) /\ \A i, j \in 1 .. Len(s) : s[i] = s[j] => i = j
  BY DEF Numbers
<1>2. r \in Seq(D) /\ Len(r) = Len(s) /\ \A i \in 1 .. Len(s) : r[i] = s[Len(s) - i + 1]
  BY <1>1, ReversedList
<1> HIDE DEF r
<1>3. ASSUME NEW i \in 1 .. Len(s), NEW j \in 1 .. Len(s), r[i] = r[j] PROVE i = j
  <2>1. Len(s) \in Nat
    BY <1>1
  <2>2. Len(s) - i + 1 \in 1 .. Len(s) /\ Len(s) - j + 1 \in 1 .. Len(s)
    BY <2>1
  <2>3. Len(s) - i + 1 = Len(s) - j + 1
    BY <1>1, <1>2, <1>3, <2>2
  <2> QED
    BY <2>1, <2>3
<1> QED
  BY <1>2, <1>3 DEF Numbers, r

LEMMA PartOfNumbers ==
  ASSUME NEW D, NEW s, Numbers(s, D), NEW m \in Nat \ {0}, NEW n \in Nat, n <= Len(s)
  PROVE  Numbers(SubSeq(s, m, n), D)
<1> DEFINE r == SubSeq(s, m, n)
<1>1. s \in Seq(D) /\ Len(s) \in Nat /\ \A i, j \in 1 .. Len(s) : s[i] = s[j] => i = j
  BY DEF Numbers
<1>2. CASE n < m
  <2>1. r = <<>>
    BY <1>1, <1>2, SubSeqProperties
  <2>2. r \in Seq(D) /\ Len(r) = 0
    BY <2>1, EmptySeq
  <2> QED
    BY <2>2 DEF Numbers
<1>3. CASE m <= n
  <2>1. r \in Seq(D) /\ Len(r) = n - m + 1 /\ \A i \in 1 .. n - m + 1 : r[i] = s[m + i - 1]
    <3>1. m \in 1 .. Len(s) + 1 /\ n \in m - 1 .. Len(s)
      BY <1>1, <1>3
    <3> QED
      BY <1>1, <3>1, SubSeqProperties
  <2> HIDE DEF r
  <2>2. ASSUME NEW i \in 1 .. n - m + 1, NEW j \in 1 .. n - m + 1, r[i] = r[j] PROVE i = j
    <3>1. m + i - 1 \in 1 .. Len(s) /\ m + j - 1 \in 1 .. Len(s)
      BY <1>1
    <3>2. m + i - 1 = m + j - 1
      BY <1>1, <2>1, <2>2, <3>1
    <3> QED
      BY <3>2
  <2> QED
    BY <2>1, <2>2 DEF Numbers, r
<1> QED
  BY <1>2, <1>3

\* The answer to a load lists rows of the table.
LEMMA ListedRows ==
  ASSUME TableTypes, NEW d \in Desks, NEW p \in Nat \ {0}
  PROVE  Listed(d, p) \in Seq(EntryType) /\ ListsRows(Listed(d, p), Table(d))
<1> DEFINE T == Table(d)  D == DOMAIN T
           order == IF kind[d] = "products" THEN ActiveProducts ELSE ZonesOfPage(p)
           L == Listed(d, p)
<1>1. /\ D \in SUBSET Int /\ IsFiniteSet(D) /\ D \subseteq Nat \ {0}
      /\ \A x \in D : T[x] \in Row
  BY TableIsFinite
<1>2. Numbers(order, D)
  <2>1. CASE kind[d] = "products"
    <3> DEFINE active == {id \in DOMAIN rows["products"] : rows["products"][id]["on"]}
    <3>1. active \in SUBSET D
      BY <2>1, Zenon DEF Table
    <3>2. ActiveProducts = Reverse(Ascending(active))
      BY DEF ActiveProducts
    <3> HIDE DEF active, D
    <3>3. Numbers(ActiveProducts, D)
      BY <1>1, <3>1, <3>2, AscendingNumbers, ReversedNumbers
    <3> QED
      BY <2>1, <3>3
  <2>2. CASE kind[d] # "products"
    <3> DEFINE all == Ascending(D)
               last == p * ZonesPerPage
               end == IF last < Len(all) THEN last ELSE Len(all)
    <3>1. kind[d] = "zones"
      BY <2>2 DEF TableTypes, PageType, Tables
    <3>2. ZonesOfPage(p) = SubSeq(all, last - ZonesPerPage + 1, end)
      BY <3>1 DEF ZonesOfPage, Table
    <3> HIDE DEF D
    <3>3. Numbers(all, D)
      BY <1>1, AscendingNumbers
    <3>4. Len(all) \in Nat
      BY <3>3 DEF Numbers
    <3>5. ZonesPerPage \in Nat \ {0} /\ p \in Nat \ {0}
      BY TablesAssumption
    <3> HIDE DEF all
    <3>6. last \in Nat /\ last - ZonesPerPage + 1 \in Nat \ {0}
      <4>1. last \in Nat /\ p - 1 \in Nat
        BY <3>5
      <4>2. last = (p - 1) * ZonesPerPage + ZonesPerPage /\ (p - 1) * ZonesPerPage \in Nat
        BY <3>5, <4>1
      <4> QED
        BY <3>5, <4>1, <4>2
    <3>7. end \in Nat /\ end <= Len(all)
      BY <3>4, <3>6
    <3> HIDE DEF last, end
    <3>8. Numbers(ZonesOfPage(p), D)
      BY <3>2, <3>3, <3>6, <3>7, PartOfNumbers
    <3> QED
      BY <2>2, <3>8
  <2> QED
    BY <2>1, <2>2
<1>3. L = [i \in 1 .. Len(order) |-> Entry(order[i], T[order[i]])]
  BY DEF Listed
<1> HIDE DEF T, D, order, L
<1>4. order \in Seq(D) /\ Len(order) \in Nat /\ \A i \in 1 .. Len(order) : order[i] \in D
  BY <1>2 DEF Numbers
<1>5. \A i \in 1 .. Len(order) : Entry(order[i], T[order[i]]) \in EntryType
  BY <1>1, <1>4 DEF D, Entry, EntryType
<1>6. L \in Seq(EntryType) /\ Len(L) = Len(order)
  BY <1>3, <1>4, <1>5
<1>7. \A i \in 1 .. Len(order) : L[i].id = order[i] /\ L[i].row = T[order[i]]
  BY <1>3 DEF Entry
<1> QED
  BY <1>2, <1>4, <1>6, <1>7 DEF ListsRows, Numbers, T, D, L

\* An answer that tells what became of a row: it was put, or it is gone.
Telling(a) == a.ok = TRUE /\ a.r.op \in Changes /\ (a.r.op = "delete" \/ a.got # <<>>)

\* An answer that goes with no change: a list, an error, or a row that has vanished.
QuietAnswer(d, r, a) ==
    /\ UNCHANGED <<rows, born, blurred>> /\ ~Telling(a)
    /\ r.op = "create" => a.ok = FALSE
    /\ r.op \in Changes => a.got = <<>>
    /\ r.op = "load" => a.got = <<>> \/ (r.id # 0 /\ a.got = Listed(d, r.id))
    /\ r.op = "load" /\ a.ok = TRUE =>
          ListsRows(a.got, Table(d)) /\ a.total = Cardinality(DOMAIN Table(d))

\* The answer to a change, and the one that was lost.
ChangeAnswer(d, r, a) ==
    \E id : /\ RowChanged(d, r, id)
            /\ \/ /\ a.ok = TRUE /\ blurred' = blurred
                  /\ a.got = IF r.op = "delete" THEN <<>> ELSE <<Entry(id, rows'[kind[d]][id])>>
               \/ /\ a.ok = FALSE /\ a.got = <<>> /\ blurred' = [blurred EXCEPT ![d] = TRUE]

\* The request r has the answer a.
Replied(d, r, a, got, n) ==
    /\ a.r = r /\ a.got = got /\ a.total = n
    /\ sent' = [sent EXCEPT ![d] = @ \ {r}]
    /\ answers' = [answers EXCEPT ![d] = Append(@, a)]

\* The service answers r with a and leaves the pages alone.
Answering(d, r, a) ==
    /\ a.r = r
    /\ sent' = [sent EXCEPT ![d] = @ \ {r}]
    /\ answers' = [answers EXCEPT ![d] = Append(@, a)]
    /\ UNCHANGED <<kind, list, page, total, view, tables_form, clicks>>
    /\ QuietAnswer(d, r, a) \/ ChangeAnswer(d, r, a)

LEMMA AnswersTo ==
  ASSUME TableTypes, NEW d \in Desks, NEW r \in AskType,
         NEW got \in Seq(EntryType), NEW n \in Nat
  PROVE  /\ Reply(d, r, TRUE, got, n) =>
               \E a \in AnswerType : a.ok = TRUE /\ Replied(d, r, a, got, n)
         /\ Reply(d, r, FALSE, got, n) =>
               \E a \in AnswerType : a.ok = FALSE /\ Replied(d, r, a, got, n)
<1>1. ASSUME Reply(d, r, TRUE, got, n)
      PROVE  \E a \in AnswerType : a.ok = TRUE /\ Replied(d, r, a, got, n)
  <2> DEFINE a == [r |-> r, ok |-> TRUE, got |-> got, total |-> n]
  <2>1. a \in AnswerType /\ a.r = r /\ a.ok = TRUE /\ a.got = got /\ a.total = n
    BY DEF AnswerType
  <2>2. /\ sent' = [sent EXCEPT ![d] = @ \ {r}]
        /\ answers' = [answers EXCEPT ![d] = Append(@, a)]
    BY <1>1, Zenon DEF Reply
  <2> HIDE DEF a
  <2> QED
    BY <2>1, <2>2 DEF Replied
<1>2. ASSUME Reply(d, r, FALSE, got, n)
      PROVE  \E a \in AnswerType : a.ok = FALSE /\ Replied(d, r, a, got, n)
  <2> DEFINE a == [r |-> r, ok |-> FALSE, got |-> got, total |-> n]
  <2>1. a \in AnswerType /\ a.r = r /\ a.ok = FALSE /\ a.got = got /\ a.total = n
    BY DEF AnswerType
  <2>2. /\ sent' = [sent EXCEPT ![d] = @ \ {r}]
        /\ answers' = [answers EXCEPT ![d] = Append(@, a)]
    BY <1>2, Zenon DEF Reply
  <2> HIDE DEF a
  <2> QED
    BY <2>1, <2>2 DEF Replied
<1> QED
  BY <1>1, <1>2, Zenon

LEMMA QuietIsAnswered ==
  ASSUME TableTypes, NEW d \in Desks, NEW r \in sent[d],
         UNCHANGED <<kind, list, page, total, view, tables_form, clicks>>,
         ServeList(d, r) \/ ServeError(d, r) \/ ServeVanished(d, r)
  PROVE  \E a \in AnswerType : Answering(d, r, a)
<1>1. r \in AskType /\ (r.op = "load" => r.id # 0)
  BY DEF TableTypes, CallsType
<1>3. CASE ServeList(d, r)
  <2> DEFINE got == Listed(d, r.id)  n == Cardinality(DOMAIN Table(d))
  <2>1. r.op = "load" /\ Reply(d, r, TRUE, got, n) /\ UNCHANGED <<rows, born, blurred>>
    BY <1>3 DEF ServeList
  <2>2. r.id \in Nat \ {0}
    BY <1>1, <2>1 DEF AskType
  <2>3. got \in Seq(EntryType) /\ ListsRows(got, Table(d)) /\ n \in Nat
    BY <2>2, ListedRows, TableIsFinite
  <2> HIDE DEF got, n
  <2>4. PICK a \in AnswerType : a.ok = TRUE /\ Replied(d, r, a, got, n)
    BY <1>1, <2>1, <2>3, AnswersTo, Zenon
  <2>5. r.op \notin Changes
    BY <2>1 DEF Changes
  <2>6. QuietAnswer(d, r, a)
    BY <2>1, <2>2, <2>3, <2>4, <2>5 DEF QuietAnswer, Telling, Replied, got, n
  <2> QED
    BY <2>4, <2>6 DEF Answering, Replied
<1>4. CASE ServeError(d, r)
  <2>1. <<>> \in Seq(EntryType)
    BY EmptySeq
  <2>2. Reply(d, r, FALSE, <<>>, 0) /\ UNCHANGED <<rows, born, blurred>>
    BY <1>4 DEF ServeError
  <2>4. PICK a \in AnswerType : a.ok = FALSE /\ Replied(d, r, a, <<>>, 0)
    BY <1>1, <2>1, <2>2, AnswersTo, Zenon
  <2>6. QuietAnswer(d, r, a)
    BY <2>2, <2>4 DEF QuietAnswer, Telling, Replied
  <2> QED
    BY <2>4, <2>6 DEF Answering, Replied
<1>5. CASE ServeVanished(d, r)
  <2>1. <<>> \in Seq(EntryType)
    BY EmptySeq
  <2>2. /\ Reply(d, r, TRUE, <<>>, 0) /\ UNCHANGED <<rows, born, blurred>>
        /\ r.op \in {"save", "switch"}
    BY <1>5 DEF ServeVanished
  <2>4. PICK a \in AnswerType : a.ok = TRUE /\ Replied(d, r, a, <<>>, 0)
    BY <1>1, <2>1, <2>2, AnswersTo, Zenon
  <2>6. QuietAnswer(d, r, a)
    BY <2>2, <2>4 DEF QuietAnswer, Telling, Replied
  <2> QED
    BY <2>4, <2>6 DEF Answering, Replied
<1> QED
  BY <1>3, <1>4, <1>5

LEMMA ChangeIsAnswered ==
  ASSUME TableTypes, NEW d \in Desks, NEW r \in sent[d],
         UNCHANGED <<kind, list, page, total, view, tables_form, clicks>>,
         ServeChange(d, r)
  PROVE  \E a \in AnswerType : Answering(d, r, a)
<1>1. r \in AskType
  BY DEF TableTypes, CallsType
<1> DEFINE k == kind[d]
           id == IF r.op = "create" THEN born[k] + 1 ELSE r.id
           after == rows'[k]
           got == IF id \in DOMAIN after THEN <<Entry(id, after[id])>> ELSE <<>>
<1>2. \/ r.op = "create" /\ CreateRow(d, id, r.patch)
      \/ r.op \in {"save", "switch"} /\ UpdateRow(d, id, r.patch)
      \/ r.op = "delete" /\ RemoveRow(d, id)
  BY DEF ServeChange
<1>3. RowChanged(d, r, id)
  <2> HIDE DEF id
  <2> QED
    BY <1>1, <1>2, RowIsChanged DEF id
<1>4. \/ Reply(d, r, TRUE, got, 0) /\ UNCHANGED blurred
      \/ Reply(d, r, FALSE, <<>>, 0) /\ blurred' = [blurred EXCEPT ![d] = TRUE]
  BY DEF ServeChange
<1> HIDE DEF id
<1>5. got = IF r.op = "delete" THEN <<>> ELSE <<Entry(id, rows'[k][id])>>
  BY <1>3 DEF RowChanged
<1>6. got \in Seq(EntryType) /\ <<>> \in Seq(EntryType)
  <2>1. id \in 1 .. born'[k] /\ (id \in DOMAIN after => after[id] \in Row)
    BY <1>3, ChangedRowsType DEF RowChanged
  <2>2. id \in Nat \ {0}
    <3>1. born'[k] \in Nat
      BY <1>3 DEF RowChanged, TableTypes, PageType
    <3> QED
      BY <2>1, <3>1
  <2>3. id \in DOMAIN after => Entry(id, after[id]) \in EntryType
    BY <2>1, <2>2 DEF Entry, EntryType
  <2> HIDE DEF after
  <2>4. CASE id \in DOMAIN after
    BY <2>3, <2>4
  <2>5. CASE id \notin DOMAIN after
    BY <2>5, EmptySeq
  <2> QED
    BY <2>4, <2>5, EmptySeq
<1> HIDE DEF got
<1>8. CASE Reply(d, r, TRUE, got, 0) /\ UNCHANGED blurred
  <2>1. PICK a \in AnswerType : a.ok = TRUE /\ Replied(d, r, a, got, 0)
    BY <1>1, <1>6, <1>8, AnswersTo, Zenon
  <2>2. ChangeAnswer(d, r, a)
    BY <1>3, <1>5, <1>8, <2>1 DEF ChangeAnswer, Replied
  <2> QED
    BY <2>1, <2>2 DEF Answering, Replied
<1>9. CASE Reply(d, r, FALSE, <<>>, 0) /\ blurred' = [blurred EXCEPT ![d] = TRUE]
  <2>1. PICK a \in AnswerType : a.ok = FALSE /\ Replied(d, r, a, <<>>, 0)
    BY <1>1, <1>6, <1>9, AnswersTo, Zenon
  <2>2. ChangeAnswer(d, r, a)
    BY <1>3, <1>9, <2>1 DEF ChangeAnswer, Replied
  <2> QED
    BY <2>1, <2>2 DEF Answering, Replied
<1> QED
  BY <1>4, <1>8, <1>9

LEMMA ServingAnswers ==
  ASSUME TableTypes, NEW d \in Desks, ServeDesk(d)
  PROVE  \E r \in sent[d], a \in AnswerType : Answering(d, r, a)
<1>1. PICK r \in sent[d] :
          ServeList(d, r) \/ ServeChange(d, r) \/ ServeError(d, r) \/ ServeVanished(d, r)
  BY DEF ServeDesk
<1>2. UNCHANGED <<kind, list, page, total, view, tables_form, clicks>>
  BY DEF ServeDesk
<1> QED
  BY <1>1, <1>2, QuietIsAnswered, ChangeIsAnswered

\* What is known stays known when rows are created.
LEMMA KnownGrows ==
  ASSUME NEW asks \in SUBSET AskType, NEW A \in Seq(AnswerType),
         NEW entries \in Seq(EntryType), NEW m \in Nat \cup {-1}, NEW b \in Nat, NEW c \in Nat,
         b <= c, Known(asks, A, entries, m, b)
  PROVE  Known(asks, A, entries, m, c)
<1>1. m <= c
  BY DEF Known
<1>2. ASSUME NEW k \in 1 .. Len(entries) PROVE entries[k].id <= c
  <2>0. entries[k] \in EntryType
    BY ElementOfSeq
  <2>1. entries[k].id \in Nat
    BY <2>0 DEF EntryType
  <2> QED
    BY <2>1 DEF Known
<1>3. ASSUME NEW r \in asks, r.op \in Changes PROVE r.id <= c
  <2>1. r.id \in Nat
    BY DEF AskType
  <2> QED
    BY <1>3, <2>1 DEF Known
<1>4. ASSUME NEW i \in 1 .. Len(A)
      PROVE  /\ A[i].r.op \in Changes => A[i].r.id <= c
             /\ \A k \in 1 .. Len(A[i].got) : A[i].got[k].id <= c
  <2>1. A[i] \in AnswerType
    OBVIOUS
  <2>2. A[i].r.id \in Nat /\ A[i].got \in Seq(EntryType)
    BY <2>1 DEF AnswerType, AskType
  <2>3. ASSUME NEW k \in 1 .. Len(A[i].got) PROVE A[i].got[k].id <= c
    <3>0. A[i].got[k] \in EntryType
      BY <2>2, ElementOfSeq
    <3>1. A[i].got[k].id \in Nat
      BY <3>0 DEF EntryType
    <3> QED
      BY <3>1 DEF Known
  <2> QED
    BY <2>2, <2>3 DEF Known
<1> QED
  BY <1>1, <1>2, <1>3, <1>4 DEF Known

\* What an answer brings, and that it makes no row unknown.
LEMMA AnswerIsKnown ==
  ASSUME TableTypes, NEW d \in Desks, NEW r \in sent[d], NEW a \in AnswerType, Answering(d, r, a)
  PROVE  /\ RowsType' /\ (\A t \in Tables : born[t] <= born'[t])
         /\ BringsItsRow(a) /\ (\A k \in 1 .. Len(a.got) : a.got[k].id <= born'[kind[d]])
         /\ blurred' \in [Desks -> BOOLEAN]
<1>1. /\ a.r = r /\ r \in AskType /\ kind[d] \in Tables /\ born \in [Tables -> Nat]
      /\ blurred \in [Desks -> BOOLEAN]
  BY DEF TableTypes, CallsType, RowsType, PageType, Answering
<1>2. CASE QuietAnswer(d, r, a)
  <2>1. RowsType' /\ (\A t \in Tables : born[t] <= born'[t]) /\ blurred' \in [Desks -> BOOLEAN]
    BY <1>1, <1>2 DEF QuietAnswer, TableTypes, RowsType
  <2>2. BringsItsRow(a)
    BY <1>1, <1>2 DEF QuietAnswer, BringsItsRow, Changes
  <2>3. CASE a.got = <<>>
    BY <2>1, <2>2, <2>3
  <2>4. CASE a.got # <<>>
    <3>1. r.op = "load" /\ r.id \in Nat \ {0} /\ a.got = Listed(d, r.id)
      BY <1>1, <1>2, <2>4 DEF QuietAnswer, AskType
    <3>2. ListsRows(a.got, Table(d))
      BY <3>1, ListedRows
    <3>3. ASSUME NEW k \in 1 .. Len(a.got) PROVE a.got[k].id <= born'[kind[d]]
      <4>1. a.got[k].id \in DOMAIN Table(d)
        BY <3>2 DEF ListsRows
      <4>2. a.got[k].id \in 1 .. born[kind[d]]
        BY <4>1, TableIsFinite
      <4> QED
        BY <1>1, <1>2, <4>2 DEF QuietAnswer
    <3> QED
      BY <2>1, <2>2, <3>3
  <2> QED
    BY <2>3, <2>4
<1>3. CASE ChangeAnswer(d, r, a)
  <2>1. PICK id :
          /\ RowChanged(d, r, id)
          /\ \/ /\ a.ok = TRUE /\ blurred' = blurred
                /\ a.got = IF r.op = "delete" THEN <<>> ELSE <<Entry(id, rows'[kind[d]][id])>>
             \/ /\ a.ok = FALSE /\ a.got = <<>> /\ blurred' = [blurred EXCEPT ![d] = TRUE]
    BY <1>3 DEF ChangeAnswer
  <2>2. /\ RowsType' /\ id \in 1 .. born'[kind[d]]
        /\ \A t \in Tables : born[t] <= born'[t]
    BY <2>1, ChangedRowsType
  <2>3. blurred' \in [Desks -> BOOLEAN]
    BY <1>1, <2>1
  <2>4. CASE a.got = <<>>
    <3>1. r.op = "create" => a.ok = FALSE
      BY <2>1, <2>4
    <3>2. BringsItsRow(a)
      BY <1>1, <2>4, <3>1 DEF BringsItsRow
    <3> QED
      BY <2>2, <2>3, <2>4, <3>2
  <2>5. CASE a.got # <<>>
    <3>1. a.got = <<Entry(id, rows'[kind[d]][id])>>
      BY <2>1, <2>5
    <3>2. Len(a.got) = 1 /\ a.got[1].id = id
      BY <3>1 DEF Entry
    <3>3. r.op # "create" => id = r.id
      BY <2>1 DEF RowChanged
    <3>4. BringsItsRow(a)
      BY <1>1, <2>5, <3>2, <3>3 DEF BringsItsRow, About
    <3> QED
      BY <2>2, <2>3, <3>2, <3>4
  <2> QED
    BY <2>4, <2>5
<1> QED
  BY <1>2, <1>3 DEF Answering

LEMMA ServiceKeepsTypes ==
  ASSUME TableTypes, NEW d \in Desks, ServeDesk(d)
  PROVE  TableTypes'
<1>1. PICK r \in sent[d], a \in AnswerType : Answering(d, r, a)
  BY ServingAnswers
<1>2. /\ RowsType' /\ (\A t \in Tables : born[t] <= born'[t])
      /\ BringsItsRow(a) /\ (\A k \in 1 .. Len(a.got) : a.got[k].id <= born'[kind[d]])
      /\ blurred' \in [Desks -> BOOLEAN]
  BY <1>1, AnswerIsKnown
<1>3. /\ a.r = r /\ sent' = [sent EXCEPT ![d] = @ \ {r}]
      /\ answers' = [answers EXCEPT ![d] = Append(@, a)]
      /\ UNCHANGED <<kind, list, page, total, view, modal, form, saving, deleting, clicks>>
  BY <1>1 DEF Answering, tables_form
<1>4. PageType'
  BY <1>2, <1>3 DEF TableTypes, PageType
<1>5. /\ list \in [Desks -> Seq(EntryType)]
      /\ sent \in [Desks -> SUBSET AskType] /\ answers \in [Desks -> Seq(AnswerType)]
      /\ \A e \in Desks :
            /\ \A i \in 1 .. Len(answers[e]) : BringsItsRow(answers[e][i])
            /\ clicks[e] = 1 => \A q \in sent[e] : q.op = "load"
            /\ \A q \in sent[e] : q.op = "load" => q.id # 0
            /\ KnownTo(e)
      /\ kind \in [Desks -> Tables] /\ born \in [Tables -> Nat] /\ modal \in [Desks -> Nat \cup {-1}]
  BY DEF TableTypes, CallsType, PageType, RowsType
<1>6. born' \in [Tables -> Nat]
  BY <1>2 DEF RowsType
<1>7. ASSUME NEW e \in Desks, e # d
      PROVE  /\ \A i \in 1 .. Len(answers'[e]) : BringsItsRow(answers'[e][i])
             /\ clicks'[e] = 1 => \A q \in sent'[e] : q.op = "load"
             /\ \A q \in sent'[e] : q.op = "load" => q.id # 0
             /\ KnownTo(e)'
  <2>1. sent'[e] = sent[e] /\ answers'[e] = answers[e] /\ kind' = kind /\ modal' = modal /\ list' = list
        /\ clicks' = clicks
    BY <1>3, <1>5, <1>7
  <2>2. Known(sent[e], answers[e], list[e], modal[e], born[kind[e]])
    BY <1>5 DEF KnownTo
  <2>3. born[kind[e]] \in Nat /\ born'[kind[e]] \in Nat /\ born[kind[e]] <= born'[kind[e]]
    BY <1>2, <1>5, <1>6
  <2>4. sent[e] \in SUBSET AskType /\ answers[e] \in Seq(AnswerType) /\ list[e] \in Seq(EntryType)
        /\ modal[e] \in Nat \cup {-1}
    BY <1>5
  <2>5. Known(sent[e], answers[e], list[e], modal[e], born'[kind[e]])
    BY <2>2, <2>3, <2>4, KnownGrows
  <2>6. KnownTo(e)'
    BY <2>1, <2>5 DEF KnownTo
  <2> QED
    BY <1>5, <2>1, <2>6
<1>8. /\ \A i \in 1 .. Len(answers'[d]) : BringsItsRow(answers'[d][i])
      /\ clicks'[d] = 1 => \A q \in sent'[d] : q.op = "load"
      /\ \A q \in sent'[d] : q.op = "load" => q.id # 0
      /\ KnownTo(d)'
  <2> DEFINE A == answers[d]  n == Len(A)  b == born'[kind[d]]
  <2>1. /\ sent'[d] = sent[d] \ {r} /\ answers'[d] = Append(A, a) /\ A \in Seq(AnswerType)
        /\ kind' = kind /\ modal' = modal /\ list' = list /\ clicks' = clicks
    BY <1>3, <1>5
  <2>2. /\ Len(answers'[d]) = n + 1 /\ n \in Nat /\ answers'[d][n + 1] = a
        /\ \A i \in 1 .. n : answers'[d][i] = A[i]
    BY <2>1, AppendProperties
  <2>3. Known(sent[d], A, list[d], modal[d], born[kind[d]])
    BY <1>5 DEF KnownTo
  <2>4. born[kind[d]] \in Nat /\ b \in Nat /\ born[kind[d]] <= b
    BY <1>2, <1>5, <1>6
  <2>5. sent[d] \in SUBSET AskType /\ A \in Seq(AnswerType) /\ list[d] \in Seq(EntryType)
        /\ modal[d] \in Nat \cup {-1}
    BY <1>5
  <2>6. Known(sent[d], A, list[d], modal[d], b)
    <3> HIDE DEF A, b
    <3> QED
      BY <2>3, <2>4, <2>5, KnownGrows
  <2>7. a.r.op \in Changes => a.r.id <= b
    BY <1>3, <2>6 DEF Known
  <2>8. KnownTo(d)'
    <3> HIDE DEF A, b
    <3>1. ASSUME NEW i \in 1 .. n + 1
          PROVE  /\ answers'[d][i].r.op \in Changes => answers'[d][i].r.id <= b
                 /\ \A k \in 1 .. Len(answers'[d][i].got) : answers'[d][i].got[k].id <= b
      <4>1. CASE i = n + 1
        BY <1>2, <2>2, <2>7, <4>1 DEF b
      <4>2. CASE i # n + 1
        <5>1. i \in 1 .. n
          BY <2>2, <4>2
        <5> QED
          BY <2>2, <2>6, <5>1 DEF Known
      <4> QED
        BY <4>1, <4>2
    <3> QED
      BY <2>1, <2>2, <2>6, <3>1 DEF Known, KnownTo, b
  <2>9. \A i \in 1 .. n + 1 : BringsItsRow(answers'[d][i])
    <3>1. \A i \in 1 .. n : BringsItsRow(A[i])
      BY <1>5
    <3> HIDE DEF A
    <3>2. ASSUME NEW i \in 1 .. n + 1 PROVE BringsItsRow(answers'[d][i])
      <4>1. CASE i = n + 1
        BY <1>2, <2>2, <4>1
      <4>2. CASE i # n + 1
        <5>1. i \in 1 .. n
          BY <2>2, <4>2
        <5> QED
          BY <2>2, <3>1, <5>1
      <4> QED
        BY <4>1, <4>2
    <3> QED
      BY <3>2
  <2> QED
    BY <1>5, <2>1, <2>2, <2>8, <2>9
<1>9. CallsType'
  <2>1. list' \in [Desks -> Seq(EntryType)] /\ sent' \in [Desks -> SUBSET AskType]
        /\ answers' \in [Desks -> Seq(AnswerType)]
    BY <1>3, <1>5
  <2> QED
    BY <1>7, <1>8, <2>1 DEF CallsType
<1> QED
  BY <1>2, <1>4, <1>9 DEF TableTypes

----------------------------------------------------------------------------
(* The page of a table. *)

\* The list that an answer makes of a list.
NewList(a, entries) ==
    IF a.ok = FALSE THEN entries
    ELSE IF a.r.op = "load" THEN a.got
    ELSE IF a.r.op = "create" THEN a.got \o entries
    ELSE IF a.r.op = "delete" THEN Without(entries, a.r.id)
    ELSE WithRow(entries, a.got)

\* The number that it makes of the number.
NewTotal(a, n) ==
    IF a.ok = FALSE THEN n
    ELSE IF a.r.op = "load" THEN a.total
    ELSE IF a.r.op = "create" THEN n + 1
    ELSE IF a.r.op = "delete" THEN n - 1
    ELSE n

\* The i-th answer of the desk is a, and is worked in.
Receiving(d, i, a) ==
    /\ a = answers[d][i]
    /\ answers' = [answers EXCEPT ![d] = RemoveAt(@, i)]
    /\ list' = [list EXCEPT ![d] = NewList(a, @)]
    /\ total' = [total EXCEPT ![d] = NewTotal(a, @)]
    /\ view' = [view EXCEPT ![d] = IF a.r.op # "load" THEN @
                                   ELSE IF a.ok = TRUE THEN "shown" ELSE "error"]
    /\ modal' = modal \/ modal' = [modal EXCEPT ![d] = -1]
    /\ UNCHANGED <<kind, rows, born, page, sent, clicks, form>>
    /\ saving' \in [Desks -> BOOLEAN] /\ deleting' \in [Desks -> Nat]
    /\ blurred' = [blurred EXCEPT ![d] = @ \/ \E j \in 1 .. i - 1 : answers[d][j].r.id = a.r.id]

LEMMA AnswersAre ==
  ASSUME TableTypes, NEW d \in Desks
  PROVE  /\ answers[d] \in Seq(AnswerType) /\ Len(answers[d]) \in Nat
         /\ \A i \in 1 .. Len(answers[d]) :
               /\ answers[d][i] \in AnswerType /\ answers[d][i].r \in AskType
               /\ answers[d][i].got \in Seq(EntryType)
               /\ answers[d][i].ok = TRUE \/ answers[d][i].ok = FALSE
               /\ BringsItsRow(answers[d][i])
<1>1. answers[d] \in Seq(AnswerType)
      /\ \A i \in 1 .. Len(answers[d]) : BringsItsRow(answers[d][i])
  BY DEF TableTypes, CallsType
<1>2. Len(answers[d]) \in Nat /\ \A i \in 1 .. Len(answers[d]) : answers[d][i] \in AnswerType
  BY <1>1, ElementOfSeq
<1> QED
  BY <1>1, <1>2 DEF AnswerType

LEMMA ReceivingReceives ==
  ASSUME TableTypes, NEW d \in Desks, ReceiveDesk(d)
  PROVE  \E i \in 1 .. Len(answers[d]) : Receiving(d, i, answers[d][i])
<1>1. PICK i \in 1 .. Len(answers[d]) :
         LET a == answers[d][i]
         IN  /\ answers' = [answers EXCEPT ![d] = RemoveAt(@, i)]
             /\ Loaded(d, a) \/ Submitted(d, a) \/ Switched(d, a) \/ Deleted(d, a)
             /\ blurred' = [blurred EXCEPT ![d] =
                               @ \/ \E j \in 1 .. i - 1 : answers[d][j].r.id = a.r.id]
  BY Zenon DEF ReceiveDesk
<1> DEFINE a == answers[d][i]
<1>2. /\ answers' = [answers EXCEPT ![d] = RemoveAt(@, i)]
      /\ Loaded(d, a) \/ Submitted(d, a) \/ Switched(d, a) \/ Deleted(d, a)
      /\ blurred' = [blurred EXCEPT ![d] =
                        @ \/ \E j \in 1 .. i - 1 : answers[d][j].r.id = a.r.id]
  BY <1>1, Zenon
<1>3. UNCHANGED <<kind, rows, born, page, sent, clicks>>
  BY DEF ReceiveDesk
<1>4. a.ok = TRUE \/ a.ok = FALSE
  BY AnswersAre
<1>5. /\ list \in [Desks -> Seq(EntryType)] /\ total \in [Desks -> Int]
      /\ view \in [Desks -> {"loading", "error", "shown"}]
      /\ saving \in [Desks -> BOOLEAN] /\ deleting \in [Desks -> Nat]
      /\ modal \in [Desks -> Nat \cup {-1}]
  BY DEF TableTypes, PageType, CallsType
<1> HIDE DEF a
<1>6. /\ list' = [list EXCEPT ![d] = NewList(a, @)]
      /\ total' = [total EXCEPT ![d] = NewTotal(a, @)]
      /\ view' = [view EXCEPT ![d] = IF a.r.op # "load" THEN @
                                     ELSE IF a.ok = TRUE THEN "shown" ELSE "error"]
      /\ modal' = modal \/ modal' = [modal EXCEPT ![d] = -1]
      /\ saving' \in [Desks -> BOOLEAN] /\ deleting' \in [Desks -> Nat] /\ form' = form
  <2>1. CASE Loaded(d, a)
    <3>1. a.r.op = "load" /\ UNCHANGED <<modal, form, saving, deleting>>
      BY <2>1 DEF Loaded, tables_form
    <3>2. CASE a.ok = TRUE
      BY <1>5, <2>1, <3>1, <3>2 DEF Loaded, NewList, NewTotal
    <3>3. CASE a.ok = FALSE
      BY <1>5, <2>1, <3>1, <3>3 DEF Loaded, NewList, NewTotal
    <3> QED
      BY <1>4, <3>2, <3>3
  <2>2. CASE Submitted(d, a)
    <3>1. a.r.op \in {"create", "save"} /\ UNCHANGED <<view, form, deleting>>
          /\ saving' = [saving EXCEPT ![d] = FALSE]
      BY <2>2 DEF Submitted
    <3>2. CASE a.ok = TRUE
      BY <1>5, <2>2, <3>1, <3>2 DEF Submitted, NewList, NewTotal
    <3>3. CASE a.ok = FALSE
      BY <1>5, <2>2, <3>1, <3>3 DEF Submitted, NewList, NewTotal
    <3> QED
      BY <1>4, <3>2, <3>3
  <2>3. CASE Switched(d, a)
    <3>1. a.r.op = "switch" /\ UNCHANGED <<total, view, modal, form, saving, deleting>>
      BY <2>3 DEF Switched, tables_form
    <3>2. CASE a.ok = TRUE
      BY <1>5, <2>3, <3>1, <3>2 DEF Switched, NewList, NewTotal
    <3>3. CASE a.ok = FALSE
      BY <1>5, <2>3, <3>1, <3>3 DEF Switched, NewList, NewTotal
    <3> QED
      BY <1>4, <3>2, <3>3
  <2>4. CASE Deleted(d, a)
    <3>1. a.r.op = "delete" /\ UNCHANGED <<view, modal, form, saving>>
          /\ deleting' = [deleting EXCEPT ![d] = 0]
      BY <2>4 DEF Deleted
    <3>4. deleting' \in [Desks -> Nat]
      BY <1>5, <3>1
    <3>5. /\ list' = [list EXCEPT ![d] = IF a.ok THEN Without(@, a.r.id) ELSE @]
          /\ total' = [total EXCEPT ![d] = IF a.ok THEN @ - 1 ELSE @]
      BY <2>4 DEF Deleted
    <3>2. CASE a.ok = TRUE
      BY <1>5, <3>1, <3>2, <3>4, <3>5 DEF NewList, NewTotal
    <3>3. CASE a.ok = FALSE
      BY <1>5, <3>1, <3>3, <3>4, <3>5 DEF NewList, NewTotal
    <3> QED
      BY <1>4, <3>2, <3>3
  <2> QED
    BY <1>2, <2>1, <2>2, <2>3, <2>4
<1> QED
  BY <1>2, <1>3, <1>6 DEF Receiving, a

LEMMA WithRowIs ==
  ASSUME NEW entries \in Seq(EntryType), NEW got \in Seq(EntryType)
  PROVE  /\ WithRow(entries, got) \in Seq(EntryType) /\ Len(WithRow(entries, got)) = Len(entries)
         /\ \A k \in 1 .. Len(entries) :
               /\ WithRow(entries, got)[k].id = entries[k].id
               /\ IF got # <<>> /\ entries[k].id = got[1].id
                  THEN WithRow(entries, got)[k] = got[1]
                  ELSE WithRow(entries, got)[k] = entries[k]
<1> DEFINE W == WithRow(entries, got)
<1>1. W = [k \in 1 .. Len(entries) |->
              IF got # <<>> /\ entries[k].id = got[1].id THEN got[1] ELSE entries[k]]
  BY DEF WithRow
<1>2. Len(entries) \in Nat /\ \A k \in 1 .. Len(entries) : entries[k] \in EntryType
  BY ElementOfSeq
<1>3. got # <<>> => got[1] \in EntryType
  OBVIOUS
<1> HIDE DEF W
<1>4. \A k \in 1 .. Len(entries) :
          /\ W[k] = IF got # <<>> /\ entries[k].id = got[1].id THEN got[1] ELSE entries[k]
          /\ W[k] \in EntryType
  BY <1>1, <1>2, <1>3
<1>5. W \in [1 .. Len(entries) -> EntryType]
  BY <1>1, <1>4
<1>6. W \in Seq(EntryType) /\ Len(W) = Len(entries)
  BY <1>2, <1>5
<1> QED
  BY <1>4, <1>6 DEF W

\* Replacing a row by the one an answer brought keeps the list's length and its ids.
LEMMA WithRowKeepsIds ==
  ASSUME NEW entries \in Seq(EntryType), NEW got \in Seq(EntryType)
  PROVE  /\ WithRow(entries, got) \in Seq(EntryType)
         /\ Len(WithRow(entries, got)) = Len(entries)
         /\ \A k \in 1 .. Len(entries) : WithRow(entries, got)[k].id = entries[k].id
<1> DEFINE W == WithRow(entries, got)
<1>1. W \in Seq(EntryType) /\ Len(W) = Len(entries)
  BY WithRowIs
<1>2. ASSUME NEW k \in 1 .. Len(entries)
      PROVE  W[k].id = entries[k].id
  BY WithRowIs
<1> QED
  BY <1>1, <1>2

\* A list without an id is a part of the list, in which nothing comes twice.
LEMMA WithoutIsPart ==
  ASSUME NEW T, NEW entries \in Seq(T), NEW id
  PROVE  /\ Without(entries, id) \in Seq(T)
         /\ \E p \in [1 .. Len(Without(entries, id)) -> 1 .. Len(entries)] :
               /\ \A i, j \in 1 .. Len(Without(entries, id)) : p[i] = p[j] => i = j
               /\ \A j \in 1 .. Len(Without(entries, id)) :
                     /\ Without(entries, id)[j] = entries[p[j]]
                     /\ entries[p[j]].id # id
<1> DEFINE kept == {i \in 1 .. Len(entries) : entries[i].id # id}
           n == Cardinality(kept)
           rest == Without(entries, id)
<1>1. kept \in SUBSET (1 .. Len(entries))
  OBVIOUS
<1>2. rest = AtPositions(entries, kept)
  BY DEF Without
<1> HIDE DEF kept, n, rest
<1>3. /\ n \in Nat /\ rest \in Seq(T) /\ Len(rest) = n
      /\ \E p \in [1 .. n -> kept] :
            /\ \A i, j \in 1 .. n : i < j => p[i] < p[j]
            /\ \A j \in 1 .. n : rest[j] = entries[p[j]]
  BY <1>1, <1>2, FilterKeeps DEF n
<1>4. PICK p \in [1 .. n -> kept] :
          /\ \A i, j \in 1 .. n : i < j => p[i] < p[j]
          /\ \A j \in 1 .. n : rest[j] = entries[p[j]]
  BY <1>3
<1>5. p \in [1 .. n -> 1 .. Len(entries)]
  BY <1>1, <1>4
<1>6. \A i, j \in 1 .. n : p[i] = p[j] => i = j
  <2>1. \A i \in 1 .. n : p[i] \in Int
    BY <1>5
  <2> QED
    BY <1>3, <1>4, <2>1
<1>7. \A j \in 1 .. n : rest[j] = entries[p[j]] /\ entries[p[j]].id # id
  BY <1>4 DEF kept
<1>8. p \in [1 .. Len(rest) -> 1 .. Len(entries)]
  BY <1>3, <1>5
<1>9. \A i, j \in 1 .. Len(rest) : p[i] = p[j] => i = j
  BY <1>3, <1>6
<1>10. \A j \in 1 .. Len(rest) : rest[j] = entries[p[j]] /\ entries[p[j]].id # id
  BY <1>3, <1>7
<1> QED
  BY <1>3, <1>8, <1>9, <1>10 DEF rest

\* The list keeps its type, and its entries are those of the list or of the answer.
LEMMA NewListType ==
  ASSUME NEW a \in AnswerType, BringsItsRow(a), NEW entries \in Seq(EntryType)
  PROVE  /\ NewList(a, entries) \in Seq(EntryType)
         /\ \A k \in 1 .. Len(NewList(a, entries)) :
               \/ \E j \in 1 .. Len(entries) : NewList(a, entries)[k].id = entries[j].id
               \/ \E j \in 1 .. Len(a.got) : NewList(a, entries)[k] = a.got[j]
<1> DEFINE L == NewList(a, entries)
<1>1. a.got \in Seq(EntryType) /\ a.r.op \in {"load"} \cup Changes
      /\ (a.ok = TRUE \/ a.ok = FALSE)
  BY DEF AnswerType, AskType
<1>2. CASE a.ok = FALSE
  BY <1>2 DEF NewList
<1>3. CASE a.ok = TRUE /\ a.r.op = "load"
  BY <1>1, <1>3 DEF NewList
<1>4. CASE a.ok = TRUE /\ a.r.op = "create"
  <2>1. L = a.got \o entries
    BY <1>4 DEF NewList
  <2> HIDE DEF L
  <2>2. /\ L \in Seq(EntryType) /\ Len(L) = Len(a.got) + Len(entries)
        /\ \A k \in 1 .. Len(a.got) + Len(entries) :
              L[k] = IF k <= Len(a.got) THEN a.got[k] ELSE entries[k - Len(a.got)]
    BY <1>1, <2>1, ConcatProperties
  <2>3. Len(a.got) \in Nat /\ Len(entries) \in Nat
    BY <1>1
  <2>4. ASSUME NEW k \in 1 .. Len(L)
        PROVE  \/ \E j \in 1 .. Len(entries) : L[k].id = entries[j].id
               \/ \E j \in 1 .. Len(a.got) : L[k] = a.got[j]
    <3>1. CASE k <= Len(a.got)
      <4>1. k \in 1 .. Len(a.got) /\ k \in 1 .. Len(a.got) + Len(entries)
        BY <2>2, <2>3, <3>1
      <4>2. L[k] = a.got[k]
        BY <2>2, <3>1, <4>1
      <4> QED
        BY <4>1, <4>2
    <3>2. CASE ~(k <= Len(a.got))
      <4>1. k - Len(a.got) \in 1 .. Len(entries)
        BY <2>2, <2>3, <3>2
      <4> QED
        BY <2>2, <3>2, <4>1
    <3> QED
      BY <3>1, <3>2
  <2> QED
    BY <2>2, <2>4 DEF L
<1>5. CASE a.ok = TRUE /\ a.r.op = "delete"
  <2>1. L = Without(entries, a.r.id)
    BY <1>5 DEF NewList
  <2> HIDE DEF L
  <2>2. /\ L \in Seq(EntryType)
        /\ \E p \in [1 .. Len(L) -> 1 .. Len(entries)] :
              \A j \in 1 .. Len(L) : L[j] = entries[p[j]]
    BY <2>1, WithoutIsPart
  <2> QED
    BY <2>2 DEF L
<1>6. CASE a.ok = TRUE /\ a.r.op \in {"save", "switch"}
  <2>1. L = WithRow(entries, a.got)
    BY <1>6 DEF NewList
  <2> HIDE DEF L
  <2>2. /\ L \in Seq(EntryType) /\ Len(L) = Len(entries)
        /\ \A k \in 1 .. Len(entries) : L[k].id = entries[k].id
    <3>1. entries \in Seq(EntryType) /\ a.got \in Seq(EntryType)
      BY <1>1
    <3>2. /\ WithRow(entries, a.got) \in Seq(EntryType)
          /\ Len(WithRow(entries, a.got)) = Len(entries)
          /\ \A k \in 1 .. Len(entries) : WithRow(entries, a.got)[k].id = entries[k].id
      BY <3>1, WithRowKeepsIds
    <3> QED
      BY <2>1, <3>2
  <2> QED
    BY <2>2 DEF L
<1> QED
  BY <1>1, <1>2, <1>3, <1>4, <1>5, <1>6 DEF Changes

LEMMA PageKeepsTypes ==
  ASSUME TableTypes, NEW d \in Desks, ReceiveDesk(d)
  PROVE  TableTypes'
<1>1. PICK i \in 1 .. Len(answers[d]) : Receiving(d, i, answers[d][i])
  BY ReceivingReceives
<1> DEFINE A == answers[d]  a == A[i]  n == Len(A)
<1>2. /\ A \in Seq(AnswerType) /\ n \in Nat /\ a \in AnswerType /\ BringsItsRow(a)
      /\ a.ok = TRUE \/ a.ok = FALSE
  <2> HIDE DEF a
  <2>1. A \in Seq(AnswerType) /\ n \in Nat /\ \A j \in 1 .. n : BringsItsRow(A[j])
    BY AnswersAre
  <2> QED
    BY <2>1, AnswersAre DEF a
<1>3. /\ list \in [Desks -> Seq(EntryType)]
      /\ sent \in [Desks -> SUBSET AskType] /\ answers \in [Desks -> Seq(AnswerType)]
      /\ \A e \in Desks :
            /\ \A j \in 1 .. Len(answers[e]) : BringsItsRow(answers[e][j])
            /\ clicks[e] = 1 => \A q \in sent[e] : q.op = "load"
            /\ \A q \in sent[e] : q.op = "load" => q.id # 0
            /\ KnownTo(e)
      /\ kind \in [Desks -> Tables] /\ born \in [Tables -> Nat]
      /\ modal \in [Desks -> Nat \cup {-1}]
      /\ total \in [Desks -> Int] /\ view \in [Desks -> {"loading", "error", "shown"}]
      /\ blurred \in [Desks -> BOOLEAN] /\ page \in [Desks -> Nat \ {0}] /\ form \in [Desks -> Row]
      /\ clicks \in [Desks -> 1 .. MaxClicks]
  BY DEF TableTypes, CallsType, PageType, RowsType
<1>4. /\ answers' = [answers EXCEPT ![d] = RemoveAt(A, i)]
      /\ list' = [list EXCEPT ![d] = NewList(a, list[d])]
      /\ total' = [total EXCEPT ![d] = NewTotal(a, total[d])]
      /\ view' = [view EXCEPT ![d] = IF a.r.op # "load" THEN @
                                     ELSE IF a.ok = TRUE THEN "shown" ELSE "error"]
      /\ modal' = modal \/ modal' = [modal EXCEPT ![d] = -1]
      /\ UNCHANGED <<kind, rows, born, page, sent, clicks, form>>
      /\ saving' \in [Desks -> BOOLEAN] /\ deleting' \in [Desks -> Nat]
      /\ blurred' = [blurred EXCEPT ![d] = @ \/ \E j \in 1 .. i - 1 : A[j].r.id = a.r.id]
  BY <1>1 DEF Receiving
<1>5. /\ RemoveAt(A, i) \in Seq(AnswerType) /\ Len(RemoveAt(A, i)) = n - 1
      /\ \A j \in 1 .. n - 1 : RemoveAt(A, i)[j] = IF j < i THEN A[j] ELSE A[j + 1]
  <2>1. i \in 1 .. Len(A)
    OBVIOUS
  <2> HIDE DEF A
  <2> QED
    BY <1>2, <2>1, RemovedAt
<1>6. /\ NewList(a, list[d]) \in Seq(EntryType)
      /\ \A k \in 1 .. Len(NewList(a, list[d])) :
            \/ \E j \in 1 .. Len(list[d]) : NewList(a, list[d])[k].id = list[d][j].id
            \/ \E j \in 1 .. Len(a.got) : NewList(a, list[d])[k] = a.got[j]
  <2>1. list[d] \in Seq(EntryType)
    BY <1>3
  <2> HIDE DEF a
  <2> QED
    BY <1>2, <2>1, NewListType
<1>7. NewTotal(a, total[d]) \in Int
  <2>1. a.total \in Int /\ total[d] \in Int
    BY <1>2, <1>3 DEF AnswerType
  <2> HIDE DEF a
  <2> QED
    BY <2>1 DEF NewTotal
<1>8. KnownTo(d)'
  <2> DEFINE b == born[kind[d]]  B == RemoveAt(A, i)  L == NewList(a, list[d])
  <2>1. Known(sent[d], A, list[d], modal[d], b) /\ b \in Nat
    BY <1>3 DEF KnownTo
  <2>2. answers'[d] = B /\ list'[d] = L /\ sent'[d] = sent[d] /\ kind' = kind /\ born' = born
        /\ (modal'[d] = modal[d] \/ modal'[d] = -1)
    BY <1>3, <1>4
  <2>3. modal'[d] <= b
    BY <2>1, <2>2 DEF Known
  <2>4. \A k \in 1 .. Len(L) : L[k].id <= b
    <3> HIDE DEF L, b
    <3>1. \A j \in 1 .. Len(a.got) : a.got[j].id <= b
      BY <2>1 DEF Known
    <3>2. \A j \in 1 .. Len(list[d]) : list[d][j].id <= b
      BY <2>1 DEF Known
    <3> HIDE DEF a
    <3> QED
      BY <1>6, <3>1, <3>2 DEF L
  <2>5. ASSUME NEW j \in 1 .. n - 1
        PROVE  /\ B[j].r.op \in Changes => B[j].r.id <= b
               /\ \A k \in 1 .. Len(B[j].got) : B[j].got[k].id <= b
    <3>1. j \in 1 .. n /\ j + 1 \in 1 .. n /\ (B[j] = A[j] \/ B[j] = A[j + 1])
      BY <1>2, <1>5
    <3> HIDE DEF A, B, b
    <3> QED
      BY <2>1, <3>1 DEF Known
  <2> HIDE DEF A, B, L, b
  <2>6. Known(sent[d], B, L, modal'[d], b)
    BY <1>5, <2>1, <2>3, <2>4, <2>5 DEF Known, B
  <2> QED
    BY <2>2, <2>6 DEF KnownTo, b
<1>9. \A j \in 1 .. n - 1 : BringsItsRow(RemoveAt(A, i)[j])
  <2>1. \A j \in 1 .. n : BringsItsRow(A[j])
    BY <1>3
  <2> HIDE DEF A
  <2> QED
    BY <1>2, <1>5, <2>1
<1>10. CallsType'
  <2>1. list' \in [Desks -> Seq(EntryType)] /\ answers' \in [Desks -> Seq(AnswerType)]
    BY <1>3, <1>4, <1>5, <1>6
  <2>2. ASSUME NEW e \in Desks
        PROVE  /\ \A j \in 1 .. Len(answers'[e]) : BringsItsRow(answers'[e][j])
               /\ KnownTo(e)'
    <3>1. CASE e = d
      BY <1>3, <1>4, <1>5, <1>8, <1>9, <3>1
    <3>2. CASE e # d
      <4>1. answers'[e] = answers[e] /\ list'[e] = list[e] /\ modal'[e] = modal[e]
            /\ sent' = sent /\ kind' = kind /\ born' = born
        BY <1>3, <1>4, <3>2
      <4> QED
        BY <1>3, <4>1 DEF KnownTo
    <3> QED
      BY <3>1, <3>2
  <2> QED
    BY <1>3, <1>4, <2>1, <2>2 DEF CallsType
<1>11. PageType'
  <2> DEFINE late == \E j \in 1 .. i - 1 : A[j].r.id = a.r.id
  <2>1. blurred' \in [Desks -> BOOLEAN]
    <3>1. (blurred[d] \/ late) \in BOOLEAN
      BY Zenon
    <3>2. blurred' = [blurred EXCEPT ![d] = blurred[d] \/ late]
      BY <1>4
    <3> HIDE DEF late
    <3> QED
      BY <1>3, <3>1, <3>2, Zenon
  <2>2. modal' \in [Desks -> Nat \cup {-1}]
    BY <1>3, <1>4
  <2>3. view' \in [Desks -> {"loading", "error", "shown"}] /\ total' \in [Desks -> Int]
    BY <1>3, <1>4, <1>7
  <2> QED
    BY <1>3, <1>4, <2>1, <2>2, <2>3 DEF PageType
<1>12. RowsType'
  BY <1>4 DEF TableTypes, RowsType
<1> QED
  BY <1>10, <1>11, <1>12 DEF TableTypes

----------------------------------------------------------------------------
(* The admin's clicks. *)

\* What it is to send a request.
LEMMA SendingSends ==
  ASSUME TableTypes, NEW d \in Desks, NEW r \in AskType, Send(d, r)
  PROVE  /\ clicks' \in [Desks -> 1 .. MaxClicks] /\ clicks'[d] = clicks[d] + 1 /\ clicks'[d] # 1
         /\ sent' \in [Desks -> SUBSET AskType] /\ sent'[d] = sent[d] \cup {r}
         /\ \A e \in Desks \ {d} : sent'[e] = sent[e] /\ clicks'[e] = clicks[e]
         /\ blurred' \in [Desks -> BOOLEAN]
<1>1. /\ clicks \in [Desks -> 1 .. MaxClicks] /\ blurred \in [Desks -> BOOLEAN]
      /\ sent \in [Desks -> SUBSET AskType] /\ MaxClicks \in Nat
  BY TablesAssumption DEF TableTypes, PageType, CallsType
<1>2. clicks[d] < MaxClicks /\ clicks' = [clicks EXCEPT ![d] = @ + 1]
      /\ sent' = [sent EXCEPT ![d] = @ \cup {r}]
  BY DEF Send
<1>3. blurred' \in [Desks -> BOOLEAN]
  <2> DEFINE mixed == blurred[d] \/ \E q \in Pending(d) : "load" \in {q.op, r.op}
  <2>1. blurred' = [blurred EXCEPT ![d] = mixed]
    BY Zenon DEF Send
  <2>2. mixed \in BOOLEAN
    BY Zenon
  <2> HIDE DEF mixed
  <2> QED
    BY <1>1, <2>1, <2>2, Zenon
<1>4. clicks[d] \in 1 .. MaxClicks /\ clicks'[d] = clicks[d] + 1
  BY <1>1, <1>2
<1>5. clicks' \in [Desks -> 1 .. MaxClicks] /\ clicks'[d] # 1
  BY <1>1, <1>2, <1>4
<1>6. sent' \in [Desks -> SUBSET AskType] /\ sent'[d] = sent[d] \cup {r}
      /\ \A e \in Desks \ {d} : sent'[e] = sent[e] /\ clicks'[e] = clicks[e]
  BY <1>1, <1>2
<1> QED
  BY <1>3, <1>4, <1>5, <1>6

\* A step that sends a request of known rows, or opens the form for one.
LEMMA ClickKeepsCalls ==
  ASSUME TableTypes, NEW d \in Desks, UNCHANGED <<kind, rows, born, list, answers>>,
         \/ modal' = modal
         \/ /\ modal' \in [Desks -> Nat \cup {-1}] /\ modal'[d] <= born[kind[d]]
            /\ \A e \in Desks \ {d} : modal'[e] = modal[e],
         \/ UNCHANGED <<sent, clicks>>
         \/ \E r \in AskType :
               /\ r.op \in Changes => r.id <= born[kind[d]]
               /\ r.op = "load" => r.id # 0
               /\ Send(d, r)
  PROVE  CallsType'
<1>1. /\ list \in [Desks -> Seq(EntryType)]
      /\ sent \in [Desks -> SUBSET AskType] /\ answers \in [Desks -> Seq(AnswerType)]
      /\ \A e \in Desks :
            /\ \A j \in 1 .. Len(answers[e]) : BringsItsRow(answers[e][j])
            /\ clicks[e] = 1 => \A q \in sent[e] : q.op = "load"
            /\ \A q \in sent[e] : q.op = "load" => q.id # 0
            /\ KnownTo(e)
  BY DEF TableTypes, CallsType
<1>2. ASSUME NEW e \in Desks
      PROVE  /\ sent'[e] \in SUBSET AskType
             /\ clicks'[e] = 1 => \A q \in sent'[e] : q.op = "load"
             /\ \A q \in sent'[e] : q.op = "load" => q.id # 0
             /\ KnownTo(e)'
  <2>1. modal'[e] <= born[kind[e]]
    BY <1>1 DEF KnownTo, Known
  <2>2. CASE sent'[e] = sent[e] /\ clicks'[e] = clicks[e]
    BY <1>1, <2>1, <2>2 DEF KnownTo, Known
  <2>3. CASE ~(sent'[e] = sent[e] /\ clicks'[e] = clicks[e])
    <3>1. PICK r \in AskType :
             /\ r.op \in Changes => r.id <= born[kind[d]]
             /\ r.op = "load" => r.id # 0
             /\ Send(d, r)
      BY <2>3
    <3>2. e = d /\ sent'[d] = sent[d] \cup {r} /\ clicks'[d] # 1
      BY <2>3, <3>1, SendingSends
    <3>3. \A q \in sent'[d] : (q.op \in Changes => q.id <= born[kind[d]])
                              /\ (q.op = "load" => q.id # 0)
      BY <1>1, <3>1, <3>2 DEF KnownTo, Known
    <3>4. KnownTo(d)'
      BY <1>1, <2>1, <3>2, <3>3 DEF KnownTo, Known
    <3> QED
      BY <1>1, <3>2, <3>3, <3>4
  <2> QED
    BY <2>2, <2>3
<1>3. sent' \in [Desks -> SUBSET AskType]
  <2>1. CASE sent' = sent
    BY <1>1, <2>1
  <2>2. CASE \E r \in AskType : Send(d, r)
    BY <2>2, SendingSends
  <2> QED
    BY <2>1, <2>2
<1> QED
  BY <1>1, <1>2, <1>3 DEF CallsType

LEMMA ClicksKeepTypes ==
  ASSUME TableTypes, NEW d \in Desks, FormOpened(d) \/ Written(d) \/ Turned(d)
  PROVE  TableTypes'
<1>1. /\ kind \in [Desks -> Tables] /\ born \in [Tables -> Nat]
      /\ modal \in [Desks -> Nat \cup {-1}] /\ form \in [Desks -> Row]
      /\ view \in [Desks -> {"loading", "error", "shown"}]
      /\ page \in [Desks -> Nat \ {0}] /\ total \in [Desks -> Int]
      /\ saving \in [Desks -> BOOLEAN] /\ deleting \in [Desks -> Nat]
      /\ clicks \in [Desks -> 1 .. MaxClicks] /\ blurred \in [Desks -> BOOLEAN]
  BY DEF TableTypes, PageType, RowsType
<1>2. /\ modal[d] <= born[kind[d]] /\ born[kind[d]] \in Nat
      /\ \A e \in Rows(d) : e.id <= born[kind[d]]
  <2>1. Known(sent[d], answers[d], list[d], modal[d], born[kind[d]])
    BY DEF TableTypes, CallsType, KnownTo
  <2> QED
    BY <1>1, <2>1 DEF Known, Rows
<1>3. clicks[d] \in Nat
  BY <1>1
<1>4. CASE FormOpened(d)
  <2>1. PICK m \in Nat \cup {-1}, fields \in Row :
           SetModal(d, m, fields) /\ (m \in {-1, 0} \/ \E e \in Rows(d) : m = e.id)
    BY <1>4 DEF FormOpened
  <2>2. /\ modal' = [modal EXCEPT ![d] = m] /\ form' = [form EXCEPT ![d] = fields]
        /\ UNCHANGED <<kind, rows, born, list, page, total, view, saving, deleting, sent, answers,
                       clicks, blurred>>
    BY <2>1 DEF SetModal
  <2>3. m <= born[kind[d]]
    BY <1>2, <2>1
  <2>4. PageType'
    BY <1>1, <2>2 DEF PageType
  <2>5. CallsType'
    BY <1>1, <2>2, <2>3, ClickKeepsCalls
  <2> QED
    BY <2>2, <2>4, <2>5 DEF TableTypes, RowsType
<1>5. CASE Written(d)
  <2>1. PICK op \in Changes, id \in Nat, patch \in Patches :
           /\ Write(d, op, id, patch)
           /\ IF op = "create" THEN id = 0 ELSE id = modal[d] \/ \E e \in Rows(d) : id = e.id
           /\ saving' \in [Desks -> BOOLEAN] /\ deleting' \in [Desks -> Nat]
    BY <1>5 DEF Written
  <2> DEFINE r == Ask(op, id, patch, clicks[d])
  <2>2. r \in AskType /\ r.op = op /\ r.id = id /\ op # "load"
    BY <1>3 DEF Ask, AskType, Changes
  <2>3. /\ Send(d, r)
        /\ UNCHANGED <<kind, rows, born, list, page, total, view, modal, form, answers>>
    BY <2>1 DEF Write
  <2> HIDE DEF r
  <2>4. id <= born[kind[d]]
    BY <1>2, <2>1
  <2>5. PageType'
    BY <1>1, <2>1, <2>2, <2>3, SendingSends DEF PageType
  <2>6. CallsType'
    BY <2>2, <2>3, <2>4, ClickKeepsCalls
  <2> QED
    BY <2>3, <2>5, <2>6 DEF TableTypes, RowsType
<1>6. CASE Turned(d)
  <2>1. PICK p \in Nat \ {0} : AskPage(d, p)
    BY <1>6 DEF Turned
  <2> DEFINE r == Load(p, clicks[d])
  <2>2. r \in AskType /\ r.op = "load" /\ r.id = p /\ "load" \notin Changes
    BY <1>3, FormsAreRows DEF Load, Ask, AskType, Changes
  <2>3. /\ Send(d, r)
        /\ page' = [page EXCEPT ![d] = p] /\ view' = [view EXCEPT ![d] = "loading"]
        /\ UNCHANGED <<kind, rows, born, list, total, modal, form, saving, deleting, answers>>
    BY <2>1 DEF AskPage, tables_form
  <2> HIDE DEF r
  <2>4. PageType'
    BY <1>1, <2>1, <2>2, <2>3, SendingSends DEF PageType
  <2>5. CallsType'
    BY <2>1, <2>2, <2>3, ClickKeepsCalls
  <2> QED
    BY <2>3, <2>4, <2>5 DEF TableTypes, RowsType
<1> QED
  BY <1>4, <1>5, <1>6

LEMMA TypesAreKept == TableTypes /\ [TablesNext]_tables_vars => TableTypes'
<1> SUFFICES ASSUME TableTypes, [TablesNext]_tables_vars PROVE TableTypes'
  OBVIOUS
<1>1. CASE TablesNext
  <2>1. PICK d \in Desks :
           ServeDesk(d) \/ ReceiveDesk(d) \/ FormOpened(d) \/ Written(d) \/ Turned(d)
    BY <1>1, StepsOfADesk
  <2> QED
    BY <2>1, ServiceKeepsTypes, PageKeepsTypes, ClicksKeepTypes
<1>2. CASE UNCHANGED tables_vars
  BY <1>2 DEF tables_vars, TableTypes, RowsType, PageType, CallsType, KnownTo
<1> QED
  BY <1>1, <1>2

LEMMA TypesImplyTypeOK == TableTypes => TablesTypeOK
<1> SUFFICES ASSUME TableTypes PROVE TablesTypeOK
  OBVIOUS
<1>1. \A d \in Desks : \A r \in sent[d] : r.op \in {"load", "create", "save", "switch", "delete"}
  BY DEF TableTypes, CallsType, AskType, Changes
<1>2. \A t \in Tables :
        /\ born[t] \in Nat /\ DOMAIN rows[t] \subseteq 1 .. born[t]
        /\ \A id \in DOMAIN rows[t] : rows[t][id] \in Row
  BY DEF TableTypes, RowsType
<1> QED
  BY <1>1, <1>2 DEF TableTypes, PageType, CallsType, TablesTypeOK, EntryType

----------------------------------------------------------------------------
(* A desk that works alone: the service. *)

\* The answer to a creation, or to a removal, that was done.
Creation(a) == a.r.op = "create" /\ a.ok = TRUE
Removal(a) == a.r.op = "delete" /\ a.ok = TRUE

\* What an answer tells is so in the table: the row is the one it brings, or is gone.
TellsOf(a, T) ==
    IF a.r.op = "delete" THEN About(a) \notin DOMAIN T
    ELSE About(a) \in DOMAIN T /\ T[About(a)] = a.got[1].row

\* A load runs alone, and its answer lists rows of the table and says how many there are.
LoadsAlone(asks, A, T) ==
    /\ \A r \in asks : r.op = "load" => asks = {r} /\ Len(A) = 0
    /\ \A i \in 1 .. Len(A) : A[i].r.op = "load" =>
          /\ asks = {} /\ Len(A) = 1
          /\ A[i].ok = TRUE => /\ ListsRows(A[i].got, T)
                                     /\ A[i].total = Cardinality(DOMAIN T)

\* The row of a creation under way is known to nobody: not to the list, the form, another
\* request or another answer.
NewToAll(asks, A, entries, m) ==
    \A i \in 1 .. Len(A) : Creation(A[i]) =>
        /\ m # About(A[i])
        /\ \A k \in 1 .. Len(entries) : entries[k].id # About(A[i])
        /\ \A r \in asks : r.op \in Changes => r.id # About(A[i])
        /\ \A j \in 1 .. Len(A) \ {i} : Telling(A[j]) => About(A[j]) # About(A[i])

\* No row is listed twice.
OnceListed(entries) == \A k, l \in 1 .. Len(entries) : entries[k].id = entries[l].id => k = l

\* The last answer about a row tells what it is.
LastTells(A, T) ==
    \A i \in 1 .. Len(A) :
        /\ Telling(A[i])
        /\ \A j \in i + 1 .. Len(A) : Telling(A[j]) => About(A[j]) # About(A[i])
        => TellsOf(A[i], T)

\* An entry that no answer is about is the row of the table.
EntriesTell(A, entries, T) ==
    \A k \in 1 .. Len(entries) :
        (\A j \in 1 .. Len(A) : Telling(A[j]) => About(A[j]) # entries[k].id)
        => entries[k].id \in DOMAIN T /\ T[entries[k].id] = entries[k].row

\* The number on the page and the creations and removals under way make the number of rows.
Counts(A, n, T) ==
    n + Cardinality({i \in 1 .. Len(A) : Creation(A[i])})
      - Cardinality({i \in 1 .. Len(A) : Removal(A[i])}) = Cardinality(DOMAIN T)

\* What a desk holds that works alone, m the row in its form, T its table, n the number it
\* shows and v its view.
Sound(asks, A, entries, m, T, n, v) ==
    /\ LoadsAlone(asks, A, T) /\ NewToAll(asks, A, entries, m)
    /\ OnceListed(entries) /\ LastTells(A, T) /\ EntriesTell(A, entries, T)
    /\ v = "shown" => Counts(A, n, T)

\* The inductive invariant.
DeskInv(d) ==
    Undisturbed(d) => Sound(sent[d], answers[d], list[d], modal[d], Table(d), total[d], view[d])

TablesInv == TableTypes /\ \A d \in Desks : DeskInv(d)

\* The sequence B is A with a at its end.
Appended(A, B, a) ==
    /\ Len(A) \in Nat /\ Len(B) = Len(A) + 1 /\ B[Len(A) + 1] = a
    /\ \A i \in 1 .. Len(A) : B[i] = A[i]

LEMMA AppendedAt ==
  ASSUME NEW A, NEW B, NEW a, Appended(A, B, a), NEW i \in 1 .. Len(B)
  PROVE  (i \in 1 .. Len(A) /\ B[i] = A[i]) \/ (i = Len(A) + 1 /\ B[i] = a)
BY DEF Appended

LEMMA CountAppended ==
  ASSUME NEW n \in Nat, NEW P \in SUBSET (1 .. n)
  PROVE  /\ IsFiniteSet(P) /\ Cardinality(P) \in Nat
         /\ Cardinality(P \cup {n + 1}) = Cardinality(P) + 1
<1>1. IsFiniteSet(1 .. n)
  BY FS_Interval
<1>2. IsFiniteSet(P)
  BY <1>1, FS_Subset, Zenon
<1>3. n + 1 \notin P
  OBVIOUS
<1> QED
  BY <1>2, <1>3, FS_AddElement, FS_CardinalityType

\* The answer adds one to the creations or to the removals, if it is one.
LEMMA AppendedCounts ==
  ASSUME NEW A, NEW B, NEW a, Appended(A, B, a), NEW n \in Int, NEW T, NEW T2,
         Counts(A, n, T),
         Cardinality(DOMAIN T) \in Nat,
         Cardinality(DOMAIN T2) = Cardinality(DOMAIN T) + (IF Creation(a) THEN 1 ELSE 0)
                                                        - (IF Removal(a) THEN 1 ELSE 0)
  PROVE  Counts(B, n, T2)
<1> DEFINE N == Len(A)
           C == {i \in 1 .. N : Creation(A[i])}  C2 == {i \in 1 .. Len(B) : Creation(B[i])}
           R == {i \in 1 .. N : Removal(A[i])}  R2 == {i \in 1 .. Len(B) : Removal(B[i])}
<1>1. N \in Nat /\ Len(B) = N + 1 /\ B[N + 1] = a /\ \A i \in 1 .. N : B[i] = A[i]
  BY DEF Appended
<1>2. \A i : i \in 1 .. Len(B) <=> i \in 1 .. N \/ i = N + 1
  BY <1>1
<1>3. C2 = IF Creation(a) THEN C \cup {N + 1} ELSE C
  <2>1. ASSUME NEW i \in C2 PROVE i \in C \/ (Creation(a) /\ i = N + 1)
    BY <1>1, <1>2
  <2>2. ASSUME NEW i \in C PROVE i \in C2
    BY <1>1, <1>2
  <2>3. Creation(a) => N + 1 \in C2
    BY <1>1, <1>2
  <2> HIDE DEF C, C2
  <2> QED
    BY <2>1, <2>2, <2>3
<1>4. R2 = IF Removal(a) THEN R \cup {N + 1} ELSE R
  <2>1. ASSUME NEW i \in R2 PROVE i \in R \/ (Removal(a) /\ i = N + 1)
    BY <1>1, <1>2
  <2>2. ASSUME NEW i \in R PROVE i \in R2
    BY <1>1, <1>2
  <2>3. Removal(a) => N + 1 \in R2
    BY <1>1, <1>2
  <2> HIDE DEF R, R2
  <2> QED
    BY <2>1, <2>2, <2>3
<1>5. C \in SUBSET (1 .. N) /\ R \in SUBSET (1 .. N)
  OBVIOUS
<1>6. n + Cardinality(C) - Cardinality(R) = Cardinality(DOMAIN T)
  BY DEF Counts
<1> HIDE DEF N, C, C2, R, R2
<1>7. /\ Cardinality(C) \in Nat /\ Cardinality(C \cup {N + 1}) = Cardinality(C) + 1
      /\ Cardinality(R) \in Nat /\ Cardinality(R \cup {N + 1}) = Cardinality(R) + 1
  BY <1>1, <1>5, CountAppended
<1>8. /\ Cardinality(C2) = Cardinality(C) + (IF Creation(a) THEN 1 ELSE 0)
      /\ Cardinality(R2) = Cardinality(R) + (IF Removal(a) THEN 1 ELSE 0)
  BY <1>3, <1>4, <1>7
<1>9. n + Cardinality(C2) - Cardinality(R2) = Cardinality(DOMAIN T2)
  BY <1>6, <1>7, <1>8
<1> QED
  BY <1>9 DEF Counts, C2, R2

\* The service takes a request and appends its answer; only a load is served beside none.
LEMMA LoadsServed ==
  ASSUME NEW asks, NEW A, NEW B, NEW T, NEW T2, NEW r \in asks, NEW a, a.r = r,
         LoadsAlone(asks, A, T), Appended(A, B, a),
         r.op = "load" /\ a.ok = TRUE =>
             ListsRows(a.got, T2) /\ a.total = Cardinality(DOMAIN T2)
  PROVE  LoadsAlone(asks \ {r}, B, T2)
<1>1. Len(A) \in Nat /\ Len(B) = Len(A) + 1
  BY DEF Appended
<1>2. CASE r.op = "load"
  <2>1. asks \ {r} = {} /\ Len(A) = 0
    BY <1>2 DEF LoadsAlone
  <2>2. Len(B) = 1 /\ \A i \in 1 .. Len(B) : B[i] = a
    BY <1>1, <2>1, AppendedAt
  <2> QED
    BY <1>2, <2>1, <2>2 DEF LoadsAlone
<1>3. CASE r.op # "load"
  <2>1. \A q \in asks : q.op # "load"
    BY <1>3 DEF LoadsAlone
  <2>2. \A i \in 1 .. Len(A) : A[i].r.op # "load"
    BY DEF LoadsAlone
  <2>3. \A i \in 1 .. Len(B) : B[i].r.op # "load"
    BY <1>3, <2>2, AppendedAt
  <2> QED
    BY <2>1, <2>3 DEF LoadsAlone
<1> QED
  BY <1>2, <1>3

\* An answer that goes with no change.
LEMMA QuietIsSound ==
  ASSUME NEW asks, NEW A, NEW B, NEW L, NEW m, NEW T, NEW n \in Int, NEW v, NEW r \in asks, NEW a,
         a.r = r, Sound(asks, A, L, m, T, n, v), Appended(A, B, a), ~Telling(a), ~Creation(a),
         Cardinality(DOMAIN T) \in Nat,
         r.op = "load" /\ a.ok = TRUE => ListsRows(a.got, T) /\ a.total = Cardinality(DOMAIN T)
  PROVE  Sound(asks \ {r}, B, L, m, T, n, v)
<1>1. LoadsAlone(asks \ {r}, B, T)
  BY LoadsServed DEF Sound
<1>2. Len(A) \in Nat /\ Len(B) = Len(A) + 1 /\ \A i \in 1 .. Len(A) : B[i] = A[i]
  BY DEF Appended
<1>3. ASSUME NEW i \in 1 .. Len(B), Telling(B[i]) \/ Creation(B[i])
      PROVE  i \in 1 .. Len(A) /\ B[i] = A[i]
  BY <1>3, AppendedAt
<1>4. \A i \in 1 .. Len(A) : i \in 1 .. Len(B)
  BY <1>2
<1>5. NewToAll(asks \ {r}, B, L, m)
  <2>1. NewToAll(asks, A, L, m)
    BY DEF Sound
  <2>2. ASSUME NEW i \in 1 .. Len(B), Creation(B[i])
        PROVE  /\ m # About(B[i])
               /\ \A k \in 1 .. Len(L) : L[k].id # About(B[i])
               /\ \A q \in asks \ {r} : q.op \in Changes => q.id # About(B[i])
               /\ \A j \in 1 .. Len(B) \ {i} : Telling(B[j]) => About(B[j]) # About(B[i])
    <3>1. i \in 1 .. Len(A) /\ B[i] = A[i]
      BY <1>3, <2>2
    <3>2. \A j \in 1 .. Len(A) \ {i} : Telling(A[j]) => About(A[j]) # About(A[i])
      BY <2>1, <2>2, <3>1 DEF NewToAll
    <3> QED
      BY <1>3, <2>1, <2>2, <3>1, <3>2 DEF NewToAll
  <2> QED
    BY <2>2 DEF NewToAll
<1>6. LastTells(B, T)
  <2>1. ASSUME NEW i \in 1 .. Len(B), Telling(B[i]),
               \A j \in i + 1 .. Len(B) : Telling(B[j]) => About(B[j]) # About(B[i])
        PROVE  TellsOf(B[i], T)
    <3>1. i \in 1 .. Len(A) /\ B[i] = A[i]
      BY <1>3, <2>1
    <3>2. \A j \in i + 1 .. Len(A) : j \in i + 1 .. Len(B) /\ B[j] = A[j]
      BY <1>2, <3>1
    <3> QED
      BY <2>1, <3>1, <3>2 DEF Sound, LastTells
  <2> QED
    BY <2>1 DEF LastTells
<1>7. EntriesTell(B, L, T)
  <2>1. ASSUME NEW k \in 1 .. Len(L),
               \A j \in 1 .. Len(B) : Telling(B[j]) => About(B[j]) # L[k].id
        PROVE  L[k].id \in DOMAIN T /\ T[L[k].id] = L[k].row
    <3>1. \A j \in 1 .. Len(A) : Telling(A[j]) => About(A[j]) # L[k].id
      BY <1>2, <1>4, <2>1
    <3> QED
      BY <3>1 DEF Sound, EntriesTell
  <2> QED
    BY <2>1 DEF EntriesTell
<1>8. v = "shown" => Counts(B, n, T)
  <2> SUFFICES ASSUME v = "shown" PROVE Counts(B, n, T)
    OBVIOUS
  <2>1. Counts(A, n, T)
    BY DEF Sound
  <2>2. ~Removal(a)
    BY DEF Removal, Telling, Changes
  <2>3. Cardinality(DOMAIN T) = Cardinality(DOMAIN T) + (IF Creation(a) THEN 1 ELSE 0)
                                                      - (IF Removal(a) THEN 1 ELSE 0)
    BY <2>2
  <2> QED
    BY <2>1, <2>3, AppendedCounts
<1> QED
  BY <1>1, <1>5, <1>6, <1>7, <1>8 DEF Sound

\* The two tables agree on all rows but one.
SameBut(T, T2, x) ==
    \A y : y # x => /\ y \in DOMAIN T <=> y \in DOMAIN T2
                    /\ y \in DOMAIN T => T2[y] = T[y]

\* Nobody has heard of a row.
Unknown(asks, A, L, m, x) ==
    /\ m # x /\ \A k \in 1 .. Len(L) : L[k].id # x
    /\ \A r \in asks : r.op \in Changes => r.id # x
    /\ \A j \in 1 .. Len(A) : Telling(A[j]) => About(A[j]) # x

\* An answer that tells of a change.
LEMMA ChangeIsSound ==
  ASSUME NEW asks, NEW A, NEW B, NEW L, NEW m, NEW T, NEW T2, NEW n \in Int, NEW v,
         NEW r \in asks, NEW a, a.r = r, r.op \in Changes,
         Sound(asks, A, L, m, T, n, v), Appended(A, B, a), Telling(a),
         \A i \in 1 .. Len(A) : Creation(A[i]) => Telling(A[i]),
         SameBut(T, T2, About(a)), TellsOf(a, T2),
         r.op = "create" => Unknown(asks, A, L, m, About(a)),
         Cardinality(DOMAIN T) \in Nat,
         Cardinality(DOMAIN T2) = Cardinality(DOMAIN T) + (IF Creation(a) THEN 1 ELSE 0)
                                                        - (IF Removal(a) THEN 1 ELSE 0)
  PROVE  Sound(asks \ {r}, B, L, m, T2, n, v)
<1> DEFINE x == About(a)
<1>1. LoadsAlone(asks \ {r}, B, T2)
  <2>1. r.op # "load" /\ LoadsAlone(asks, A, T)
    BY DEF Changes, Sound
  <2>2. \A q \in asks : q.op # "load"
    BY <2>1 DEF LoadsAlone
  <2>3. \A i \in 1 .. Len(A) : A[i].r.op # "load"
    BY <2>1 DEF LoadsAlone
  <2>4. \A i \in 1 .. Len(B) : B[i].r.op # "load"
    BY <2>1, <2>3, AppendedAt
  <2> QED
    BY <2>2, <2>4 DEF LoadsAlone
<1>2. Len(A) \in Nat /\ Len(B) = Len(A) + 1 /\ B[Len(A) + 1] = a
      /\ \A i \in 1 .. Len(A) : B[i] = A[i]
  BY DEF Appended
<1>3. Len(A) + 1 \in 1 .. Len(B) /\ \A i \in 1 .. Len(A) : i \in 1 .. Len(B)
  BY <1>2
<1>4. NewToAll(asks, A, L, m)
  BY DEF Sound
<1>5. r.op # "create" => x = r.id
  BY DEF About
<1>6. NewToAll(asks \ {r}, B, L, m)
  <2>1. ASSUME NEW i \in 1 .. Len(B), Creation(B[i])
        PROVE  /\ m # About(B[i])
               /\ \A k \in 1 .. Len(L) : L[k].id # About(B[i])
               /\ \A q \in asks \ {r} : q.op \in Changes => q.id # About(B[i])
               /\ \A j \in 1 .. Len(B) \ {i} : Telling(B[j]) => About(B[j]) # About(B[i])
    <3>1. CASE i \in 1 .. Len(A) /\ B[i] = A[i]
      <4>1. /\ m # About(A[i])
            /\ \A k \in 1 .. Len(L) : L[k].id # About(A[i])
            /\ \A q \in asks : q.op \in Changes => q.id # About(A[i])
            /\ \A j \in 1 .. Len(A) \ {i} : Telling(A[j]) => About(A[j]) # About(A[i])
        BY <1>4, <2>1, <3>1 DEF NewToAll
      <4>2. x # About(A[i])
        <5>1. CASE r.op = "create"
          BY <2>1, <3>1, <5>1 DEF Unknown
        <5>2. CASE r.op # "create"
          BY <1>5, <4>1, <5>2
        <5> QED
          BY <5>1, <5>2
      <4>3. ASSUME NEW j \in 1 .. Len(B) \ {i}, Telling(B[j]) PROVE About(B[j]) # About(B[i])
        <5>1. (j \in 1 .. Len(A) /\ B[j] = A[j]) \/ B[j] = a
          BY AppendedAt
        <5> QED
          BY <3>1, <4>1, <4>2, <4>3, <5>1
      <4> QED
        BY <3>1, <4>1, <4>3
    <3>2. CASE i = Len(A) + 1 /\ B[i] = a
      <4>1. Unknown(asks, A, L, m, x)
        BY <2>1, <3>2 DEF Creation
      <4>2. ASSUME NEW j \in 1 .. Len(B) \ {i}, Telling(B[j]) PROVE About(B[j]) # x
        <5>1. j \in 1 .. Len(A) /\ B[j] = A[j]
          BY <3>2, AppendedAt
        <5> QED
          BY <4>1, <4>2, <5>1 DEF Unknown
      <4> QED
        BY <3>2, <4>1, <4>2 DEF Unknown
    <3> QED
      BY <3>1, <3>2, AppendedAt
  <2> QED
    BY <2>1 DEF NewToAll
<1>7. LastTells(B, T2)
  <2>1. ASSUME NEW i \in 1 .. Len(B), Telling(B[i]),
               \A j \in i + 1 .. Len(B) : Telling(B[j]) => About(B[j]) # About(B[i])
        PROVE  TellsOf(B[i], T2)
    <3>1. CASE i \in 1 .. Len(A) /\ B[i] = A[i]
      <4>1. \A j \in i + 1 .. Len(A) : j \in i + 1 .. Len(B) /\ B[j] = A[j]
        BY <1>2, <3>1
      <4>2. TellsOf(A[i], T)
        BY <2>1, <3>1, <4>1 DEF Sound, LastTells
      <4>3. Len(A) + 1 \in i + 1 .. Len(B)
        BY <1>2, <3>1
      <4>4. About(A[i]) # x
        BY <1>2, <2>1, <3>1, <4>3
      <4> QED
        BY <3>1, <4>2, <4>4 DEF TellsOf, SameBut
    <3>2. CASE B[i] = a
      BY <3>2
    <3> QED
      BY <3>1, <3>2, AppendedAt
  <2> QED
    BY <2>1 DEF LastTells
<1>8. EntriesTell(B, L, T2)
  <2>1. ASSUME NEW k \in 1 .. Len(L),
               \A j \in 1 .. Len(B) : Telling(B[j]) => About(B[j]) # L[k].id
        PROVE  L[k].id \in DOMAIN T2 /\ T2[L[k].id] = L[k].row
    <3>1. \A j \in 1 .. Len(A) : Telling(A[j]) => About(A[j]) # L[k].id
      BY <1>2, <1>3, <2>1
    <3>2. L[k].id \in DOMAIN T /\ T[L[k].id] = L[k].row
      BY <3>1 DEF Sound, EntriesTell
    <3>3. x # L[k].id
      BY <1>2, <1>3, <2>1
    <3> QED
      BY <3>2, <3>3 DEF SameBut
  <2> QED
    BY <2>1 DEF EntriesTell
<1>9. v = "shown" => Counts(B, n, T2)
  BY AppendedCounts DEF Sound
<1> QED
  BY <1>1, <1>6, <1>7, <1>8, <1>9 DEF Sound

\* What a change makes of the table of the desk.
LEMMA ChangedTable ==
  ASSUME TableTypes, NEW d \in Desks, NEW r \in sent[d], NEW a \in AnswerType, NEW id,
         RowChanged(d, r, id), kind' = kind, a.r = r, a.ok = TRUE,
         a.got = IF r.op = "delete" THEN <<>> ELSE <<Entry(id, rows'[kind[d]][id])>>
  PROVE  /\ Telling(a) /\ About(a) = id /\ SameBut(Table(d), Table(d)', id)
         /\ TellsOf(a, Table(d)')
         /\ Cardinality(DOMAIN Table(d)') =
                Cardinality(DOMAIN Table(d)) + (IF Creation(a) THEN 1 ELSE 0)
                                             - (IF Removal(a) THEN 1 ELSE 0)
<1> DEFINE T == Table(d)  T2 == Table(d)'
<1>1. T = rows[kind[d]] /\ T2 = rows'[kind[d]]
  BY DEF Table
<1>2. /\ IsFiniteSet(DOMAIN T) /\ DOMAIN T \subseteq 1 .. born[kind[d]]
      /\ born[kind[d]] \in Nat /\ Cardinality(DOMAIN T) \in Nat
  BY TableIsFinite
<1> HIDE DEF T, T2
<1>3. /\ r.op \in Changes
      /\ IF r.op = "create" THEN id = born[kind[d]] + 1 ELSE id = r.id /\ id \in DOMAIN T
      /\ DOMAIN T2 = IF r.op = "delete" THEN DOMAIN T \ {id} ELSE DOMAIN T \cup {id}
      /\ \A y \in DOMAIN T2 \ {id} : T2[y] = T[y]
      /\ a.got = IF r.op = "delete" THEN <<>> ELSE <<Entry(id, T2[id])>>
  BY <1>1 DEF RowChanged
<1>4. r.op # "delete" => Len(a.got) = 1 /\ a.got # <<>> /\ a.got[1].id = id /\ a.got[1].row = T2[id]
  BY <1>3 DEF Entry
<1>5. Telling(a) /\ About(a) = id
  BY <1>3, <1>4 DEF Telling, About
<1>6. SameBut(T, T2, id)
  BY <1>3 DEF SameBut
<1>7. TellsOf(a, T2)
  BY <1>3, <1>4, <1>5 DEF TellsOf
<1>8. Cardinality(DOMAIN T2) = Cardinality(DOMAIN T) + (IF Creation(a) THEN 1 ELSE 0)
                                                     - (IF Removal(a) THEN 1 ELSE 0)
  <2> DEFINE D == DOMAIN T  D2 == DOMAIN T2
  <2>1. CASE r.op = "create"
    <3>1. Creation(a) /\ ~Removal(a) /\ D2 = D \cup {id}
      BY <1>3, <2>1 DEF Creation, Removal
    <3>2. id \notin D
      BY <1>2, <1>3, <2>1
    <3> HIDE DEF D, D2
    <3>3. Cardinality(D2) = Cardinality(D) + 1
      BY <1>2, <3>1, <3>2, FS_AddElement DEF D
    <3> QED
      BY <1>2, <3>1, <3>3 DEF D, D2
  <2>2. CASE r.op = "delete"
    <3>1. ~Creation(a) /\ Removal(a) /\ D2 = D \ {id} /\ id \in D
      BY <1>3, <2>2 DEF Creation, Removal
    <3> HIDE DEF D, D2
    <3>3. Cardinality(D2) = Cardinality(D) - 1
      BY <1>2, <3>1, FS_RemoveElement DEF D
    <3> QED
      BY <1>2, <3>1, <3>3 DEF D, D2
  <2>3. CASE r.op \notin {"create", "delete"}
    <3>1. ~Creation(a) /\ ~Removal(a) /\ D2 = D \cup {id} /\ id \in D
      BY <1>3, <2>3 DEF Creation, Removal
    <3>2. D2 = D
      BY <3>1
    <3> HIDE DEF D, D2
    <3> QED
      BY <1>2, <3>1, <3>2 DEF D, D2
  <2> QED
    BY <2>1, <2>2, <2>3
<1> QED
  BY <1>5, <1>6, <1>7, <1>8 DEF T, T2

\* A row that is about to be created is known to nobody.
LEMMA NextIsUnknown ==
  ASSUME TableTypes, NEW d \in Desks
  PROVE  Unknown(sent[d], answers[d], list[d], modal[d], born[kind[d]] + 1)
<1> DEFINE b == born[kind[d]]  A == answers[d]  L == list[d]  S == sent[d]
<1>1. Known(S, A, L, modal[d], b) /\ b \in Nat /\ modal[d] \in Int
      /\ S \in SUBSET AskType /\ L \in Seq(EntryType)
  BY DEF TableTypes, CallsType, KnownTo, PageType, RowsType
<1>2. \A i \in 1 .. Len(A) : A[i] \in AnswerType /\ A[i].r \in AskType /\ BringsItsRow(A[i])
                             /\ A[i].got \in Seq(EntryType)
  BY AnswersAre
<1> HIDE DEF b, A, L, S
<1>3. modal[d] # b + 1
  BY <1>1 DEF Known
<1>4. \A k \in 1 .. Len(L) : L[k].id # b + 1
  <2>1. \A k \in 1 .. Len(L) : L[k] \in EntryType
    BY <1>1, ElementOfSeq
  <2>2. \A k \in 1 .. Len(L) : L[k].id \in Nat /\ L[k].id <= b
    BY <1>1, <2>1 DEF Known, EntryType
  <2> QED
    BY <1>1, <2>2
<1>5. \A r \in S : r.op \in Changes => r.id # b + 1
  <2>1. \A r \in S : r.id \in Nat /\ (r.op \in Changes => r.id <= b)
    BY <1>1 DEF Known, AskType
  <2> QED
    BY <1>1, <2>1
<1>6. ASSUME NEW j \in 1 .. Len(A), Telling(A[j]) PROVE About(A[j]) # b + 1
  <2>1. CASE A[j].r.op = "create"
    <3>1. A[j].got # <<>>
      BY <1>6, <2>1 DEF Telling
    <3>2. 1 \in 1 .. Len(A[j].got) /\ A[j].got[1] \in EntryType
      BY <1>2, <3>1
    <3>3. A[j].got[1].id <= b /\ A[j].got[1].id \in Nat
      BY <1>1, <3>2 DEF Known, EntryType
    <3> QED
      BY <1>1, <2>1, <3>3 DEF About
  <2>2. CASE A[j].r.op # "create"
    <3>1. A[j].r.id <= b /\ A[j].r.id \in Nat
      BY <1>1, <1>2, <1>6 DEF Known, Telling, AskType
    <3> QED
      BY <1>1, <2>2, <3>1 DEF About
  <2> QED
    BY <2>1, <2>2
<1> QED
  BY <1>3, <1>4, <1>5, <1>6 DEF Unknown, b, A, L, S

LEMMA CreationsTell ==
  ASSUME TableTypes, NEW d \in Desks, NEW i \in 1 .. Len(answers[d]), Creation(answers[d][i])
  PROVE  /\ Telling(answers[d][i]) /\ Len(answers[d][i].got) = 1
         /\ answers[d][i].got[1] \in EntryType /\ About(answers[d][i]) = answers[d][i].got[1].id
         /\ About(answers[d][i]) \in Nat \ {0}
<1> DEFINE a == answers[d][i]
<1>1. a.r.op = "create" /\ a.ok = TRUE /\ BringsItsRow(a) /\ a.got \in Seq(EntryType)
  BY AnswersAre DEF Creation
<1> HIDE DEF a
<1>2. a.got # <<>> /\ Len(a.got) = 1
  BY <1>1 DEF BringsItsRow, Changes
<1>3. a.got[1] \in EntryType
  BY <1>1, <1>2
<1> QED
  BY <1>1, <1>2, <1>3 DEF Telling, About, Changes, EntryType, a

\* A desk that is undisturbed after a step was so before.
LEMMA UndisturbedBefore ==
  ASSUME TableTypes, TableTypes', kind' = kind, NEW d \in Desks, Undisturbed(d)',
         \A e \in Desks : clicks[e] <= clicks'[e],
         blurred[d] = TRUE => blurred'[d] = TRUE
  PROVE  /\ Undisturbed(d) /\ blurred[d] = FALSE /\ blurred'[d] = FALSE
         /\ \A e \in Desks \ {d} : kind[e] = kind[d] => clicks[e] = 1
<1>1. clicks \in [Desks -> 1 .. MaxClicks] /\ MaxClicks \in Nat
  BY TablesAssumption DEF TableTypes, PageType
<1>2. blurred'[d] = FALSE /\ \A e \in Desks \ {d} : kind[e] = kind[d] => clicks'[e] = 1
  BY DEF Undisturbed, TableTypes, PageType
<1>3. blurred[d] = FALSE
  BY <1>2 DEF TableTypes, PageType
<1>4. \A e \in Desks : clicks[e] \in Int /\ clicks[e] >= 1
  BY <1>1
<1>5. \A e \in Desks \ {d} : kind[e] = kind[d] => clicks[e] = 1
  BY <1>2, <1>4
<1> QED
  BY <1>2, <1>3, <1>5 DEF Undisturbed

\* A desk that does nothing, and whose table stays as it is.
LEMMA OtherDesk ==
  ASSUME TableTypes, TableTypes', NEW e \in Desks, DeskInv(e), kind' = kind,
         \A f \in Desks : clicks[f] <= clicks'[f],
         Undisturbed(e)' => rows'[kind[e]] = rows[kind[e]],
         /\ sent'[e] = sent[e] /\ answers'[e] = answers[e] /\ list'[e] = list[e]
         /\ modal'[e] = modal[e] /\ total'[e] = total[e] /\ view'[e] = view[e]
         /\ blurred'[e] = blurred[e]
  PROVE  DeskInv(e)'
<1> SUFFICES ASSUME Undisturbed(e)'
             PROVE  Sound(sent[e], answers[e], list[e], modal[e], Table(e)', total[e], view[e])
  BY DEF DeskInv
<1>1. Undisturbed(e)
  BY UndisturbedBefore
<1>2. Table(e)' = Table(e)
  BY DEF Table
<1> QED
  BY <1>1, <1>2 DEF DeskInv

LEMMA ServiceKeepsDesks ==
  ASSUME TablesInv, TableTypes', NEW d \in Desks, ServeDesk(d)
  PROVE  \A e \in Desks : DeskInv(e)'
<1>1. TableTypes /\ \A e \in Desks : DeskInv(e)
  BY DEF TablesInv
<1>2. PICK r \in sent[d], a \in AnswerType : Answering(d, r, a)
  BY <1>1, ServingAnswers
<1>3. /\ a.r = r /\ sent' = [sent EXCEPT ![d] = @ \ {r}]
      /\ answers' = [answers EXCEPT ![d] = Append(@, a)]
      /\ UNCHANGED <<kind, list, page, total, view, modal, form, saving, deleting, clicks>>
      /\ QuietAnswer(d, r, a) \/ ChangeAnswer(d, r, a)
  BY <1>2 DEF Answering, tables_form
<1>4. /\ sent \in [Desks -> SUBSET AskType] /\ answers \in [Desks -> Seq(AnswerType)]
      /\ blurred \in [Desks -> BOOLEAN] /\ clicks \in [Desks -> 1 .. MaxClicks]
      /\ kind \in [Desks -> Tables] /\ total \in [Desks -> Int]
  BY <1>1 DEF TableTypes, CallsType, PageType
<1>5. \A e \in Desks : clicks[e] <= clicks'[e]
  BY <1>3, <1>4
<1>6. ASSUME NEW e \in Desks \ {d} PROVE DeskInv(e)'
  <2>1. /\ sent'[e] = sent[e] /\ answers'[e] = answers[e] /\ list'[e] = list[e]
        /\ modal'[e] = modal[e] /\ total'[e] = total[e] /\ view'[e] = view[e]
    BY <1>3, <1>4
  <2>2. CASE QuietAnswer(d, r, a)
    <3>1. rows' = rows /\ blurred' = blurred
      BY <2>2 DEF QuietAnswer
    <3> QED
      BY <1>1, <1>3, <1>5, <2>1, <3>1, OtherDesk
  <2>3. CASE ChangeAnswer(d, r, a)
    <3>1. PICK id : RowChanged(d, r, id)
                    /\ (blurred' = blurred \/ blurred' = [blurred EXCEPT ![d] = TRUE])
      BY <2>3 DEF ChangeAnswer
    <3>2. blurred'[e] = blurred[e]
      BY <1>4, <3>1
    <3>3. Undisturbed(e)' => rows'[kind[e]] = rows[kind[e]]
      <4> SUFFICES ASSUME Undisturbed(e)' PROVE rows'[kind[e]] = rows[kind[e]]
        OBVIOUS
      <4>1. kind[d] = kind[e] => clicks[d] = 1
        BY <1>1, <1>3, <1>5, <3>2, UndisturbedBefore
      <4>2. clicks[d] = 1 => r.op = "load"
        BY <1>1 DEF TableTypes, CallsType
      <4>3. r.op # "load"
        BY <3>1 DEF RowChanged, Changes
      <4>4. kind[e] \in Tables \ {kind[d]}
        BY <1>4, <4>1, <4>2, <4>3
      <4> QED
        BY <3>1, <4>4 DEF RowChanged
    <3> QED
      BY <1>1, <1>3, <1>5, <2>1, <3>2, <3>3, OtherDesk
  <2> QED
    BY <1>3, <2>2, <2>3
<1>7. DeskInv(d)'
  <2> DEFINE S == sent[d]  A == answers[d]  B == Append(A, a)  L == list[d]  m == modal[d]
             T == Table(d)  T2 == Table(d)'  n == total[d]  v == view[d]
  <2> SUFFICES ASSUME Undisturbed(d)' PROVE Sound(S \ {r}, B, L, m, T2, n, v)
    BY <1>3, <1>4 DEF DeskInv
  <2>1. blurred[d] = TRUE => blurred'[d] = TRUE
    BY <1>3, <1>4 DEF QuietAnswer, ChangeAnswer
  <2>2. Undisturbed(d) /\ blurred'[d] = FALSE
    BY <1>1, <1>3, <1>5, <2>1, UndisturbedBefore
  <2>3. Sound(S, A, L, m, T, n, v) /\ n \in Int
    BY <1>1, <1>4, <2>2 DEF DeskInv
  <2>4. Appended(A, B, a)
    <3>1. A \in Seq(AnswerType)
      BY <1>4
    <3> HIDE DEF A
    <3> QED
      BY <3>1, AppendProperties DEF Appended
  <2>5. Cardinality(DOMAIN T) \in Nat
    BY <1>1, TableIsFinite
  <2>6. CASE QuietAnswer(d, r, a)
    <3>1. T2 = T
      BY <1>3, <2>6 DEF QuietAnswer, Table
    <3>2. ~Telling(a) /\ ~Creation(a)
          /\ (r.op = "load" /\ a.ok = TRUE => ListsRows(a.got, T) /\ a.total = Cardinality(DOMAIN T))
      BY <1>3, <2>6 DEF QuietAnswer, Creation
    <3>3. r \in S
      OBVIOUS
    <3> HIDE DEF S, A, B, L, m, T, T2, n, v
    <3> QED
      BY <1>3, <2>3, <2>4, <2>5, <3>1, <3>2, <3>3, QuietIsSound
  <2>7. CASE ChangeAnswer(d, r, a)
    <3>1. PICK id :
            /\ RowChanged(d, r, id)
            /\ \/ /\ a.ok = TRUE /\ blurred' = blurred
                  /\ a.got = IF r.op = "delete" THEN <<>> ELSE <<Entry(id, rows'[kind[d]][id])>>
               \/ /\ a.ok = FALSE /\ a.got = <<>> /\ blurred' = [blurred EXCEPT ![d] = TRUE]
      BY <2>7 DEF ChangeAnswer
    <3>2. a.ok = TRUE
          /\ a.got = IF r.op = "delete" THEN <<>> ELSE <<Entry(id, rows'[kind[d]][id])>>
      BY <1>4, <2>2, <3>1
    <3>3. /\ Telling(a) /\ About(a) = id /\ SameBut(T, T2, id) /\ TellsOf(a, T2)
          /\ Cardinality(DOMAIN T2) = Cardinality(DOMAIN T) + (IF Creation(a) THEN 1 ELSE 0)
                                                            - (IF Removal(a) THEN 1 ELSE 0)
      BY <1>1, <1>3, <3>1, <3>2, ChangedTable
    <3>4. r.op = "create" => Unknown(S, A, L, m, id)
      BY <1>1, <3>1, NextIsUnknown DEF RowChanged
    <3>5. \A i \in 1 .. Len(A) : Creation(A[i]) => Telling(A[i])
      BY <1>1, CreationsTell
    <3>6. r \in S /\ r.op \in Changes
      BY <3>1 DEF RowChanged
    <3> HIDE DEF S, A, B, L, m, T, T2, n, v
    <3> QED
      BY <1>3, <2>3, <2>4, <2>5, <3>3, <3>4, <3>5, <3>6, ChangeIsSound
  <2> QED
    BY <1>3, <2>6, <2>7
<1> QED
  BY <1>6, <1>7

----------------------------------------------------------------------------
(* A desk that works alone: answers and clicks. *)

\* The sequence B is A without its i-th answer.
Place(i, j) == IF j < i THEN j ELSE j + 1
Taken(A, B, i) ==
    /\ Len(A) \in Nat /\ i \in 1 .. Len(A) /\ Len(B) = Len(A) - 1
    /\ \A j \in 1 .. Len(B) : B[j] = A[Place(i, j)]

LEMMA TakenAt ==
  ASSUME NEW N \in Nat, NEW i \in 1 .. N
  PROVE  /\ \A j \in 1 .. N - 1 : Place(i, j) \in 1 .. N \ {i}
         /\ \A p \in 1 .. N \ {i} : \E j \in 1 .. N - 1 : Place(i, j) = p
         /\ \A j, k \in 1 .. N - 1 : j < k <=> Place(i, j) < Place(i, k)
         /\ \A j, k \in 1 .. N - 1 : Place(i, j) = Place(i, k) => j = k
<1>1. \A j \in 1 .. N - 1 : Place(i, j) \in 1 .. N \ {i}
  BY DEF Place
<1>2. ASSUME NEW p \in 1 .. N \ {i} PROVE \E j \in 1 .. N - 1 : Place(i, j) = p
  <2>1. CASE p < i
    BY <2>1 DEF Place
  <2>2. CASE ~(p < i)
    <3>1. p - 1 \in 1 .. N - 1 /\ Place(i, p - 1) = p
      BY <2>2 DEF Place
    <3> QED
      BY <3>1
  <2> QED
    BY <2>1, <2>2
<1>3. \A j, k \in 1 .. N - 1 : j < k <=> Place(i, j) < Place(i, k)
  BY DEF Place
<1>4. \A j, k \in 1 .. N - 1 : Place(i, j) = Place(i, k) => j = k
  BY DEF Place
<1> QED
  BY <1>1, <1>2, <1>3, <1>4

\* The places in C, after the i-th of N was taken.
Moved(N, i, C) == {j \in 1 .. N - 1 : Place(i, j) \in C}

\* As many of them are counted as before, without the one that was taken.
LEMMA TakenCounted ==
  ASSUME NEW N \in Nat, NEW i \in 1 .. N, NEW C \in SUBSET (1 .. N)
  PROVE  /\ Cardinality(C) \in Nat
         /\ Cardinality(Moved(N, i, C)) = Cardinality(C) - IF i \in C THEN 1 ELSE 0
<1> DEFINE C2 == Moved(N, i, C)  R == C \ {i}
           f == [j \in C2 |-> Place(i, j)]
<1>1. IsFiniteSet(1 .. N)
  BY FS_Interval
<1>2. IsFiniteSet(C) /\ Cardinality(C) \in Nat
  BY <1>1, FS_Subset, FS_CardinalityType, Zenon
<1>3. IsFiniteSet(R) /\ Cardinality(R) = Cardinality(C) - IF i \in C THEN 1 ELSE 0
  <2>1. CASE i \in C
    BY <1>2, <2>1, FS_RemoveElement
  <2>2. CASE i \notin C
    <3>1. R = C
      BY <2>2
    <3> HIDE DEF R
    <3> QED
      BY <1>2, <2>2, <3>1
  <2> QED
    BY <2>1, <2>2
<1>4. \A j \in C2 : Place(i, j) \in R /\ j \in 1 .. N - 1
  BY TakenAt DEF Moved
<1>5. \A p \in R : \E j \in C2 : Place(i, j) = p
  <2> SUFFICES ASSUME NEW p \in R PROVE \E j \in C2 : Place(i, j) = p
    OBVIOUS
  <2>1. p \in 1 .. N \ {i} /\ p \in C
    OBVIOUS
  <2>2. PICK j \in 1 .. N - 1 : Place(i, j) = p
    BY <2>1, TakenAt
  <2> QED
    BY <2>1, <2>2 DEF Moved
<1> HIDE DEF C2, R
<1>6. f \in [C2 -> R] /\ (\A j \in C2 : f[j] = Place(i, j))
  BY <1>4
<1>7. \A j, k \in C2 : f[j] = f[k] => j = k
  <2>1. \A j, k \in 1 .. N - 1 : Place(i, j) = Place(i, k) => j = k
    BY TakenAt
  <2> HIDE DEF f
  <2> QED
    BY <1>4, <1>6, <2>1
<1>8. \A p \in R : \E j \in C2 : f[j] = p
  BY <1>5, <1>6
<1>9. f \in Bijection(C2, R)
  BY <1>6, <1>7, <1>8 DEF Bijection, Injection, Surjection, IsInjective
<1>10. Cardinality(C2) = Cardinality(R)
  <2> HIDE DEF f
  <2>1. IsFiniteSet(C2) /\ ExistsBijection(C2, R)
    <3>1. IsFiniteSet(1 .. N - 1)
      BY FS_Interval
    <3>2. C2 \in SUBSET (1 .. N - 1)
      BY <1>4
    <3> QED
      BY <1>9, <3>1, <3>2, FS_Subset, Zenon DEF ExistsBijection
  <2> QED
    BY <2>1, FS_Bijection, Zenon
<1> QED
  BY <1>2, <1>3, <1>10 DEF C2

LEMMA TakenCounts ==
  ASSUME NEW A, NEW B, NEW i, Taken(A, B, i), NEW n \in Int, NEW T,
         NEW n2, n2 = n + (IF Creation(A[i]) THEN 1 ELSE 0) - (IF Removal(A[i]) THEN 1 ELSE 0),
         Counts(A, n, T), Cardinality(DOMAIN T) \in Nat
  PROVE  Counts(B, n2, T)
<1> DEFINE N == Len(A)
           C == {j \in 1 .. N : Creation(A[j])}  C2 == {j \in 1 .. Len(B) : Creation(B[j])}
           R == {j \in 1 .. N : Removal(A[j])}  R2 == {j \in 1 .. Len(B) : Removal(B[j])}
<1>1. N \in Nat /\ i \in 1 .. N /\ Len(B) = N - 1 /\ \A j \in 1 .. Len(B) : B[j] = A[Place(i, j)]
  BY DEF Taken
<1>2. \A j \in 1 .. N - 1 : Place(i, j) \in 1 .. N
  BY <1>1, TakenAt
<1>3. C2 = Moved(N, i, C)
  BY <1>1, <1>2 DEF Moved
<1>4. R2 = Moved(N, i, R)
  BY <1>1, <1>2 DEF Moved
<1>5. C \in SUBSET (1 .. N) /\ R \in SUBSET (1 .. N)
  OBVIOUS
<1>6. (i \in C <=> Creation(A[i])) /\ (i \in R <=> Removal(A[i]))
  BY <1>1
<1>7. n + Cardinality(C) - Cardinality(R) = Cardinality(DOMAIN T)
  BY DEF Counts
<1> HIDE DEF N, C, C2, R, R2
<1>8. /\ Cardinality(C) \in Nat
      /\ Cardinality(C2) = Cardinality(C) - IF i \in C THEN 1 ELSE 0
      /\ Cardinality(R) \in Nat
      /\ Cardinality(R2) = Cardinality(R) - IF i \in R THEN 1 ELSE 0
  BY <1>1, <1>3, <1>4, <1>5, TakenCounted
<1>9. n2 + Cardinality(C2) - Cardinality(R2) = Cardinality(DOMAIN T)
  BY <1>6, <1>7, <1>8
<1> QED
  BY <1>9 DEF Counts, C2, R2

\* What is known of the answers under way: a creation brings its row.
Proper(A) ==
    \A i \in 1 .. Len(A) :
        /\ A[i] \in AnswerType /\ BringsItsRow(A[i])
        /\ Creation(A[i]) => /\ Telling(A[i]) /\ Len(A[i].got) = 1 /\ A[i].got[1] \in EntryType
                             /\ About(A[i]) = A[i].got[1].id /\ About(A[i]) \in Nat \ {0}

LEMMA AnswersAreProper ==
  ASSUME TableTypes, NEW d \in Desks
  PROVE  Proper(answers[d])
BY AnswersAre, CreationsTell DEF Proper

\* An answer that overtakes no other with its id overtakes none about its row.
LEMMA EarlierIsOther ==
  ASSUME NEW asks, NEW A, NEW L, NEW m, NewToAll(asks, A, L, m),
         NEW i \in 1 .. Len(A), Len(A) \in Nat,
         \A j \in 1 .. i - 1 : A[j].r.id # A[i].r.id,
         Telling(A[i]), NEW p \in 1 .. i - 1, Telling(A[p])
  PROVE  About(A[p]) # About(A[i])
<1>1. p \in 1 .. Len(A) \ {i} /\ i \in 1 .. Len(A) \ {p}
  OBVIOUS
<1>2. CASE A[p].r.op = "create"
  <2>1. Creation(A[p])
    BY <1>2 DEF Creation, Telling
  <2> QED
    BY <1>1, <2>1 DEF NewToAll
<1>3. CASE A[i].r.op = "create"
  <2>1. Creation(A[i])
    BY <1>3 DEF Creation, Telling
  <2> QED
    BY <1>1, <2>1 DEF NewToAll
<1>4. CASE A[p].r.op # "create" /\ A[i].r.op # "create"
  BY <1>4 DEF About
<1> QED
  BY <1>2, <1>3, <1>4

\* What an answer that is no load makes of a list: its row where that row was, or in front,
\* and other entries as they were.
LEMMA EntriesOfNewList ==
  ASSUME NEW a \in AnswerType, BringsItsRow(a), a.r.op \in Changes, NEW L \in Seq(EntryType),
         Creation(a) => /\ Telling(a) /\ Len(a.got) = 1 /\ About(a) = a.got[1].id
                        /\ \A k \in 1 .. Len(L) : L[k].id # About(a),
         OnceListed(L)
  PROVE  /\ OnceListed(NewList(a, L))
         /\ \A k \in 1 .. Len(NewList(a, L)) :
               \/ /\ Telling(a) /\ a.r.op # "delete" /\ NewList(a, L)[k] = a.got[1]
                  /\ NewList(a, L)[k].id = About(a)
               \/ \E j \in 1 .. Len(L) : /\ NewList(a, L)[k] = L[j]
                                         /\ Telling(a) => L[j].id # About(a)
<1> DEFINE M == NewList(a, L)
           Own(k) == Telling(a) /\ a.r.op # "delete" /\ M[k] = a.got[1] /\ M[k].id = About(a)
           Old(k) == \E j \in 1 .. Len(L) : M[k] = L[j] /\ (Telling(a) => L[j].id # About(a))
<1>1. /\ a.got \in Seq(EntryType) /\ Len(L) \in Nat /\ Len(a.got) \in Nat
      /\ a.ok = TRUE \/ a.ok = FALSE
  BY DEF AnswerType
<1>2. CASE a.ok = FALSE
  <2>1. M = L /\ ~Telling(a)
    BY <1>2 DEF NewList, Telling
  <2> QED
    BY <2>1
<1>3. CASE a.ok = TRUE /\ a.r.op = "create"
  <2>1. M = a.got \o L /\ Creation(a)
    BY <1>3 DEF NewList, Creation
  <2>2. Telling(a) /\ Len(a.got) = 1 /\ About(a) = a.got[1].id
        /\ \A k \in 1 .. Len(L) : L[k].id # About(a)
    BY <2>1
  <2> HIDE DEF M
  <2>3. Len(M) = Len(L) + 1 /\ M[1] = a.got[1] /\ \A k \in 2 .. Len(L) + 1 : M[k] = L[k - 1]
    <3>1. /\ Len(M) = Len(a.got) + Len(L)
          /\ \A k \in 1 .. Len(a.got) + Len(L) :
                M[k] = IF k <= Len(a.got) THEN a.got[k] ELSE L[k - Len(a.got)]
      BY <1>1, <2>1, ConcatProperties, Zenon
    <3> QED
      BY <1>1, <2>2, <3>1
  <2>4. ASSUME NEW k \in 1 .. Len(M) PROVE (k = 1 /\ Own(k)) \/ (k # 1 /\ Old(k))
    <3>1. CASE k = 1
      BY <1>3, <2>2, <2>3, <3>1
    <3>2. CASE k # 1
      <4>1. k - 1 \in 1 .. Len(L) /\ M[k] = L[k - 1]
        BY <1>1, <2>3, <3>2
      <4> QED
        BY <2>2, <3>2, <4>1
    <3> QED
      BY <3>1, <3>2
  <2>5. OnceListed(M)
    <3> SUFFICES ASSUME NEW k \in 1 .. Len(M), NEW l \in 1 .. Len(M), M[k].id = M[l].id
                 PROVE  k = l
      BY DEF OnceListed
    <3>1. CASE k = 1 \/ l = 1
      BY <2>2, <2>4, <3>1
    <3>2. CASE k # 1 /\ l # 1
      <4>1. k - 1 \in 1 .. Len(L) /\ M[k] = L[k - 1] /\ l - 1 \in 1 .. Len(L) /\ M[l] = L[l - 1]
        BY <1>1, <2>3, <3>2
      <4>2. k - 1 = l - 1
        BY <4>1 DEF OnceListed
      <4> QED
        BY <4>2
    <3> QED
      BY <3>1, <3>2
  <2> QED
    BY <2>4, <2>5 DEF M
<1>4. CASE a.ok = TRUE /\ a.r.op = "delete"
  <2>1. M = Without(L, a.r.id) /\ About(a) = a.r.id
    BY <1>4 DEF NewList, About
  <2> HIDE DEF M
  <2>2. PICK p \in [1 .. Len(M) -> 1 .. Len(L)] :
           /\ \A i, j \in 1 .. Len(M) : p[i] = p[j] => i = j
           /\ \A j \in 1 .. Len(M) : M[j] = L[p[j]] /\ L[p[j]].id # a.r.id
    BY <2>1, WithoutIsPart
  <2>3. \A k \in 1 .. Len(M) : Old(k)
    BY <2>1, <2>2
  <2>4. OnceListed(M)
    BY <2>2 DEF OnceListed
  <2> QED
    BY <2>3, <2>4 DEF M
<1>5. CASE a.ok = TRUE /\ a.r.op \in {"save", "switch"}
  <2>1. M = WithRow(L, a.got) /\ About(a) = a.r.id /\ (Telling(a) <=> a.got # <<>>)
        /\ (a.got # <<>> => a.got[1].id = About(a)) /\ a.r.op # "delete"
    BY <1>5 DEF NewList, About, Telling, BringsItsRow, Changes
  <2> HIDE DEF M
  <2>2. /\ Len(M) = Len(L)
        /\ \A k \in 1 .. Len(L) :
              /\ M[k].id = L[k].id
              /\ IF a.got # <<>> /\ L[k].id = a.got[1].id THEN M[k] = a.got[1] ELSE M[k] = L[k]
    <3>1. /\ Len(WithRow(L, a.got)) = Len(L)
          /\ \A k \in 1 .. Len(L) :
                /\ WithRow(L, a.got)[k].id = L[k].id
                /\ IF a.got # <<>> /\ L[k].id = a.got[1].id
                   THEN WithRow(L, a.got)[k] = a.got[1] ELSE WithRow(L, a.got)[k] = L[k]
      BY <1>1, WithRowIs
    <3> QED
      BY <2>1, <3>1
  <2>3. \A k \in 1 .. Len(M) : Own(k) \/ Old(k)
    BY <2>1, <2>2
  <2>4. OnceListed(M)
    BY <2>2 DEF OnceListed
  <2> QED
    BY <2>3, <2>4 DEF M
<1> QED
  BY <1>1, <1>2, <1>3, <1>4, <1>5 DEF Changes

\* The answer to a load is the only one, and nothing else is under way.
LEMMA LoadIsSound ==
  ASSUME NEW asks, NEW A, NEW B, NEW L \in Seq(EntryType), NEW m, NEW m2, NEW T, NEW n, NEW v,
         NEW i, Taken(A, B, i), Proper(A), Sound(asks, A, L, m, T, n, v), A[i].r.op = "load",
         NEW w, w = IF A[i].ok = TRUE THEN "shown" ELSE "error"
  PROVE  Sound(asks, B, NewList(A[i], L), m2, T, NewTotal(A[i], n), w)
<1> DEFINE a == A[i]
<1>1. i \in 1 .. Len(A) /\ Len(A) \in Nat /\ Len(B) = Len(A) - 1
  BY DEF Taken
<1>2. asks = {} /\ Len(A) = 1 /\ Len(B) = 0
      /\ (a.ok = TRUE => ListsRows(a.got, T) /\ a.total = Cardinality(DOMAIN T))
  BY <1>1 DEF Sound, LoadsAlone
<1>3. a.r.op = "load" /\ a \in AnswerType
  BY <1>1 DEF Proper
<1>4. a.ok = TRUE \/ a.ok = FALSE
  BY <1>3 DEF AnswerType
<1>5. 1 .. Len(B) = {}
  BY <1>2
<1> HIDE DEF a
<1>6. LoadsAlone(asks, B, T) /\ NewToAll(asks, B, NewList(a, L), m2) /\ LastTells(B, T)
  BY <1>2, <1>5 DEF LoadsAlone, NewToAll, LastTells
<1>7. OnceListed(NewList(a, L)) /\ EntriesTell(B, NewList(a, L), T)
  <2>1. CASE a.ok = TRUE
    <3>1. NewList(a, L) = a.got
      BY <1>3, <2>1 DEF NewList
    <3> QED
      BY <1>2, <2>1, <3>1 DEF ListsRows, OnceListed, EntriesTell
  <2>2. CASE a.ok = FALSE
    <3>1. NewList(a, L) = L
      BY <2>2 DEF NewList
    <3>2. \A j \in 1 .. Len(A) : j = i
      BY <1>1, <1>2
    <3>3. ~Telling(A[i])
      BY <1>3 DEF Telling, Changes, a
    <3>4. \A k \in 1 .. Len(L) : L[k].id \in DOMAIN T /\ T[L[k].id] = L[k].row
      BY <3>2, <3>3 DEF Sound, EntriesTell
    <3> QED
      BY <3>1, <3>4 DEF Sound, EntriesTell
  <2> QED
    BY <1>4, <2>1, <2>2
<1>8. w = "shown" => Counts(B, NewTotal(a, n), T)
  <2> SUFFICES ASSUME w = "shown" PROVE Counts(B, NewTotal(a, n), T)
    OBVIOUS
  <2>1. a.ok = TRUE
    BY DEF a
  <2>2. NewTotal(a, n) = Cardinality(DOMAIN T)
    BY <1>2, <1>3, <2>1 DEF NewTotal
  <2>3. /\ {j \in 1 .. Len(B) : Creation(B[j])} = {}
        /\ {j \in 1 .. Len(B) : Removal(B[j])} = {}
    BY <1>5
  <2>4. a.total \in Nat
    BY <1>3 DEF AnswerType
  <2> QED
    BY <1>2, <2>1, <2>2, <2>3, <2>4, FS_EmptySet DEF Counts
<1> QED
  BY <1>6, <1>7, <1>8 DEF Sound, a

\* The answer to a change is worked into the list.
LEMMA ChangeIsWorkedIn ==
  ASSUME NEW asks, NEW A, NEW B, NEW L \in Seq(EntryType), NEW m, NEW m2, NEW T, NEW n \in Int,
         NEW v, NEW i, Taken(A, B, i), Proper(A), Sound(asks, A, L, m, T, n, v),
         A[i].r.op \in Changes, \A j \in 1 .. i - 1 : A[j].r.id # A[i].r.id,
         m2 \in {m, -1}, Cardinality(DOMAIN T) \in Nat
  PROVE  Sound(asks, B, NewList(A[i], L), m2, T, NewTotal(A[i], n), v)
<1> DEFINE a == A[i]  M == NewList(a, L)
<1>1. /\ Len(A) \in Nat /\ i \in 1 .. Len(A) /\ Len(B) = Len(A) - 1
      /\ \A j \in 1 .. Len(B) : B[j] = A[Place(i, j)]
  BY DEF Taken
<1>2. /\ \A j \in 1 .. Len(B) : Place(i, j) \in 1 .. Len(A) \ {i}
      /\ \A p \in 1 .. Len(A) \ {i} : \E j \in 1 .. Len(B) : Place(i, j) = p
      /\ \A j, k \in 1 .. Len(B) : j < k <=> Place(i, j) < Place(i, k)
  <2> DEFINE N == Len(A)
  <2>1. N \in Nat /\ i \in 1 .. N /\ Len(B) = N - 1
    BY <1>1
  <2> HIDE DEF N
  <2>2. /\ \A j \in 1 .. N - 1 : Place(i, j) \in 1 .. N \ {i}
        /\ \A p \in 1 .. N \ {i} : \E j \in 1 .. N - 1 : Place(i, j) = p
        /\ \A j, k \in 1 .. N - 1 : j < k <=> Place(i, j) < Place(i, k)
    BY <2>1, TakenAt
  <2> QED
    BY <2>1, <2>2 DEF N
<1>3. /\ a \in AnswerType /\ BringsItsRow(a) /\ a.r.op \in Changes
      /\ Creation(a) => /\ Telling(a) /\ Len(a.got) = 1 /\ About(a) = a.got[1].id
  BY <1>1 DEF Proper
<1>4. NewToAll(asks, A, L, m) /\ LoadsAlone(asks, A, T) /\ OnceListed(L) /\ LastTells(A, T)
      /\ EntriesTell(A, L, T)
  BY DEF Sound
<1>5. Creation(a) => \A k \in 1 .. Len(L) : L[k].id # About(a)
  BY <1>1, <1>4 DEF NewToAll
<1>6. \A j \in 1 .. Len(A) : Creation(A[j]) => Telling(A[j]) /\ About(A[j]) \in Nat \ {0}
  BY DEF Proper
<1>7. ASSUME Telling(a), NEW p \in 1 .. i - 1, Telling(A[p]) PROVE About(A[p]) # About(a)
  BY <1>1, <1>4, <1>7, EarlierIsOther
<1> HIDE DEF a, M
<1>8. /\ OnceListed(M)
      /\ \A k \in 1 .. Len(M) :
            \/ Telling(a) /\ a.r.op # "delete" /\ M[k] = a.got[1] /\ M[k].id = About(a)
            \/ \E j \in 1 .. Len(L) : M[k] = L[j] /\ (Telling(a) => L[j].id # About(a))
  BY <1>3, <1>4, <1>5, EntriesOfNewList DEF M
<1>9. LoadsAlone(asks, B, T)
  <2>1. a.r.op # "load"
    BY <1>3 DEF Changes
  <2>2. \A j \in 1 .. Len(A) : A[j].r.op # "load"
    <3> SUFFICES ASSUME NEW j \in 1 .. Len(A), A[j].r.op = "load" PROVE FALSE
      OBVIOUS
    <3>1. Len(A) = 1
      BY <1>4 DEF LoadsAlone
    <3>2. j = i
      BY <1>1, <3>1
    <3> QED
      BY <2>1, <3>2 DEF a
  <2>3. \A r \in asks : r.op # "load"
    <3> SUFFICES ASSUME NEW r \in asks, r.op = "load" PROVE FALSE
      OBVIOUS
    <3>1. Len(A) = 0
      BY <1>4 DEF LoadsAlone
    <3> QED
      BY <1>1, <3>1
  <2>4. \A j \in 1 .. Len(B) : B[j].r.op # "load"
    BY <1>1, <1>2, <2>2
  <2> QED
    BY <2>3, <2>4 DEF LoadsAlone
<1>10. NewToAll(asks, B, M, m2)
  <2> SUFFICES ASSUME NEW j \in 1 .. Len(B), Creation(B[j])
               PROVE  /\ m2 # About(B[j])
                      /\ \A k \in 1 .. Len(M) : M[k].id # About(B[j])
                      /\ \A r \in asks : r.op \in Changes => r.id # About(B[j])
                      /\ \A l \in 1 .. Len(B) \ {j} :
                            Telling(B[l]) => About(B[l]) # About(B[j])
    BY DEF NewToAll
  <2> DEFINE p == Place(i, j)
  <2>1. p \in 1 .. Len(A) \ {i} /\ B[j] = A[p]
    BY <1>1, <1>2
  <2>2. Creation(A[p]) /\ About(A[p]) \in Nat \ {0}
    BY <1>6, <2>1
  <2>3. /\ m # About(A[p]) /\ \A k \in 1 .. Len(L) : L[k].id # About(A[p])
        /\ \A r \in asks : r.op \in Changes => r.id # About(A[p])
        /\ \A q \in 1 .. Len(A) \ {p} : Telling(A[q]) => About(A[q]) # About(A[p])
    BY <1>4, <2>1, <2>2 DEF NewToAll
  <2>4. m2 # About(A[p])
    <3>1. -1 \notin Nat
      OBVIOUS
    <3> QED
      BY <2>2, <2>3, <3>1
  <2>5. \A k \in 1 .. Len(M) : M[k].id # About(A[p])
    <3>1. Telling(a) => About(a) # About(A[p])
      BY <1>1, <2>1, <2>3 DEF a
    <3> QED
      BY <1>8, <2>3, <3>1
  <2>6. \A l \in 1 .. Len(B) \ {j} : Telling(B[l]) => About(B[l]) # About(A[p])
    <3> SUFFICES ASSUME NEW l \in 1 .. Len(B) \ {j}, Telling(B[l]) PROVE About(B[l]) # About(A[p])
      OBVIOUS
    <3>1. Place(i, l) \in 1 .. Len(A) \ {p} /\ B[l] = A[Place(i, l)]
      BY <1>1, <1>2, SMTT(30)
    <3> QED
      BY <2>3, <3>1
  <2> QED
    BY <2>1, <2>3, <2>4, <2>5, <2>6
<1>11. LastTells(B, T)
  <2> SUFFICES ASSUME NEW j \in 1 .. Len(B), Telling(B[j]),
                      \A l \in j + 1 .. Len(B) : Telling(B[l]) => About(B[l]) # About(B[j])
               PROVE  TellsOf(B[j], T)
    BY DEF LastTells
  <2> DEFINE p == Place(i, j)
  <2>1. p \in 1 .. Len(A) \ {i} /\ B[j] = A[p]
    BY <1>1, <1>2
  <2>2. ASSUME NEW q \in p + 1 .. Len(A), Telling(A[q]) PROVE About(A[q]) # About(A[p])
    <3>1. CASE q = i
      <4>1. p \in 1 .. i - 1
        BY <1>1, <2>1, <3>1
      <4> QED
        BY <1>7, <2>1, <2>2, <3>1, <4>1 DEF a
    <3>2. CASE q # i
      <4>1. q \in 1 .. Len(A) \ {i}
        BY <1>1, <2>1, <3>2
      <4>2. PICK l \in 1 .. Len(B) : Place(i, l) = q
        BY <1>2, <4>1
      <4>3. j < l
        BY <1>1, <1>2, <2>1, <4>2
      <4>4. l \in j + 1 .. Len(B)
        BY <1>1, <4>3
      <4> QED
        BY <1>1, <2>1, <2>2, <4>2, <4>4
    <3> QED
      BY <3>1, <3>2
  <2>3. TellsOf(A[p], T)
    <3>1. p \in 1 .. Len(A) /\ Telling(A[p])
      BY <2>1
    <3> HIDE DEF p
    <3> QED
      BY <1>4, <2>2, <3>1 DEF LastTells
  <2> QED
    BY <2>1, <2>3
<1>12. EntriesTell(B, M, T)
  <2> SUFFICES ASSUME NEW k \in 1 .. Len(M),
                      \A l \in 1 .. Len(B) : Telling(B[l]) => About(B[l]) # M[k].id
               PROVE  M[k].id \in DOMAIN T /\ T[M[k].id] = M[k].row
    BY DEF EntriesTell
  <2>1. \A p \in 1 .. Len(A) \ {i} : Telling(A[p]) => About(A[p]) # M[k].id
    BY <1>1, <1>2
  <2>2. CASE Telling(a) /\ a.r.op # "delete" /\ M[k] = a.got[1] /\ M[k].id = About(a)
    <3>1. \A p \in i + 1 .. Len(A) : Telling(A[p]) => About(A[p]) # About(A[i])
      <4>1. \A p \in i + 1 .. Len(A) : p \in 1 .. Len(A) \ {i}
        BY <1>1
      <4> QED
        BY <2>1, <2>2, <4>1 DEF a
    <3>2. TellsOf(a, T)
      BY <1>1, <1>4, <2>2, <3>1 DEF LastTells, a
    <3> QED
      BY <2>2, <3>2 DEF TellsOf
  <2>3. CASE \E j \in 1 .. Len(L) : M[k] = L[j] /\ (Telling(a) => L[j].id # About(a))
    <3>1. PICK j \in 1 .. Len(L) : M[k] = L[j] /\ (Telling(a) => L[j].id # About(a))
      BY <2>3
    <3>2. \A p \in 1 .. Len(A) : Telling(A[p]) => About(A[p]) # L[j].id
      BY <2>1, <3>1 DEF a
    <3> QED
      BY <1>4, <3>1, <3>2 DEF EntriesTell
  <2> QED
    BY <1>8, <2>2, <2>3
<1>13. v = "shown" => Counts(B, NewTotal(a, n), T)
  <2> SUFFICES ASSUME v = "shown" PROVE Counts(B, NewTotal(a, n), T)
    OBVIOUS
  <2>1. Counts(A, n, T)
    BY DEF Sound
  <2>2. NewTotal(a, n) = n + (IF Creation(a) THEN 1 ELSE 0) - (IF Removal(a) THEN 1 ELSE 0)
    <3>1. a.ok = TRUE \/ a.ok = FALSE
      BY <1>3 DEF AnswerType
    <3> QED
      BY <1>3, <3>1, SMTT(30) DEF NewTotal, Creation, Removal, Changes
  <2> QED
    BY <2>1, <2>2, TakenCounts DEF a
<1> QED
  BY <1>8, <1>9, <1>10, <1>11, <1>12, <1>13 DEF Sound, M, a

LEMMA PageKeepsDesks ==
  ASSUME TablesInv, TableTypes', NEW d \in Desks, ReceiveDesk(d)
  PROVE  \A e \in Desks : DeskInv(e)'
<1>1. TableTypes /\ \A e \in Desks : DeskInv(e)
  BY DEF TablesInv
<1>2. PICK i \in 1 .. Len(answers[d]) : Receiving(d, i, answers[d][i])
  BY <1>1, ReceivingReceives
<1> DEFINE A == answers[d]  a == A[i]  B == RemoveAt(A, i)  L == list[d]  S == sent[d]
           T == Table(d)  m == modal[d]  m2 == modal'[d]  n == total[d]  v == view[d]
           v2 == IF a.r.op # "load" THEN v ELSE IF a.ok = TRUE THEN "shown" ELSE "error"
<1>3. /\ answers' = [answers EXCEPT ![d] = B] /\ list' = [list EXCEPT ![d] = NewList(a, L)]
      /\ total' = [total EXCEPT ![d] = NewTotal(a, n)] /\ view' = [view EXCEPT ![d] = v2]
      /\ modal' = modal \/ modal' = [modal EXCEPT ![d] = -1]
      /\ UNCHANGED <<kind, rows, born, page, sent, clicks, form>>
      /\ blurred' = [blurred EXCEPT ![d] = @ \/ \E j \in 1 .. i - 1 : A[j].r.id = a.r.id]
  BY <1>2 DEF Receiving
<1>4. /\ sent \in [Desks -> SUBSET AskType] /\ answers \in [Desks -> Seq(AnswerType)]
      /\ blurred \in [Desks -> BOOLEAN] /\ clicks \in [Desks -> 1 .. MaxClicks]
      /\ list \in [Desks -> Seq(EntryType)] /\ kind \in [Desks -> Tables]
      /\ total \in [Desks -> Int] /\ view \in [Desks -> {"loading", "error", "shown"}]
      /\ modal \in [Desks -> Nat \cup {-1}]
  BY <1>1 DEF TableTypes, CallsType, PageType
<1>5. \A e \in Desks : clicks[e] <= clicks'[e]
  BY <1>3, <1>4
<1>6. ASSUME NEW e \in Desks \ {d} PROVE DeskInv(e)'
  <2>1. /\ sent'[e] = sent[e] /\ answers'[e] = answers[e] /\ list'[e] = list[e]
        /\ total'[e] = total[e] /\ view'[e] = view[e] /\ modal'[e] = modal[e]
        /\ kind' = kind /\ rows' = rows
    BY <1>3, <1>4
  <2>2. blurred'[e] = blurred[e]
    BY <1>3, <1>4
  <2> QED
    BY <1>1, <1>5, <2>1, <2>2, OtherDesk
<1>7. DeskInv(d)'
  <2> SUFFICES ASSUME Undisturbed(d)'
               PROVE  Sound(S, B, NewList(a, L), m2, T, NewTotal(a, n), v2)
    <3>1. /\ sent'[d] = S /\ answers'[d] = B /\ list'[d] = NewList(a, L) /\ Table(d)' = T
          /\ total'[d] = NewTotal(a, n) /\ view'[d] = v2
      BY <1>3, <1>4 DEF Table
    <3> HIDE DEF A, a, B, L, S, T, n, v, v2
    <3> QED
      BY <3>1 DEF DeskInv
  <2> DEFINE late == \E j \in 1 .. i - 1 : A[j].r.id = a.r.id
  <2>1. blurred'[d] = (blurred[d] \/ late)
    <3> HIDE DEF a, A
    <3> QED
      BY <1>3, <1>4, Zenon
  <2>2. Undisturbed(d) /\ blurred'[d] = FALSE
    <3>1. blurred[d] = TRUE => blurred'[d] = TRUE
      BY <2>1
    <3> QED
      BY <1>1, <1>3, <1>5, <3>1, UndisturbedBefore
  <2>3. \A j \in 1 .. i - 1 : A[j].r.id # a.r.id
    BY <2>1, <2>2
  <2>4. Sound(S, A, L, m, T, n, v) /\ n \in Int /\ L \in Seq(EntryType) /\ A \in Seq(AnswerType)
    BY <1>1, <1>4, <2>2 DEF DeskInv
  <2>5. i \in 1 .. Len(A) /\ a = A[i] /\ m2 \in {m, -1} /\ a.r.op \in {"load"} \cup Changes
    <3>1. a.r \in AskType
      BY <1>1, AnswersAre
    <3> HIDE DEF a
    <3>2. a.r.op \in {"load"} \cup Changes
      BY <3>1 DEF AskType
    <3> QED
      BY <1>3, <1>4, <3>2 DEF a
  <2>6. Taken(A, B, i)
    <3> HIDE DEF A
    <3>1. Len(A) \in Nat /\ i \in 1 .. Len(A)
      BY <2>4, <2>5
    <3>2. /\ Len(B) = Len(A) - 1
          /\ \A j \in 1 .. Len(A) - 1 : B[j] = IF j < i THEN A[j] ELSE A[j + 1]
      BY <2>4, <3>1, RemovedAt
    <3> HIDE DEF B
    <3> QED
      BY <3>1, <3>2 DEF Taken, Place
  <2>7. Proper(A) /\ Cardinality(DOMAIN T) \in Nat
    BY <1>1, AnswersAreProper, TableIsFinite
  <2>8. v2 = IF a.r.op # "load" THEN v ELSE IF a.ok = TRUE THEN "shown" ELSE "error"
    OBVIOUS
  <2> HIDE DEF A, a, B, L, S, T, m, m2, n, v, v2
  <2>9. CASE a.r.op = "load"
    <3>1. v2 = IF A[i].ok = TRUE THEN "shown" ELSE "error"
      BY <2>5, <2>8, <2>9
    <3> QED
      BY <2>4, <2>5, <2>6, <2>7, <2>9, <3>1, LoadIsSound
  <2>10. CASE a.r.op \in Changes
    <3>1. v2 = v
      BY <2>8, <2>10 DEF Changes
    <3> QED
      BY <2>3, <2>4, <2>5, <2>6, <2>7, <2>10, <3>1, ChangeIsWorkedIn
  <2> QED
    BY <2>5, <2>9, <2>10
<1> QED
  BY <1>6, <1>7

\* A request goes out: a load alone, a change beside no load and about a row that is known.
LEMMA SendingIsSound ==
  ASSUME NEW asks, NEW A, NEW L, NEW m, NEW T, NEW n, NEW v, NEW w \in {v, "loading"},
         Sound(asks, A, L, m, T, n, v), Proper(A), Len(A) \in Nat,
         NEW r, r.op \in {"load"} \cup Changes,
         \A q \in asks : q.op # "load" /\ r.op # "load",
         \A i \in 1 .. Len(A) : A[i].r.op # "load" /\ r.op # "load",
         r.op \in Changes => r.id = 0 \/ r.id = m \/ \E k \in 1 .. Len(L) : r.id = L[k].id
  PROVE  Sound(asks \cup {r}, A, L, m, T, n, w)
<1>1. LoadsAlone(asks \cup {r}, A, T)
  <2>1. CASE r.op = "load"
    <3>1. asks \cup {r} = {r} /\ 1 .. Len(A) = {}
      BY <2>1
    <3>2. Len(A) = 0
      BY <3>1
    <3> HIDE DEF LoadsAlone
    <3> QED
      BY <3>1, <3>2 DEF LoadsAlone
  <2>2. CASE r.op # "load"
    <3>1. \A q \in asks \cup {r} : q.op # "load"
      BY <2>2
    <3> QED
      BY <3>1 DEF LoadsAlone
  <2> QED
    BY <2>1, <2>2
<1>2. NewToAll(asks \cup {r}, A, L, m)
  <2> SUFFICES ASSUME NEW i \in 1 .. Len(A), Creation(A[i])
               PROVE  /\ m # About(A[i]) /\ \A k \in 1 .. Len(L) : L[k].id # About(A[i])
                      /\ \A q \in asks \cup {r} : q.op \in Changes => q.id # About(A[i])
                      /\ \A j \in 1 .. Len(A) \ {i} :
                            Telling(A[j]) => About(A[j]) # About(A[i])
    BY DEF NewToAll
  <2>1. /\ m # About(A[i]) /\ \A k \in 1 .. Len(L) : L[k].id # About(A[i])
        /\ \A q \in asks : q.op \in Changes => q.id # About(A[i])
        /\ \A j \in 1 .. Len(A) \ {i} : Telling(A[j]) => About(A[j]) # About(A[i])
    BY DEF Sound, NewToAll
  <2>2. About(A[i]) # 0
    BY DEF Proper
  <2>3. r.op \in Changes => r.id # About(A[i])
    BY <2>1, <2>2
  <2> QED
    BY <2>1, <2>3
<1>3. w = "shown" => v = "shown"
  OBVIOUS
<1> QED
  BY <1>1, <1>2, <1>3 DEF Sound

\* The form opens for a row that is known.
LEMMA OpeningIsSound ==
  ASSUME NEW asks, NEW A, NEW L, NEW m, NEW m2, NEW T, NEW n, NEW v,
         Sound(asks, A, L, m, T, n, v), Proper(A),
         m2 \in {-1, 0} \/ \E k \in 1 .. Len(L) : m2 = L[k].id
  PROVE  Sound(asks, A, L, m2, T, n, v)
<1>1. ASSUME NEW i \in 1 .. Len(A), Creation(A[i]) PROVE m2 # About(A[i])
  <2>1. About(A[i]) \in Nat \ {0} /\ -1 \notin Nat
    BY <1>1 DEF Proper
  <2>2. \A k \in 1 .. Len(L) : L[k].id # About(A[i])
    BY <1>1 DEF Sound, NewToAll
  <2> QED
    BY <2>1, <2>2
<1>2. NewToAll(asks, A, L, m2)
  BY <1>1 DEF Sound, NewToAll
<1> QED
  BY <1>2 DEF Sound

\* A click that sends a request: nothing else but the view and the page's own marks change.
LEMMA SendsKeepDesks ==
  ASSUME TablesInv, TableTypes', NEW d \in Desks, NEW r \in AskType, Send(d, r),
         UNCHANGED <<kind, rows, born, list, total, modal, answers>>,
         view' = view \/ view' = [view EXCEPT ![d] = "loading"],
         r.op \in Changes => r.id = 0 \/ r.id = modal[d] \/ \E e \in Rows(d) : r.id = e.id
  PROVE  \A e \in Desks : DeskInv(e)'
<1>1. TableTypes /\ \A e \in Desks : DeskInv(e)
  BY DEF TablesInv
<1>2. /\ clicks' = [clicks EXCEPT ![d] = @ + 1] /\ sent' = [sent EXCEPT ![d] = @ \cup {r}]
      /\ blurred' = [blurred EXCEPT ![d] = @ \/ \E q \in Pending(d) : "load" \in {q.op, r.op}]
  BY Zenon DEF Send
<1>3. /\ sent \in [Desks -> SUBSET AskType] /\ answers \in [Desks -> Seq(AnswerType)]
      /\ blurred \in [Desks -> BOOLEAN] /\ clicks \in [Desks -> 1 .. MaxClicks]
      /\ view \in [Desks -> {"loading", "error", "shown"}] /\ MaxClicks \in Nat
  BY <1>1, TablesAssumption DEF TableTypes, CallsType, PageType
<1>4. \A e \in Desks : clicks[e] <= clicks'[e]
  BY <1>2, <1>3
<1>5. ASSUME NEW e \in Desks \ {d} PROVE DeskInv(e)'
  <2>1. sent'[e] = sent[e] /\ view'[e] = view[e]
    BY <1>2, <1>3
  <2>2. blurred'[e] = blurred[e]
    BY <1>2, <1>3
  <2> QED
    BY <1>1, <1>4, <2>1, <2>2, OtherDesk
<1>6. DeskInv(d)'
  <2> DEFINE S == sent[d]  A == answers[d]  L == list[d]  m == modal[d]  T == Table(d)
             n == total[d]  v == view[d]  w == view'[d]
  <2> SUFFICES ASSUME Undisturbed(d)' PROVE Sound(S \cup {r}, A, L, m, T, n, w)
    <3>1. sent'[d] = S \cup {r} /\ Table(d)' = T
      BY <1>2, <1>3 DEF Table
    <3> QED
      BY <3>1 DEF DeskInv
  <2> DEFINE mixed == \E q \in Pending(d) : "load" \in {q.op, r.op}
  <2>1. blurred'[d] = (blurred[d] \/ mixed)
    <3> HIDE DEF mixed
    <3> QED
      BY <1>2, <1>3, Zenon DEF mixed
  <2>2. Undisturbed(d) /\ blurred'[d] = FALSE
    <3>1. blurred[d] = TRUE => blurred'[d] = TRUE
      BY <2>1
    <3> QED
      BY <1>1, <1>4, <3>1, UndisturbedBefore
  <2>3. \A q \in Pending(d) : q.op # "load" /\ r.op # "load"
    BY <2>1, <2>2
  <2>4. /\ \A q \in S : q.op # "load" /\ r.op # "load"
        /\ \A i \in 1 .. Len(A) : A[i].r.op # "load" /\ r.op # "load"
    <3>1. \A q \in S : q \in Pending(d)
      BY DEF Pending
    <3>2. \A i \in 1 .. Len(A) : A[i].r \in Pending(d)
      BY DEF Pending
    <3> QED
      BY <2>3, <3>1, <3>2, Zenon
  <2>5. Sound(S, A, L, m, T, n, v) /\ Len(A) \in Nat /\ Proper(A) /\ w \in {v, "loading"}
    BY <1>1, <1>3, <2>2, AnswersAre, AnswersAreProper DEF DeskInv
  <2>6. r.op \in Changes => r.id = 0 \/ r.id = m \/ \E k \in 1 .. Len(L) : r.id = L[k].id
    BY <1>1, RowsAreEntries
  <2>7. r.op \in {"load"} \cup Changes
    BY DEF AskType
  <2> HIDE DEF S, A, L, m, T, n, v, w
  <2> QED
    BY <2>4, <2>5, <2>6, <2>7, SendingIsSound
<1> QED
  BY <1>5, <1>6

LEMMA ClicksKeepDesks ==
  ASSUME TablesInv, TableTypes', NEW d \in Desks, FormOpened(d) \/ Written(d) \/ Turned(d)
  PROVE  \A e \in Desks : DeskInv(e)'
<1>1. TableTypes /\ \A e \in Desks : DeskInv(e)
  BY DEF TablesInv
<1>2. CASE FormOpened(d)
  <2>1. PICK x \in Nat \cup {-1}, fields \in Row :
           SetModal(d, x, fields) /\ (x \in {-1, 0} \/ \E e \in Rows(d) : x = e.id)
    BY <1>2 DEF FormOpened
  <2>2. /\ modal' = [modal EXCEPT ![d] = x]
        /\ UNCHANGED <<kind, rows, born, list, page, total, view, saving, deleting, sent, answers,
                       clicks, blurred>>
    BY <2>1 DEF SetModal
  <2>3. clicks \in [Desks -> 1 .. MaxClicks] /\ modal \in [Desks -> Nat \cup {-1}]
    BY <1>1 DEF TableTypes, PageType
  <2>4. \A e \in Desks : clicks[e] <= clicks'[e]
    BY <2>2, <2>3
  <2>5. ASSUME NEW e \in Desks \ {d} PROVE DeskInv(e)'
    <3>1. modal'[e] = modal[e]
      BY <2>2, <2>3
    <3> QED
      BY <1>1, <2>2, <2>4, <3>1, OtherDesk
  <2>6. DeskInv(d)'
    <3> SUFFICES ASSUME Undisturbed(d)'
                 PROVE  Sound(sent[d], answers[d], list[d], x, Table(d), total[d], view[d])
      BY <2>2, <2>3 DEF DeskInv, Table
    <3>1. Undisturbed(d)
      BY <2>2 DEF Undisturbed
    <3>2. x \in {-1, 0} \/ \E k \in 1 .. Len(list[d]) : x = list[d][k].id
      BY <1>1, <2>1, RowsAreEntries
    <3> QED
      BY <1>1, <3>1, <3>2, AnswersAreProper, OpeningIsSound DEF DeskInv
  <2> QED
    BY <2>5, <2>6
<1>3. CASE Written(d)
  <2>1. PICK op \in Changes, id \in Nat, patch \in Patches :
           /\ Write(d, op, id, patch)
           /\ IF op = "create" THEN id = 0 ELSE id = modal[d] \/ \E e \in Rows(d) : id = e.id
    BY <1>3 DEF Written
  <2> DEFINE r == Ask(op, id, patch, clicks[d])
  <2>2. r \in AskType /\ r.op = op /\ r.id = id
    <3>1. clicks[d] \in Nat
      BY <1>1, TablesAssumption DEF TableTypes, PageType
    <3> QED
      BY <3>1 DEF Ask, AskType
  <2>3. Send(d, r) /\ UNCHANGED <<kind, rows, born, list, total, modal, answers, view>>
    BY <2>1 DEF Write
  <2> HIDE DEF r
  <2> QED
    BY <2>1, <2>2, <2>3, SendsKeepDesks
<1>4. CASE Turned(d)
  <2>1. PICK p \in Nat \ {0} : AskPage(d, p)
    BY <1>4 DEF Turned
  <2> DEFINE r == Load(p, clicks[d])
  <2>2. r \in AskType /\ r.op = "load"
    <3>1. clicks[d] \in Nat
      BY <1>1, TablesAssumption DEF TableTypes, PageType
    <3> QED
      BY <3>1, FormsAreRows DEF Load, Ask, AskType
  <2>3. /\ Send(d, r) /\ UNCHANGED <<kind, rows, born, list, total, modal, answers>>
        /\ view' = [view EXCEPT ![d] = "loading"]
    BY <2>1 DEF AskPage, tables_form
  <2>4. r.op \notin Changes
    BY <2>2 DEF Changes
  <2> HIDE DEF r
  <2> QED
    BY <2>2, <2>3, <2>4, SendsKeepDesks
<1> QED
  BY <1>2, <1>3, <1>4

LEMMA TablesInvStarts == TablesInit => TablesInv
<1> SUFFICES ASSUME TablesInit PROVE TablesInv
  OBVIOUS
<1>1. ASSUME NEW d \in Desks PROVE DeskInv(d)
  <2>1. /\ sent[d] = {Load(1, 0)} /\ answers[d] = <<>> /\ list[d] = <<>> /\ view[d] # "shown"
    BY <1>1 DEF TablesInit
  <2>2. 1 .. Len(answers[d]) = {} /\ 1 .. Len(list[d]) = {} /\ Len(answers[d]) = 0
    BY <2>1
  <2> HIDE DEF Load
  <2> QED
    BY <2>1, <2>2
    DEF DeskInv, Sound, LoadsAlone, NewToAll, OnceListed, LastTells, EntriesTell
<1> QED
  BY <1>1, TablesStart DEF TablesInv

LEMMA TablesInvIsKept == TablesInv /\ [TablesNext]_tables_vars => TablesInv'
<1> SUFFICES ASSUME TablesInv, [TablesNext]_tables_vars PROVE TablesInv'
  OBVIOUS
<1>1. TableTypes /\ TableTypes'
  BY TypesAreKept DEF TablesInv
<1>2. CASE TablesNext
  <2>1. PICK d \in Desks :
           ServeDesk(d) \/ ReceiveDesk(d) \/ FormOpened(d) \/ Written(d) \/ Turned(d)
    BY <1>1, <1>2, StepsOfADesk
  <2> QED
    BY <1>1, <2>1, ServiceKeepsDesks, PageKeepsDesks, ClicksKeepDesks DEF TablesInv
<1>3. CASE UNCHANGED tables_vars
  <2>1. \A d \in Desks : DeskInv(d)'
    BY <1>3 DEF tables_vars, tables_form, TablesInv, DeskInv, Undisturbed, Table
  <2> QED
    BY <1>1, <2>1 DEF TablesInv
<1> QED
  BY <1>2, <1>3

LEMMA TablesInvImpliesShown == TablesInv => TableIsShown
<1> SUFFICES ASSUME TablesInv, NEW d \in Desks, Undisturbed(d)
             PROVE  /\ \A i, j \in 1 .. Len(list[d]) : list[d][i].id = list[d][j].id => i = j
                    /\ \A e \in Rows(d) : e.id \notin {r.id : r \in Pending(d)} =>
                          e.id \in DOMAIN Table(d) /\ Table(d)[e.id] = e.row
                    /\ Pending(d) = {} /\ view[d] = "shown" => total[d] = Cardinality(DOMAIN Table(d))
  BY DEF TableIsShown, ListIsTable, TotalIsExact
<1> DEFINE A == answers[d]  L == list[d]
<1>1. TableTypes /\ Sound(sent[d], A, L, modal[d], Table(d), total[d], view[d])
  BY DEF TablesInv, DeskInv
<1>2. \A i \in 1 .. Len(A) : A[i].r \in Pending(d)
  BY DEF Pending
<1>3. ASSUME NEW e \in Rows(d), e.id \notin {r.id : r \in Pending(d)}
      PROVE  e.id \in DOMAIN Table(d) /\ Table(d)[e.id] = e.row
  <2>1. PICK k \in 1 .. Len(L) : e = L[k]
    BY DEF Rows
  <2>2. \A j \in 1 .. Len(A) : A[j].r.id # L[k].id
    BY <1>2, <1>3, <2>1
  <2>3. ASSUME NEW j \in 1 .. Len(A), Telling(A[j]) PROVE About(A[j]) # L[k].id
    <3>1. CASE A[j].r.op = "create"
      <4>1. Creation(A[j])
        BY <2>3, <3>1 DEF Creation, Telling
      <4> QED
        BY <1>1, <4>1 DEF Sound, NewToAll
    <3>2. CASE A[j].r.op # "create"
      BY <2>2, <3>2 DEF About
    <3> QED
      BY <3>1, <3>2
  <2> HIDE DEF A, L
  <2> QED
    BY <1>1, <2>1, <2>3 DEF Sound, EntriesTell
<1>4. ASSUME Pending(d) = {}, view[d] = "shown" PROVE total[d] = Cardinality(DOMAIN Table(d))
  <2>1. 1 .. Len(A) = {}
    BY <1>2, <1>4
  <2>2. {i \in 1 .. Len(A) : Creation(A[i])} = {} /\ {i \in 1 .. Len(A) : Removal(A[i])} = {}
    BY <2>1
  <2>3. Counts(A, total[d], Table(d)) /\ total[d] \in Int
    BY <1>1, <1>4 DEF Sound, TableTypes, PageType
  <2>4. total[d] + Cardinality({}) - Cardinality({}) = Cardinality(DOMAIN Table(d))
    BY <2>2, <2>3, Zenon DEF Counts
  <2>5. Cardinality({}) = 0
    BY FS_EmptySet
  <2> QED
    BY <2>3, <2>4, <2>5
<1> QED
  BY <1>1, <1>3, <1>4 DEF Sound, OnceListed

\* Whatever switches, forms and deletions overlap on the page of a desk that works alone, every
\* row the page lists is listed once and is the row as it is stored, unless a request about it
\* is under way, and the number of zones that it counts up and down is the number there are: as
\* long as no load runs beside a write, no answer is lost and two answers about one row are taken
\* in the order in which they were made.
THEOREM TablesAreTrue == TablesSpec => []TableIsShown
<1>1. TablesInit => TablesInv
  BY TablesInvStarts
<1>2. TablesInv /\ [TablesNext]_tables_vars => TablesInv'
  BY TablesInvIsKept
<1>3. TablesInv => TableIsShown
  BY TablesInvImpliesShown
<1> QED
  BY <1>1, <1>2, <1>3, PTL DEF TablesSpec

----------------------------------------------------------------------------
(* A browser that is on one of the pages. *)

LEMMA ShelfIsTyped == ShelfInv => ShelfTypeOK
<1> SUFFICES ASSUME ShelfInv PROVE ShelfTypeOK
  OBVIOUS
<1>1. ShelfTypes /\ ShownIsAnswer /\ shownFor \in QueryType
  BY DEF ShelfInv, ShelfTypes
<1>2. /\ products \in Seq(Catalogue) /\ Len(products) <= ItemsPerPage
      /\ totalCount \in 0 .. Cardinality(Catalogue)
  <2>1. CASE AnswerOf(shownFor, products, totalCount)
    <3>1. /\ products \in Seq(Catalogue) /\ Len(products) <= ItemsPerPage
          /\ totalCount = Count(shownFor)
      BY <1>1, <2>1, AnswerIs
    <3>2. /\ Count(shownFor) \in Nat /\ Cardinality(Catalogue) \in Nat
          /\ Count(shownFor) <= Cardinality(Catalogue)
      BY MatchesFinite
    <3> QED
      BY <3>1, <3>2
  <2>2. CASE products = <<>> /\ totalCount = 0
    <3>1. <<>> \in Seq(Catalogue) /\ Len(<<>>) = 0
      BY EmptySeq
    <3>2. Cardinality(Catalogue) \in Nat /\ ItemsPerPage \in Nat
      BY MatchesFinite, ShelfAssumption
    <3> QED
      BY <2>2, <3>1, <3>2
  <2> QED
    BY <1>1, <2>1, <2>2 DEF ShownIsAnswer
<1> QED
  BY <1>1, <1>2 DEF ShelfTypes, ShelfTypeOK

\* Each page has its invariant, whether the browser is on it or not.
PagesInv == TablesInv /\ ShelfInv /\ BookInv /\ TerminalInv

LEMMA PagesStart == PagesInit => PagesInv
  BY TablesInvStarts, ShelfStart, BookStart, TerminalStart DEF PagesInit, PagesInv

\* A step of one page is none of the others.
LEMMA NextPages ==
  PagesInv /\ [PagesNext]_<<at, tables_vars, shelf_vars, addressForm_vars, terminal_vars>>
    => PagesInv'
<1> SUFFICES ASSUME PagesInv,
                    [PagesNext]_<<at, tables_vars, shelf_vars, addressForm_vars, terminal_vars>>
             PROVE  PagesInv'
  OBVIOUS
<1>1. /\ [TablesNext]_tables_vars /\ [ShelfNext]_shelf_vars
      /\ [AddressFormNext]_addressForm_vars /\ [TerminalNext]_terminal_vars
  BY Zenon DEF PagesNext
<1> QED
  BY <1>1, TablesInvIsKept, NextShelf, NextBook, NextTerminal, Zenon DEF PagesInv

LEMMA PagesAreTyped == PagesInv => PagesTypeOK
<1> SUFFICES ASSUME PagesInv PROVE PagesTypeOK
  OBVIOUS
<1>1. TablesTypeOK
  BY TypesImplyTypeOK DEF PagesInv, TablesInv
<1>2. ShelfTypeOK
  BY ShelfIsTyped DEF PagesInv
<1>3. AddressFormTypeOK
  BY DEF PagesInv, BookInv, AddressTypes
<1>4. TerminalTypeOK
  BY DEF PagesInv, TerminalInv
<1> QED
  BY <1>1, <1>2, <1>3, <1>4 DEF PagesTypeOK

\* Whatever the browser does on its page, every variable of the four pages keeps
\* its type: no list holds a row that is none, no counter leaves its range.
THEOREM PagesKeepTypes == PagesSpec => []PagesTypeOK
BY PagesStart, NextPages, PagesAreTyped, PTL DEF PagesSpec

================================================================================
