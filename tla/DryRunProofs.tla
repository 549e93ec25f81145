---------------------------- MODULE DryRunProofs ----------------------------
(***************************************************************************)
(* What DryRun promises, for any devices and bounds: the dry run foretells *)
(* the daemon's mounts and calls out the departures that would leak one.   *)
(***************************************************************************)
EXTENDS DryRun, SupervisorProofs

(* What the daemon's own proofs say of it. *)
Daemon == Typed /\ Phase /\ Kept

LEMMA StepOfBoth == [DryNext]_DryVars => [Next]_vars
BY DEF DryNext, DryVars, DryPlug, DryUnplug, DryStep, Arrived, Left, Next

LEMMA DaemonInit == DryInit => Daemon
BY TypedInit, PhaseInit, KeptInit DEF DryInit, Daemon

LEMMA DaemonStays == Daemon /\ [DryNext]_DryVars => Daemon'
BY StepOfBoth, TypedStep, PhaseStep, OriginsStep, AttachedStep, OnceStep DEF Daemon, Kept

(* A queue that gains an element at its end, or loses its first. *)
LEMMA Appended ==
  ASSUME NEW S, NEW q \in Seq(S), NEW e \in S
  PROVE  /\ Append(q, e) \in Seq(S)
         /\ Len(q) \in Nat /\ Len(Append(q, e)) = Len(q) + 1
         /\ Append(q, e)[Len(q) + 1] = e
         /\ \A i \in 1 .. Len(q) : Append(q, e)[i] = q[i]
OBVIOUS

LEMMA Dropped ==
  ASSUME NEW S, NEW q \in Seq(S), q # <<>>
  PROVE  /\ Head(q) \in S /\ Head(q) = q[1] /\ Tail(q) \in Seq(S)
         /\ Len(q) \in Nat /\ Len(q) >= 1 /\ Len(Tail(q)) = Len(q) - 1
         /\ \A i \in 1 .. Len(Tail(q)) : Tail(q)[i] = q[i + 1]
OBVIOUS
-----------------------------------------------------------------------------
(* The dry run.                                                            *)

(* Its events come from a device's cable. *)
FromCable(e) ==
  /\ e \in SoundCommands /\ e.device \in Devices
  /\ \/ e.what = "arrived" /\ e.key = Key[e.device]
     \/ e.what = "left" /\ e.key \in LeftAs[e.device]

Tallies == [arrivals : Nat, departures : Nat, matched : Nat, unmatched : Nat]

Listening ==
  /\ inbox \in Seq(SoundCommands)
  /\ \A i \in 1 .. Len(inbox) : FromCable(inbox[i])
  /\ open \subseteq {Key[d] : d \in Devices}
  /\ tally \in Tallies

(* The key is down as arrived once the channel has been dealt with. *)
Opens(k) ==
  \/ \E i \in 1 .. Len(inbox) :
       /\ inbox[i].what = "arrived" /\ inbox[i].key = k
       /\ \A j \in i + 1 .. Len(inbox) : inbox[j].key # k
  \/ k \in open /\ \A i \in 1 .. Len(inbox) : inbox[i].key # k

(* No departure was called out, nor will one be for a key of another form  *)
(* than its device arrived under.                                          *)
Tidy ==
  /\ tally.unmatched = 0
  /\ \A i \in 1 .. Len(inbox) :
       inbox[i].what = "left" => inbox[i].key = Key[inbox[i].device]

(* What is plugged in is or will be down as arrived, and nothing else is   *)
(* as long as every departure has its arrival's key.                       *)
Cables ==
  \A d \in Devices : /\ d \in plugged => Opens(Key[d])
                     /\ Tidy /\ Opens(Key[d]) => d \in plugged

(* An event is seen. *)
LEMMA SeenListens ==
  ASSUME Listening, NEW e, FromCable(e), Seen(e), UNCHANGED dry
  PROVE  /\ Listening'
         /\ \A k : Opens(k)' <=> IF e.key = k THEN e.what = "arrived" ELSE Opens(k)
         /\ Tidy' <=> Tidy /\ (e.what = "left" => e.key = Key[e.device])
<1>1. /\ inbox' \in Seq(SoundCommands) /\ UNCHANGED <<open, tally>>
      /\ Len(inbox) \in Nat /\ Len(inbox') = Len(inbox) + 1
      /\ inbox'[Len(inbox) + 1] = e
      /\ \A i \in 1 .. Len(inbox) : inbox'[i] = inbox[i]
  BY Appended DEF Listening, FromCable, Seen, dry
<1> DEFINE n == Len(inbox)
<1>2. \A i \in 1 .. n + 1 : i \in 1 .. n \/ i = n + 1
  BY <1>1
<1>3. /\ n + 1 \in 1 .. n + 1 /\ \A i \in 1 .. n : i \in 1 .. n + 1 /\ n + 1 \in i + 1 .. n + 1
      /\ \A j \in n + 2 .. n + 1 : FALSE
  BY <1>1
<1>4. Listening'
  BY <1>1, <1>2 DEF Listening
<1>5. Tidy' <=> Tidy /\ (e.what = "left" => e.key = Key[e.device])
  BY <1>1, <1>2, <1>3 DEF Tidy
<1>6. ASSUME NEW k, e.key = k PROVE Opens(k)' <=> e.what = "arrived"
  BY <1>1, <1>2, <1>3, <1>6 DEF Opens
<1>7. ASSUME NEW k, e.key # k PROVE Opens(k)' <=> Opens(k)
  <2>1. \A i \in 1 .. n : \A j \in i + 1 .. n + 1 : j \in i + 1 .. n \/ j = n + 1
    BY <1>1
  <2>2. \A i \in 1 .. n : \A j \in i + 1 .. n : j \in i + 1 .. n + 1 /\ j \in 1 .. n
    BY <1>1
  <2> QED
    BY <1>1, <1>2, <1>3, <1>7, <2>1, <2>2 DEF Opens
<1> QED
  BY <1>4, <1>5, <1>6, <1>7

(* The totals count. *)
LEMMA Counted ==
  ASSUME NEW t \in Tallies
  PROVE  /\ [t EXCEPT !.arrivals = @ + 1] \in Tallies
         /\ [t EXCEPT !.arrivals = @ + 1].unmatched = t.unmatched
         /\ [t EXCEPT !.departures = @ + 1, !.matched = @ + 1] \in Tallies
         /\ [t EXCEPT !.departures = @ + 1, !.matched = @ + 1].unmatched = t.unmatched
         /\ [t EXCEPT !.departures = @ + 1, !.unmatched = @ + 1] \in Tallies
         /\ [t EXCEPT !.departures = @ + 1, !.unmatched = @ + 1].unmatched = t.unmatched + 1
<1> DEFINE r == [t EXCEPT !.departures = @ + 1]
<1>1. /\ [t EXCEPT !.arrivals = @ + 1] \in Tallies
      /\ [t EXCEPT !.arrivals = @ + 1].unmatched = t.unmatched
  BY DEF Tallies
<1>2. r \in Tallies /\ r.unmatched = t.unmatched /\ r.matched = t.matched
  BY DEF Tallies
<1>3. /\ [t EXCEPT !.departures = @ + 1, !.matched = @ + 1] = [r EXCEPT !.matched = @ + 1]
      /\ [t EXCEPT !.departures = @ + 1, !.unmatched = @ + 1] = [r EXCEPT !.unmatched = @ + 1]
  BY DEF Tallies
<1> HIDE DEF r
<1>4. /\ [r EXCEPT !.matched = @ + 1] \in Tallies
      /\ [r EXCEPT !.matched = @ + 1].unmatched = r.unmatched
      /\ [r EXCEPT !.unmatched = @ + 1] \in Tallies
      /\ [r EXCEPT !.unmatched = @ + 1].unmatched = r.unmatched + 1
  BY <1>2 DEF Tallies
<1> QED
  BY <1>1, <1>2, <1>3, <1>4

(* The dry run deals with an event. *)
LEMMA StepListens ==
  ASSUME DistinctKeys, Listening, DryStep
  PROVE  /\ Listening'
         /\ \A k : Opens(k)' <=> Opens(k)
         /\ Tidy' => Tidy
         /\ UNCHANGED vars
<1> DEFINE e == inbox[1]
           n == Len(inbox)
<1>0. inbox # <<>> /\ inbox' = Tail(inbox) /\ inbox \in Seq(SoundCommands)
  BY DEF DryStep, Arrived, Left, Listening
<1>1. /\ inbox' \in Seq(SoundCommands) /\ Head(inbox) = e
      /\ n \in Nat /\ n >= 1 /\ Len(inbox') = n - 1
      /\ \A i \in 1 .. n - 1 : inbox'[i] = inbox[i + 1]
  BY <1>0, Dropped
<1>2. FromCable(e) /\ \A i \in 1 .. n - 1 : FromCable(inbox'[i])
  BY <1>1 DEF Listening
<1>3. \/ /\ e.what = "arrived" /\ open' = open \cup {e.key}
         /\ tally' = [tally EXCEPT !.arrivals = @ + 1]
      \/ /\ e.what = "left" /\ open' = open \ {e.key}
         /\ tally' = IF e.key \in open
                     THEN [tally EXCEPT !.departures = @ + 1, !.matched = @ + 1]
                     ELSE [tally EXCEPT !.departures = @ + 1, !.unmatched = @ + 1]
  BY <1>1 DEF DryStep, Arrived, Left, Closes, Verdict
<1>4. /\ tally' \in Tallies
      /\ tally'.unmatched = IF e.what = "arrived" \/ e.key \in open
                            THEN tally.unmatched ELSE tally.unmatched + 1
  BY <1>3, Counted DEF Listening
<1>5. Listening'
  <2>1. open' \subseteq {Key[d] : d \in Devices}
    BY <1>2, <1>3 DEF Listening, FromCable
  <2>2. \A i \in 1 .. Len(inbox') : FromCable(inbox'[i])
    <3>1. 1 .. Len(inbox') = 1 .. n - 1
      BY <1>1
    <3> HIDE DEF n
    <3> QED
      BY <1>2, <3>1
  <2> QED
    BY <1>1, <1>4, <2>1, <2>2 DEF Listening
<1>6. ASSUME Tidy' PROVE Tidy
  <2>1. tally.unmatched = 0 /\ (e.what = "left" => e.key \in open)
    BY <1>3, <1>4, <1>6 DEF Tidy, Listening, Tallies
  <2>2. e.what = "left" => e.key = Key[e.device]
    BY <1>2, <2>1 DEF Listening, FromCable, DistinctKeys
  <2>3. ASSUME NEW i \in 1 .. n, inbox[i].what = "left" PROVE inbox[i].key = Key[inbox[i].device]
    <3>1. CASE i = 1
      BY <2>2, <2>3, <3>1
    <3>2. CASE i # 1
      <4>1. i - 1 \in 1 .. n - 1 /\ inbox[i] = inbox'[i - 1]
        BY <1>1, <3>2
      <4> QED
        BY <1>1, <1>6, <2>3, <4>1 DEF Tidy
    <3> QED
      BY <3>1, <3>2
  <2> QED
    BY <2>1, <2>3 DEF Tidy
<1>7. ASSUME NEW k PROVE Opens(k)' <=> Opens(k)
  <2>1. k \in open' <=> IF e.key = k THEN e.what = "arrived" ELSE k \in open
    BY <1>2, <1>3 DEF FromCable
  <2>2. ASSUME Opens(k)' PROVE Opens(k)
    <3>1. CASE k \in open' /\ \A i \in 1 .. n - 1 : inbox'[i].key # k
      <4>1. \A i \in 2 .. n : inbox[i].key # k
        <5>1. \A i \in 2 .. n : i - 1 \in 1 .. n - 1 /\ inbox[i] = inbox'[i - 1]
          BY <1>1
        <5> QED
          BY <3>1, <5>1
      <4>2. \A i \in 1 .. n : i = 1 \/ i \in 2 .. n
        BY <1>1
      <4>3. 1 \in 1 .. n /\ 1 + 1 .. n = 2 .. n
        BY <1>1
      <4> QED
        BY <2>1, <3>1, <4>1, <4>2, <4>3 DEF Opens
    <3>2. ASSUME NEW i \in 1 .. n - 1, inbox'[i].what = "arrived", inbox'[i].key = k,
                 \A j \in i + 1 .. n - 1 : inbox'[j].key # k
          PROVE  Opens(k)
      <4>1. i + 1 \in 1 .. n /\ inbox[i + 1] = inbox'[i]
        BY <1>1
      <4>2. \A j \in (i + 1) + 1 .. n : j - 1 \in i + 1 .. n - 1 /\ inbox[j] = inbox'[j - 1]
        BY <1>1
      <4>3. \A j \in (i + 1) + 1 .. n : inbox[j].key # k
        BY <3>2, <4>2
      <4> QED
        BY <3>2, <4>1, <4>3 DEF Opens
    <3> QED
      BY <1>1, <2>2, <3>1, <3>2 DEF Opens
  <2>3. ASSUME Opens(k) PROVE Opens(k)'
    <3>1. CASE k \in open /\ \A i \in 1 .. n : inbox[i].key # k
      <4>1. e.key # k /\ \A i \in 1 .. n - 1 : inbox'[i].key # k
        BY <1>1, <3>1
      <4> QED
        BY <1>1, <2>1, <3>1, <4>1 DEF Opens
    <3>2. ASSUME NEW i \in 1 .. n, inbox[i].what = "arrived", inbox[i].key = k,
                 \A j \in i + 1 .. n : inbox[j].key # k
          PROVE  Opens(k)'
      <4>1. CASE i = 1
        <5>1. \A j \in 1 .. n - 1 : inbox'[j].key # k
          BY <1>1, <3>2, <4>1
        <5> QED
          BY <1>1, <2>1, <3>2, <4>1, <5>1 DEF Opens
      <4>2. CASE i # 1
        <5>1. i - 1 \in 1 .. n - 1 /\ inbox'[i - 1] = inbox[i]
          BY <1>1, <4>2
        <5>2. \A j \in (i - 1) + 1 .. n - 1 : j + 1 \in i + 1 .. n /\ inbox'[j] = inbox[j + 1]
          BY <1>1, <4>2
        <5>3. \A j \in (i - 1) + 1 .. n - 1 : inbox'[j].key # k
          BY <3>2, <5>2
        <5> QED
          BY <1>1, <3>2, <5>1, <5>3 DEF Opens
      <4> QED
        BY <4>1, <4>2
    <3> QED
      BY <2>3, <3>1, <3>2 DEF Opens
  <2> QED
    BY <2>2, <2>3
<1> QED
  BY <1>5, <1>6, <1>7 DEF DryStep, Arrived, Left
-----------------------------------------------------------------------------
(* The daemon's channels.                                                  *)

IsLeft(c, k) == c.what = "left" /\ c.key = k

IsArrival(c, d) == c.what = "arrived" /\ c.device = d

(* A departure under the key k is still before it. *)
LeftWaits(k) ==
  \/ \E i \in 1 .. Len(usb) : IsLeft(usb[i], k)
  \/ \E i \in 1 .. Len(commands) : IsLeft(commands[i], k)

(* An arrival of d is, with no departure under d's key after it. *)
Comes(d) ==
  \/ \E i \in 1 .. Len(usb) :
       /\ IsArrival(usb[i], d)
       /\ \A j \in i + 1 .. Len(usb) : ~IsLeft(usb[j], Key[d])
  \/ \E i \in 1 .. Len(commands) :
       /\ IsArrival(commands[i], d)
       /\ \A j \in i + 1 .. Len(commands) : ~IsLeft(commands[j], Key[d])
       /\ \A j \in 1 .. Len(usb) : ~IsLeft(usb[j], Key[d])

(* The watch has an event e to read. *)
LEMMA ReportWaits ==
  ASSUME Typed, NEW e \in SoundCommands, usb' = Append(usb, e), UNCHANGED commands
  PROVE  /\ \A k : LeftWaits(k)' <=> LeftWaits(k) \/ IsLeft(e, k)
         /\ \A d : (Comes(d) /\ ~IsLeft(e, Key[d])) \/ IsArrival(e, d) => Comes(d)'
<1> DEFINE n == Len(usb)
<1>1. /\ n \in Nat /\ Len(usb') = n + 1 /\ usb'[n + 1] = e
      /\ \A i \in 1 .. n : usb'[i] = usb[i]
  BY Appended DEF Typed
<1>2. /\ \A i \in 1 .. n + 1 : i \in 1 .. n \/ i = n + 1
      /\ n + 1 \in 1 .. n + 1 /\ \A i \in 1 .. n : i \in 1 .. n + 1
      /\ \A j \in (n + 1) + 1 .. n + 1 : FALSE
      /\ \A i \in 1 .. n : \A j \in i + 1 .. n + 1 : j \in i + 1 .. n \/ j = n + 1
      /\ \A i \in 1 .. n : \A j \in i + 1 .. n : j \in 1 .. n
  BY <1>1
<1>3. \A k : LeftWaits(k)' <=> LeftWaits(k) \/ IsLeft(e, k)
  BY <1>1, <1>2 DEF LeftWaits, IsLeft
<1>4. ASSUME NEW d, IsArrival(e, d) PROVE Comes(d)'
  BY <1>1, <1>2, <1>4 DEF Comes, IsArrival
<1>5. ASSUME NEW d, Comes(d), ~IsLeft(e, Key[d]) PROVE Comes(d)'
  <2>1. ASSUME NEW i \in 1 .. n, IsArrival(usb[i], d),
               \A j \in i + 1 .. n : ~IsLeft(usb[j], Key[d])
        PROVE  Comes(d)'
    <3>1. \A j \in i + 1 .. n + 1 : ~IsLeft(usb'[j], Key[d])
      BY <1>1, <1>2, <1>5, <2>1 DEF IsLeft
    <3> QED
      BY <1>1, <1>2, <2>1, <3>1 DEF Comes, IsArrival, IsLeft
  <2>2. ASSUME NEW i \in 1 .. Len(commands), IsArrival(commands[i], d),
               \A j \in i + 1 .. Len(commands) : ~IsLeft(commands[j], Key[d]),
               \A j \in 1 .. n : ~IsLeft(usb[j], Key[d])
        PROVE  Comes(d)'
    <3>1. \A j \in 1 .. n + 1 : ~IsLeft(usb'[j], Key[d])
      BY <1>1, <1>2, <1>5, <2>2 DEF IsLeft
    <3> QED
      BY <1>1, <2>2, <3>1 DEF Comes, IsArrival, IsLeft
  <2> QED
    BY <1>5, <2>1, <2>2 DEF Comes
<1> QED
  BY <1>3, <1>4, <1>5

(* A command c that is no departure joins the channel. *)
LEMMA CommandWaits ==
  ASSUME Typed, NEW c \in SoundCommands, commands' = Append(commands, c), UNCHANGED usb,
         c.what # "left"
  PROVE  /\ \A k : LeftWaits(k)' <=> LeftWaits(k)
         /\ \A d : Comes(d) => Comes(d)'
<1> DEFINE n == Len(commands)
<1>1. /\ n \in Nat /\ Len(commands') = n + 1 /\ commands'[n + 1] = c
      /\ \A i \in 1 .. n : commands'[i] = commands[i]
  BY Appended DEF Typed
<1>2. /\ \A i \in 1 .. n + 1 : i \in 1 .. n \/ i = n + 1
      /\ \A i \in 1 .. n : i \in 1 .. n + 1
      /\ \A i \in 1 .. n : \A j \in i + 1 .. n + 1 : j \in i + 1 .. n \/ j = n + 1
      /\ \A i \in 1 .. n : \A j \in i + 1 .. n : j \in 1 .. n
  BY <1>1
<1>3. \A k : LeftWaits(k)' <=> LeftWaits(k)
  BY <1>1, <1>2 DEF LeftWaits, IsLeft
<1>4. ASSUME NEW d, Comes(d) PROVE Comes(d)'
  <2>1. ASSUME NEW i \in 1 .. n, IsArrival(commands[i], d),
               \A j \in i + 1 .. n : ~IsLeft(commands[j], Key[d]),
               \A j \in 1 .. Len(usb) : ~IsLeft(usb[j], Key[d])
        PROVE  Comes(d)'
    <3>1. \A j \in i + 1 .. n + 1 : ~IsLeft(commands'[j], Key[d])
      BY <1>1, <1>2, <2>1 DEF IsLeft
    <3> QED
      BY <1>1, <1>2, <2>1, <3>1 DEF Comes, IsArrival, IsLeft
  <2> QED
    BY <1>4, <2>1 DEF Comes, IsArrival, IsLeft
<1> QED
  BY <1>3, <1>4

(* The watch hands over its next event. *)
LEMMA WatchWaits ==
  ASSUME Typed, Watch
  PROVE  /\ \A k : LeftWaits(k)' <=> LeftWaits(k)
         /\ \A d : Comes(d) => Comes(d)'
<1> DEFINE n == Len(commands)
           u == Len(usb)
<1>0. /\ usb \in Seq(SoundCommands) /\ commands \in Seq(SoundCommands) /\ usb # <<>>
      /\ usb' = Tail(usb) /\ commands' = Append(commands, Head(usb))
  BY DEF Typed, Watch
<1>1. /\ u \in Nat /\ u >= 1 /\ Len(usb') = u - 1 /\ Head(usb) = usb[1]
      /\ Head(usb) \in SoundCommands
      /\ \A i \in 1 .. u - 1 : usb'[i] = usb[i + 1]
  BY <1>0, Dropped
<1>2. /\ n \in Nat /\ Len(commands') = n + 1 /\ commands'[n + 1] = usb[1]
      /\ \A i \in 1 .. n : commands'[i] = commands[i]
  BY <1>0, <1>1, Appended
<1>3. /\ \A i \in 1 .. n + 1 : i \in 1 .. n \/ i = n + 1
      /\ n + 1 \in 1 .. n + 1 /\ \A i \in 1 .. n : i \in 1 .. n + 1
      /\ \A j \in (n + 1) + 1 .. n + 1 : FALSE
      /\ \A i \in 1 .. n : \A j \in i + 1 .. n + 1 : j \in i + 1 .. n \/ j = n + 1
      /\ \A i \in 1 .. n : \A j \in i + 1 .. n : j \in 1 .. n
  BY <1>2
<1>4. /\ \A i \in 1 .. u : i = 1 \/ (i - 1 \in 1 .. u - 1 /\ usb[i] = usb'[i - 1])
      /\ \A i \in 1 .. u - 1 : i + 1 \in 1 .. u /\ i + 1 \in 1 + 1 .. u
      /\ 1 \in 1 .. u
  BY <1>1
<1>5. \A k : LeftWaits(k)' <=> LeftWaits(k)
  <2>1. ASSUME NEW k, LeftWaits(k) PROVE LeftWaits(k)'
    <3>1. ASSUME NEW i \in 1 .. u, IsLeft(usb[i], k) PROVE LeftWaits(k)'
      <4>1. CASE i = 1
        BY <1>2, <1>3, <3>1, <4>1 DEF LeftWaits, IsLeft
      <4>2. CASE i # 1
        <5>1. i - 1 \in 1 .. u - 1 /\ usb'[i - 1] = usb[i]
          BY <1>1, <4>2
        <5>2. 1 .. Len(usb') = 1 .. u - 1
          BY <1>1
        <5> HIDE DEF u
        <5> QED
          BY <3>1, <5>1, <5>2 DEF LeftWaits, IsLeft
      <4> QED
        BY <4>1, <4>2
    <3>2. ASSUME NEW i \in 1 .. n, IsLeft(commands[i], k) PROVE LeftWaits(k)'
      BY <1>2, <1>3, <3>2 DEF LeftWaits, IsLeft
    <3> QED
      BY <2>1, <3>1, <3>2 DEF LeftWaits
  <2>2. ASSUME NEW k, LeftWaits(k)' PROVE LeftWaits(k)
    <3>1. ASSUME NEW i \in 1 .. u - 1, IsLeft(usb'[i], k) PROVE LeftWaits(k)
      BY <1>1, <1>4, <3>1 DEF LeftWaits, IsLeft
    <3>2. ASSUME NEW i \in 1 .. n + 1, IsLeft(commands'[i], k) PROVE LeftWaits(k)
      BY <1>2, <1>3, <1>4, <3>2 DEF LeftWaits, IsLeft
    <3> QED
      BY <1>1, <1>2, <2>2, <3>1, <3>2 DEF LeftWaits
  <2> QED
    BY <2>1, <2>2
<1>6. ASSUME NEW d, Comes(d) PROVE Comes(d)'
  <2>1. ASSUME NEW i \in 1 .. u, IsArrival(usb[i], d),
               \A j \in i + 1 .. u : ~IsLeft(usb[j], Key[d])
        PROVE  Comes(d)'
    <3>1. CASE i = 1
      <4>1. \A j \in 1 .. u - 1 : ~IsLeft(usb'[j], Key[d])
        BY <1>1, <1>4, <2>1, <3>1 DEF IsLeft
      <4> QED
        BY <1>1, <1>2, <1>3, <2>1, <3>1, <4>1 DEF Comes, IsArrival, IsLeft
    <3>2. CASE i # 1
      <4>1. i - 1 \in 1 .. u - 1 /\ usb'[i - 1] = usb[i]
        BY <1>1, <3>2
      <4>2. \A j \in (i - 1) + 1 .. u - 1 : j + 1 \in i + 1 .. u /\ usb'[j] = usb[j + 1]
        BY <1>1, <3>2
      <4>3. \A j \in (i - 1) + 1 .. u - 1 : ~IsLeft(usb'[j], Key[d])
        BY <2>1, <4>2 DEF IsLeft
      <4> QED
        BY <1>1, <2>1, <4>1, <4>3 DEF Comes, IsArrival, IsLeft
    <3> QED
      BY <3>1, <3>2
  <2>2. ASSUME NEW i \in 1 .. n, IsArrival(commands[i], d),
               \A j \in i + 1 .. n : ~IsLeft(commands[j], Key[d]),
               \A j \in 1 .. u : ~IsLeft(usb[j], Key[d])
        PROVE  Comes(d)'
    <3>1. \A j \in i + 1 .. n + 1 : ~IsLeft(commands'[j], Key[d])
      BY <1>2, <1>3, <1>4, <2>2 DEF IsLeft
    <3>2. \A j \in 1 .. u - 1 : ~IsLeft(usb'[j], Key[d])
      BY <1>1, <1>4, <2>2 DEF IsLeft
    <3> QED
      BY <1>1, <1>2, <1>3, <2>2, <3>1, <3>2 DEF Comes, IsArrival, IsLeft
  <2> QED
    BY <1>6, <2>1, <2>2 DEF Comes
<1> QED
  BY <1>5, <1>6

(* The supervisor takes a command. *)
LEMMA ReceivedWaits ==
  ASSUME Typed, NEW what, Received(what), UNCHANGED usb
  PROVE  /\ \A k : LeftWaits(k)' => LeftWaits(k)
         /\ \A k : LeftWaits(k) => LeftWaits(k)' \/ IsLeft(Head(commands), k)
         /\ \A d : Comes(d) => \/ Comes(d)'
                              \/ (IsArrival(Head(commands), d) /\ ~LeftWaits(Key[d])')
<1> DEFINE n == Len(commands)
<1>1. /\ n \in Nat /\ n >= 1 /\ Len(commands') = n - 1 /\ Head(commands) = commands[1]
      /\ \A i \in 1 .. n - 1 : commands'[i] = commands[i + 1]
  BY Dropped DEF Typed, Received
<1>2. /\ \A i \in 1 .. n : i = 1 \/ (i - 1 \in 1 .. n - 1 /\ commands[i] = commands'[i - 1])
      /\ \A i \in 1 .. n - 1 : i + 1 \in 1 .. n /\ i + 1 \in 1 + 1 .. n
  BY <1>1
<1>3. \A k : LeftWaits(k)' => LeftWaits(k)
  BY <1>1, <1>2 DEF LeftWaits, IsLeft
<1>4. \A k : LeftWaits(k) => LeftWaits(k)' \/ IsLeft(Head(commands), k)
  BY <1>1, <1>2 DEF LeftWaits, IsLeft
<1>5. ASSUME NEW d, Comes(d)
      PROVE  Comes(d)' \/ (IsArrival(Head(commands), d) /\ ~LeftWaits(Key[d])')
  <2>1. ASSUME NEW i \in 1 .. n, IsArrival(commands[i], d),
               \A j \in i + 1 .. n : ~IsLeft(commands[j], Key[d]),
               \A j \in 1 .. Len(usb) : ~IsLeft(usb[j], Key[d])
        PROVE  Comes(d)' \/ (IsArrival(Head(commands), d) /\ ~LeftWaits(Key[d])')
    <3>1. CASE i = 1
      <4>1. \A j \in 1 .. n - 1 : ~IsLeft(commands'[j], Key[d])
        BY <1>1, <1>2, <2>1, <3>1 DEF IsLeft
      <4> QED
        BY <1>1, <2>1, <3>1, <4>1 DEF LeftWaits, IsLeft
    <3>2. CASE i # 1
      <4>1. i - 1 \in 1 .. n - 1 /\ commands'[i - 1] = commands[i]
        BY <1>1, <3>2
      <4>2. \A j \in (i - 1) + 1 .. n - 1 : j + 1 \in i + 1 .. n /\ commands'[j] = commands[j + 1]
        BY <1>1, <3>2
      <4>3. \A j \in (i - 1) + 1 .. n - 1 : ~IsLeft(commands'[j], Key[d])
        BY <2>1, <4>2 DEF IsLeft
      <4> QED
        BY <1>1, <2>1, <4>1, <4>3 DEF Comes, IsArrival, IsLeft
    <3> QED
      BY <3>1, <3>2
  <2> QED
    BY <1>5, <2>1 DEF Comes, IsArrival, IsLeft
<1> QED
  BY <1>3, <1>4, <1>5

(* Nothing happens to the channels. *)
LEMMA NothingWaits ==
  ASSUME UNCHANGED <<usb, commands>>
  PROVE  /\ \A k : LeftWaits(k)' <=> LeftWaits(k)
         /\ \A d : Comes(d) => Comes(d)'
BY DEF LeftWaits, Comes, IsLeft, IsArrival
-----------------------------------------------------------------------------
(* The daemon's mounts.                                                    *)

Mounting(k) == sup.pc = "mount" /\ sup.key = k

Holds(k) == mounts[k] # None \/ Mounting(k)

Serving == sup.pc \in {"recv", "mount", "unmount"}

(* A mount whose device is not down as arrived has its departure to come. *)
Departs == \A d \in Devices : Holds(Key[d]) /\ ~Opens(Key[d]) => LeftWaits(Key[d])

(* While nobody touches a dead mount and the kernel refuses none, a device *)
(* that is plugged in is mounted for good or has its arrival to come.      *)
Undisturbed == ~Touched /\ ~Failures

Serves ==
  /\ \A m \in Ids : ~mount[m].asked
  /\ \A i \in 1 .. Len(usb) : usb[i].what # "give_up"
  /\ \A i \in 1 .. Len(commands) : commands[i].what # "give_up"
  /\ \A d \in plugged :
       Serving => Comes(d) \/ (Holds(Key[d]) /\ ~LeftWaits(Key[d]))

(* The mount of a dead session has its departure to come, or the dry run   *)
(* calls one out.                                                          *)
IsDead(k) == \/ mounts[k] # None /\ ~mount[mounts[k]].alive
             \/ Mounting(k) /\ ~mount[sup.id].alive

CalledOut == \A k \in Keys : IsDead(k) /\ Tidy => LeftWaits(k)

Foretold == Departs /\ (Undisturbed => Serves) /\ (~Resets => CalledOut)

(* The dry run stays as it is during a step of the daemon. *)
LEMMA DryStays ==
  ASSUME UNCHANGED <<inbox, dry>>
  PROVE  /\ \A k : Opens(k)' <=> Opens(k)
         /\ Tidy' <=> Tidy
BY DEF dry, Opens, Tidy

(* A step that makes and drops no mount and takes no arrival. *)
LEMMA ForetoldQuiet ==
  ASSUME Foretold, UNCHANGED <<inbox, dry, plugged, mounts>>,
         \A k : LeftWaits(k)' <=> LeftWaits(k),
         sup'.pc = "mount" <=> sup.pc = "mount", sup.pc = "mount" => UNCHANGED sup,
         Serving' => Serving /\ \A d : Comes(d) => Comes(d)',
         ~Resets => \A m \in Ids : mount'[m].alive = mount[m].alive,
         sup.pc = "mount" => sup.id \in Ids,
         \A k \in Keys : mounts[k] \in Ids \cup {None},
         Undisturbed => /\ \A m \in Ids : mount[m].asked \/ ~mount'[m].asked
                        /\ \A i \in 1 .. Len(usb') : usb'[i].what # "give_up"
                        /\ \A i \in 1 .. Len(commands') : commands'[i].what # "give_up"
  PROVE  Foretold'
<1>1. /\ \A k : Opens(k)' <=> Opens(k)
      /\ Tidy' <=> Tidy
      /\ \A k : Holds(k)' <=> Holds(k)
  BY DryStays DEF Holds, Mounting
<1>2. Departs'
  BY <1>1 DEF Foretold, Departs
<1>3. Undisturbed => Serves'
  BY <1>1 DEF Foretold, Serves, Undisturbed
<1>4. ASSUME ~Resets PROVE CalledOut'
  <2>1. \A k \in Keys : IsDead(k)' => IsDead(k)
    BY <1>4 DEF IsDead, Mounting
  <2> QED
    BY <1>1, <1>4, <2>1 DEF Foretold, CalledOut
<1> QED
  BY <1>2, <1>3, <1>4 DEF Foretold, Undisturbed

(* What the types say of the map and the mount being made. *)
LEMMA MapTyped ==
  ASSUME Typed
  PROVE  /\ \A k \in Keys : mounts[k] \in Ids \cup {None}
         /\ sup.pc = "mount" => sup.id \in Ids
         /\ \A d \in Devices : Key[d] \in Keys
         /\ mount \in [Ids -> MountRecords] /\ None \notin Ids /\ None \notin Devices
BY KeyOfDevice, SupervisorAssumption DEF Typed, TypeOK

(* A flag of a mount changes. *)
LEMMA FlagsAlone ==
  ASSUME mount \in [Ids -> MountRecords], NEW m \in Ids
  PROVE  /\ \A i \in Ids : /\ [mount EXCEPT ![m].asked = TRUE][i].alive = mount[i].alive
                           /\ [mount EXCEPT ![m].watcher = TRUE][i].alive = mount[i].alive
                           /\ [mount EXCEPT ![m].watcher = TRUE][i].asked = mount[i].asked
                           /\ [mount EXCEPT ![m].watcher = FALSE][i].alive = mount[i].alive
                           /\ [mount EXCEPT ![m].watcher = FALSE][i].asked = mount[i].asked
                           /\ [mount EXCEPT ![m].stop = TRUE][i].alive = mount[i].alive
                           /\ [mount EXCEPT ![m].stop = TRUE][i].asked = mount[i].asked
                           /\ [mount EXCEPT ![m].alive = FALSE][i].asked = mount[i].asked
BY DEF MountRecords

(* Sessions, users, watchers and the signal. *)
LEMMA ForetoldAround ==
  ASSUME Daemon, Foretold, UNCHANGED <<inbox, dry>>,
         \/ \E m \in Ids : Reset(m) \/ GivesUp(m) \/ WatcherSends(m) \/ WatcherStops(m)
         \/ Watch \/ Signal \/ UnmountDone \/ StopBegin \/ Start
  PROVE  Foretold'
<1> USE DEF cables
<1>0. Typed /\ commands \in Seq(SoundCommands) /\ usb \in Seq(SoundCommands)
  BY DEF Daemon, Typed
<1>1. ASSUME NEW m \in Ids, Reset(m) \/ WatcherStops(m) \/ GivesUp(m) PROVE Foretold'
  <2>1. UNCHANGED <<plugged, usb, commands, sup, mounts>>
    BY <1>1 DEF Reset, WatcherStops, GivesUp
  <2>2. ~Resets => \A i \in Ids : mount'[i].alive = mount[i].alive
    <3>1. mount \in [Ids -> MountRecords]
      BY <1>0, MapTyped
    <3>2. CASE Reset(m)
      BY <3>2 DEF Reset
    <3>3. CASE GivesUp(m)
      BY <3>1, <3>3, FlagsAlone DEF GivesUp
    <3>4. CASE WatcherStops(m)
      BY <3>1, <3>4, FlagsAlone DEF WatcherStops
    <3> QED
      BY <1>1, <3>2, <3>3, <3>4
  <2>3. Undisturbed => \A i \in Ids : mount'[i].asked = mount[i].asked
    <3>1. mount \in [Ids -> MountRecords]
      BY <1>0, MapTyped
    <3>2. CASE Reset(m)
      BY <3>1, <3>2, FlagsAlone DEF Reset
    <3>3. CASE GivesUp(m)
      BY <3>3 DEF GivesUp, Undisturbed
    <3>4. CASE WatcherStops(m)
      BY <3>1, <3>4, FlagsAlone DEF WatcherStops
    <3> QED
      BY <1>1, <3>2, <3>3, <3>4
  <2>4. Undisturbed => /\ \A i \in Ids : mount[i].asked \/ ~mount'[i].asked
                       /\ \A i \in 1 .. Len(usb') : usb'[i].what # "give_up"
                       /\ \A i \in 1 .. Len(commands') : commands'[i].what # "give_up"
    BY <2>1, <2>3 DEF Foretold, Serves
  <2>5. Serving' => Serving
    BY <2>1 DEF Serving
  <2> QED
    BY <1>0, <2>1, <2>2, <2>4, <2>5, NothingWaits, MapTyped, ForetoldQuiet
<1>2. ASSUME NEW m \in Ids, WatcherSends(m) PROVE Foretold'
  <2>1. /\ UNCHANGED <<plugged, usb, sup, mounts>> /\ mount[m].asked
        /\ \E c \in SoundCommands : commands' = Append(commands, c) /\ c.what = "give_up"
    <3>1. mount[m].watcher /\ mount[m].device \in Devices
      BY <1>0, <1>2 DEF WatcherSends, Typed, Watched
    <3>2. GiveUpKey(m) \in Keys
      BY <1>0, <3>1, MapTyped DEF GiveUpKey
    <3> QED
      BY <1>2, <3>2, EventSound DEF WatcherSends, Event
  <2>2. \A i \in Ids : mount'[i].alive = mount[i].alive
    BY <1>0, <1>2, FlagsAlone, MapTyped DEF WatcherSends
  <2>3. ~Undisturbed
    BY <2>1 DEF Foretold, Serves
  <2>4. Serving' => Serving
    BY <2>1 DEF Serving
  <2>5. /\ \A k : LeftWaits(k)' <=> LeftWaits(k)
        /\ \A d : Comes(d) => Comes(d)'
    BY <1>0, <2>1, CommandWaits
  <2> QED
    BY <1>0, <2>1, <2>2, <2>3, <2>4, <2>5, MapTyped, ForetoldQuiet
<1>3. CASE Watch
  <2>1. /\ UNCHANGED <<plugged, sup, mounts, mount>>
        /\ usb # <<>> /\ usb' = Tail(usb) /\ commands' = Append(commands, Head(usb))
    BY <1>3 DEF Watch
  <2>2. Undisturbed => /\ \A i \in Ids : mount[i].asked \/ ~mount'[i].asked
                       /\ \A i \in 1 .. Len(usb') : usb'[i].what # "give_up"
                       /\ \A i \in 1 .. Len(commands') : commands'[i].what # "give_up"
    <3>1. /\ Len(usb) \in Nat /\ Len(usb) >= 1 /\ Len(usb') = Len(usb) - 1
          /\ Head(usb) = usb[1] /\ Head(usb) \in SoundCommands
          /\ \A i \in 1 .. Len(usb') : usb'[i] = usb[i + 1]
      BY <1>0, <2>1, Dropped
    <3>2. /\ Len(commands) \in Nat /\ Len(commands') = Len(commands) + 1
          /\ commands'[Len(commands) + 1] = Head(usb)
          /\ \A i \in 1 .. Len(commands) : commands'[i] = commands[i]
      BY <1>0, <2>1, <3>1, Appended
    <3>3. /\ \A i \in 1 .. Len(usb') : i + 1 \in 1 .. Len(usb)
          /\ 1 \in 1 .. Len(usb)
          /\ \A i \in 1 .. Len(commands') : i \in 1 .. Len(commands) \/ i = Len(commands) + 1
      BY <3>1, <3>2
    <3>4. ASSUME Undisturbed
          PROVE  /\ \A i \in Ids : ~mount[i].asked
                 /\ \A i \in 1 .. Len(usb) : usb[i].what # "give_up"
                 /\ \A i \in 1 .. Len(commands) : commands[i].what # "give_up"
      BY <3>4 DEF Foretold, Serves
    <3> QED
      BY <2>1, <3>1, <3>2, <3>3, <3>4
  <2>3. Serving' => Serving
    BY <2>1 DEF Serving
  <2> QED
    BY <1>0, <1>3, <2>1, <2>2, <2>3, WatchWaits, MapTyped, ForetoldQuiet
<1>4. CASE Signal
  <2> DEFINE c == Event("stop", None, None)
  <2>1. /\ UNCHANGED <<plugged, usb, sup, mounts, mount>>
        /\ commands' = Append(commands, c) /\ c \in SoundCommands /\ c.what = "stop"
    BY <1>4, EventSound DEF Signal, Event
  <2> HIDE DEF c
  <2>2. Undisturbed => /\ \A i \in Ids : mount[i].asked \/ ~mount'[i].asked
                       /\ \A i \in 1 .. Len(usb') : usb'[i].what # "give_up"
                       /\ \A i \in 1 .. Len(commands') : commands'[i].what # "give_up"
    <3>1. /\ Len(commands) \in Nat /\ Len(commands') = Len(commands) + 1
          /\ commands'[Len(commands) + 1] = c
          /\ \A i \in 1 .. Len(commands) : commands'[i] = commands[i]
      BY <1>0, <2>1, Appended
    <3>2. \A i \in 1 .. Len(commands') : i \in 1 .. Len(commands) \/ i = Len(commands) + 1
      BY <3>1
    <3> QED
      BY <2>1, <3>1, <3>2 DEF Foretold, Serves
  <2>3. Serving' => Serving
    BY <2>1 DEF Serving
  <2>4. /\ \A k : LeftWaits(k)' <=> LeftWaits(k)
        /\ \A d : Comes(d) => Comes(d)'
    BY <1>0, <2>1, CommandWaits
  <2> QED
    BY <1>0, <2>1, <2>2, <2>3, <2>4, MapTyped, ForetoldQuiet
<1>5. CASE UnmountDone \/ Start
  <2>1. /\ UNCHANGED <<plugged, usb, commands, mounts, mount>>
        /\ \/ sup.pc = "unmount" /\ sup'.pc = "recv"
           \/ sup.pc = "down" /\ sup'.pc = "clean"
    BY <1>5 DEF UnmountDone, Start, At
  <2>2. Undisturbed => /\ \A i \in Ids : mount[i].asked \/ ~mount'[i].asked
                       /\ \A i \in 1 .. Len(usb') : usb'[i].what # "give_up"
                       /\ \A i \in 1 .. Len(commands') : commands'[i].what # "give_up"
    BY <2>1 DEF Foretold, Serves
  <2>3. Serving' => Serving
    BY <2>1 DEF Serving
  <2> QED
    BY <1>0, <2>1, <2>2, <2>3, NothingWaits, MapTyped, ForetoldQuiet
<1>6. CASE StopBegin
  <2>1. /\ UNCHANGED <<plugged, usb, mounts, mount>> /\ Received("stop")
        /\ sup.pc = "recv" /\ sup'.pc = "stop" /\ Head(commands).what = "stop"
    BY <1>6 DEF StopBegin, At, Received
  <2>2. \A k : LeftWaits(k)' <=> LeftWaits(k)
    BY <1>0, <2>1, ReceivedWaits DEF IsLeft
  <2>3. Undisturbed => /\ \A i \in Ids : mount[i].asked \/ ~mount'[i].asked
                       /\ \A i \in 1 .. Len(usb') : usb'[i].what # "give_up"
                       /\ \A i \in 1 .. Len(commands') : commands'[i].what # "give_up"
    <3>1. /\ Len(commands) \in Nat /\ Len(commands') = Len(commands) - 1
          /\ \A i \in 1 .. Len(commands') : commands'[i] = commands[i + 1]
      BY <1>0, <2>1, Dropped DEF Received
    <3>2. \A i \in 1 .. Len(commands') : i + 1 \in 1 .. Len(commands)
      BY <3>1
    <3> QED
      BY <2>1, <3>1, <3>2 DEF Foretold, Serves
  <2>4. ~Serving'
    BY <2>1 DEF Serving
  <2> QED
    BY <1>0, <2>1, <2>2, <2>3, <2>4, MapTyped, ForetoldQuiet
<1> QED
  BY <1>1, <1>2, <1>3, <1>4, <1>5, <1>6

(* The daemon ends, or starts over: it mounts what is plugged in. *)
LEMMA ForetoldLives ==
  ASSUME Daemon, Foretold, UNCHANGED <<inbox, dry>>, Exit \/ Crash \/ Clean
  PROVE  Foretold'
<1>1. /\ Typed /\ \A d \in Devices : Key[d] \in Keys
      /\ \A k : Opens(k)' <=> Opens(k)
      /\ plugged \subseteq Devices
  BY DryStays, MapTyped DEF Daemon, Typed, TypeOK
<1>2. CASE Exit \/ Crash
  <2>1. /\ \A k \in Keys : mounts'[k] = None
        /\ sup'.pc = "down" /\ usb' = <<>> /\ commands' = <<>>
        /\ \A m \in Ids : ~mount'[m].asked
    BY <1>2 DEF Exit, Crash, Ends, At, NoMount
  <2>2. \A k \in Keys : ~Holds(k)' /\ ~IsDead(k)'
    BY <2>1 DEF Holds, IsDead, Mounting
  <2>3. ~Serving'
    BY <2>1 DEF Serving
  <2> QED
    BY <1>1, <2>1, <2>2, <2>3 DEF Foretold, Departs, Serves, CalledOut, Undisturbed
<1>3. CASE Clean
  <2>1. /\ sup.pc = "clean" /\ sup'.pc = "recv"
        /\ UNCHANGED <<plugged, mounts, mount>>
        /\ \A k \in Keys : mounts[k] = None
        /\ commands = <<>> /\ commands' = <<>>
        /\ \A m \in Ids : ~mount'[m].asked
    BY <1>1, <1>3 DEF Clean, At, Typed, Daemon, Kept, Attached, NoMount
  <2>2. \A k \in Keys : ~Holds(k)' /\ ~IsDead(k)'
    BY <2>1 DEF Holds, IsDead, Mounting
  <2>3. PICK order \in [1 .. Cardinality(plugged) -> plugged] :
          /\ {order[i] : i \in DOMAIN order} = plugged
          /\ usb' = [i \in DOMAIN order |-> Event("arrived", Key[order[i]], order[i])]
    BY <1>3 DEF Clean
  <2>4. /\ Cardinality(plugged) \in Nat /\ DOMAIN order = 1 .. Cardinality(plugged)
        /\ Len(usb') = Cardinality(plugged)
        /\ \A i \in 1 .. Len(usb') : /\ usb'[i].what = "arrived"
                                     /\ usb'[i].device = order[i]
    BY <1>1, <2>3, FS_CardinalityType DEF Typed, Event
  <2>5. ASSUME NEW d \in plugged PROVE Comes(d)'
    <3>1. PICK i \in 1 .. Len(usb') : order[i] = d
      BY <2>3, <2>4
    <3>2. IsArrival(usb'[i], d)
      BY <2>4, <3>1 DEF IsArrival
    <3>3. \A j \in i + 1 .. Len(usb') : ~IsLeft(usb'[j], Key[d])
      BY <2>4 DEF IsLeft
    <3> QED
      BY <3>1, <3>2, <3>3 DEF Comes, IsArrival, IsLeft
  <2>6. Serves'
    BY <2>1, <2>4, <2>5 DEF Serves
  <2> QED
    BY <1>1, <2>2, <2>6 DEF Foretold, Departs, CalledOut
<1> QED
  BY <1>2, <1>3

(* The give-ups there are not, are not there after a step. *)
LEMMA ReceivedNone ==
  ASSUME Typed, NEW what, Received(what), UNCHANGED usb, Serves
  PROVE  /\ \A i \in 1 .. Len(usb') : usb'[i].what # "give_up"
         /\ \A i \in 1 .. Len(commands') : commands'[i].what # "give_up"
<1>1. /\ Len(commands) \in Nat /\ Len(commands') = Len(commands) - 1
      /\ \A i \in 1 .. Len(commands') : commands'[i] = commands[i + 1]
  BY Dropped DEF Received, Typed
<1>2. \A i \in 1 .. Len(commands') : i + 1 \in 1 .. Len(commands)
  BY <1>1
<1> QED
  BY <1>1, <1>2 DEF Serves

(* An arrival. *)
LEMMA ForetoldMountBegin ==
  ASSUME DistinctKeys, Daemon, Cables, Foretold, UNCHANGED <<inbox, dry>>, MountBegin
  PROVE  Foretold'
<1> USE DEF cables
<1> DEFINE c == Head(commands)
<1>1. /\ Typed /\ Attached /\ Origins
      /\ \A d \in Devices : Key[d] \in Keys
      /\ \A k : Opens(k)' <=> Opens(k)
      /\ Tidy' <=> Tidy
      /\ \A k \in Keys : mounts[k] \in Ids \cup {None}
      /\ plugged \subseteq Devices /\ None \notin Ids
      /\ None \notin Devices
  BY DryStays, MapTyped DEF Daemon, Kept, Typed, TypeOK
<1>2. /\ Received("arrived") /\ sup.pc = "recv" /\ c.what = "arrived"
      /\ UNCHANGED <<plugged, usb, mounts>>
  BY DEF MountBegin, Received
<1>3. c.device \in Devices /\ c.key = Key[c.device]
  <2>1. 1 \in 1 .. Len(commands) /\ c = commands[1]
    BY <1>1, <1>2, Dropped DEF Typed, Received
  <2> QED
    BY <1>1, <1>2, <2>1 DEF Origins, Origin
<1>4. /\ \A k : LeftWaits(k)' => LeftWaits(k)
      /\ \A k : LeftWaits(k) => LeftWaits(k)'
      /\ \A d : Comes(d) => Comes(d)' \/ (c.device = d /\ ~LeftWaits(Key[d])')
  BY <1>1, <1>2, ReceivedWaits DEF IsLeft, IsArrival
<1>5. \A d \in Devices : Key[d] = c.key => d = c.device
  BY <1>3 DEF DistinctKeys
<1>6. Serving
  BY <1>2 DEF Serving
<1>7. Undisturbed => /\ Serves
                     /\ \A i \in 1 .. Len(usb') : usb'[i].what # "give_up"
                     /\ \A i \in 1 .. Len(commands') : commands'[i].what # "give_up"
  BY <1>1, <1>2, ReceivedNone DEF Foretold
<1>8. CASE /\ UNCHANGED <<made, mount, sup>>
           /\ ~(mounts[c.key] = None /\ c.device \in plugged)
  <2>1. \A k : Holds(k)' <=> Holds(k)
    BY <1>2, <1>8 DEF Holds, Mounting
  <2>2. Departs'
    BY <1>1, <1>4, <2>1 DEF Foretold, Departs
  <2>3. ASSUME Undisturbed, NEW d \in plugged
        PROVE  Comes(d)' \/ (Holds(Key[d])' /\ ~LeftWaits(Key[d])')
    <3>1. Comes(d) \/ (Holds(Key[d]) /\ ~LeftWaits(Key[d]))
      BY <1>6, <1>7, <2>3 DEF Serves
    <3>2. CASE c.device = d /\ ~LeftWaits(Key[d])'
      BY <1>3, <1>8, <2>1, <2>3, <3>2 DEF Holds
    <3> QED
      BY <1>4, <2>1, <3>1, <3>2
  <2>4. Undisturbed => Serves'
    BY <1>2, <1>7, <1>8, <2>3 DEF Serves
  <2>5. \A k : IsDead(k)' <=> IsDead(k)
    BY <1>2, <1>8 DEF IsDead, Mounting
  <2>6. ~Resets => CalledOut'
    BY <1>1, <1>4, <2>5 DEF Foretold, CalledOut
  <2> QED
    BY <2>2, <2>4, <2>6 DEF Foretold, Undisturbed
<1>9. CASE /\ mounts[c.key] = None /\ c.device \in plugged
           /\ made < MaxMounts /\ made' = made + 1
           /\ mount' = [mount EXCEPT ![made + 1] =
                          [NoMount EXCEPT !.device = c.device, !.alive = TRUE]]
           /\ sup' = [At("mount") EXCEPT !.key = c.key, !.id = made + 1]
  <2> DEFINE r == [NoMount EXCEPT !.device = c.device, !.alive = TRUE]
  <2>1. r.alive /\ ~r.asked
    BY DEF NoMount
  <2>2. sup'.pc = "mount" /\ sup'.key = c.key /\ sup'.id = made + 1
    BY <1>9 DEF At
  <2>3. /\ made \in Nat /\ made + 1 \in Ids
        /\ mount'[made + 1] = r /\ \A m \in Ids : m # made + 1 => mount'[m] = mount[m]
    <3>1. made + 1 \in Ids /\ mount \in [Ids -> MountRecords] /\ made \in Nat
      BY <1>1, <1>9, SupervisorAssumption DEF Ids, Typed, TypeOK
    <3> HIDE DEF r
    <3> QED
      BY <1>9, <3>1 DEF r
  <2> HIDE DEF r
  <2>4. \A k \in Keys : Holds(k)' <=> Holds(k) \/ k = c.key
    BY <1>2, <2>2 DEF Holds, Mounting
  <2>5. Departs'
    <3> SUFFICES ASSUME NEW d \in Devices, Holds(Key[d])', ~Opens(Key[d])'
                 PROVE  LeftWaits(Key[d])'
      BY DEF Departs
    <3>1. CASE Key[d] = c.key
      BY <1>1, <1>5, <1>9, <3>1 DEF Cables
    <3>2. CASE Key[d] # c.key
      BY <1>1, <1>4, <2>4, <3>2 DEF Foretold, Departs
    <3> QED
      BY <3>1, <3>2
  <2>6. ASSUME Undisturbed, NEW d \in plugged
        PROVE  Comes(d)' \/ (Holds(Key[d])' /\ ~LeftWaits(Key[d])')
    <3>1. Comes(d) \/ (Holds(Key[d]) /\ ~LeftWaits(Key[d]))
      BY <1>6, <1>7, <2>6 DEF Serves
    <3>2. Key[d] \in Keys
      BY <1>1
    <3>3. c.device = d => Holds(Key[d])'
      BY <1>3, <2>4, <3>2
    <3> QED
      BY <1>4, <2>4, <3>1, <3>2, <3>3
  <2>7. Undisturbed => Serves'
    BY <1>2, <1>7, <2>1, <2>3, <2>6 DEF Serves
  <2>8. ASSUME NEW k \in Keys, IsDead(k)' PROVE IsDead(k)
    <3>1. mounts[k] # None /\ ~mount'[mounts[k]].alive
      BY <1>2, <2>1, <2>2, <2>3, <2>8 DEF IsDead, Mounting
    <3>2. mounts[k] \in Ids /\ mounts[k] <= made
      BY <1>1, <3>1 DEF Attached
    <3>3. mounts[k] # made + 1
      BY <2>3, <3>2 DEF Ids
    <3> QED
      BY <2>3, <3>1, <3>2, <3>3 DEF IsDead
  <2>9. ~Resets => CalledOut'
    BY <1>1, <1>4, <2>8 DEF Foretold, CalledOut
  <2> QED
    BY <2>5, <2>7, <2>9 DEF Foretold, Undisturbed
<1> QED
  BY <1>8, <1>9 DEF MountBegin, IgnoresSecond

(* A mount is entered in the map, refused, or taken down at the end. *)
LEMMA ForetoldMounts ==
  ASSUME Daemon, Foretold, UNCHANGED <<inbox, dry>>,
         MountDone \/ MountFails \/ \E k \in Keys : StopMount(k)
  PROVE  Foretold'
<1> USE DEF cables
<1>1. /\ Typed /\ \A d \in Devices : Key[d] \in Keys
      /\ \A k : Opens(k)' <=> Opens(k)
      /\ Tidy' <=> Tidy
      /\ mount \in [Ids -> MountRecords] /\ mounts \in [Keys -> Ids \cup {None}]
      /\ plugged \subseteq Devices /\ None \notin Ids
  BY DryStays, MapTyped DEF Daemon, Typed, TypeOK
<1>2. /\ UNCHANGED <<plugged, usb, commands>>
      /\ \A k : LeftWaits(k)' <=> LeftWaits(k)
      /\ \A d : Comes(d) => Comes(d)'
  BY NothingWaits DEF MountDone, MountFails, StopMount
<1>3. CASE MountDone
  <2>1. /\ sup.pc = "mount" /\ sup'.pc = "recv" /\ sup.key \in Keys /\ sup.id \in Ids
        /\ \A k \in Keys : mounts'[k] = IF k = sup.key THEN sup.id ELSE mounts[k]
    BY <1>1, <1>3 DEF MountDone, At, Typed
  <2>2. \A m \in Ids : /\ mount'[m].alive = mount[m].alive
                       /\ mount'[m].asked = mount[m].asked
    BY <1>1, <1>3, <2>1, FlagsAlone DEF MountDone
  <2>3. \A k \in Keys : Holds(k)' <=> Holds(k)
    BY <1>1, <2>1 DEF Holds, Mounting
  <2>4. \A k \in Keys : IsDead(k)' => IsDead(k)
    BY <1>1, <2>1, <2>2 DEF IsDead, Mounting
  <2>5. Serving
    BY <2>1 DEF Serving
  <2>6. Undisturbed => Serves'
    BY <1>1, <1>2, <2>2, <2>3, <2>5 DEF Foretold, Serves
  <2> QED
    BY <1>1, <1>2, <2>3, <2>4, <2>6 DEF Foretold, Departs, CalledOut, Undisturbed
<1>4. CASE MountFails
  <2>1. /\ sup'.pc = "recv" /\ UNCHANGED <<mounts, mount>> /\ ~Undisturbed
    BY <1>4 DEF MountFails, At, Undisturbed
  <2>2. \A k : (Holds(k)' => Holds(k)) /\ (IsDead(k)' => IsDead(k))
    BY <2>1 DEF Holds, Mounting, IsDead
  <2> QED
    BY <1>1, <1>2, <2>1, <2>2 DEF Foretold, Departs, CalledOut, Undisturbed
<1>5. ASSUME NEW k \in Keys, StopMount(k) PROVE Foretold'
  <2>1. /\ sup.pc = "stop" /\ sup'.pc = "stop" /\ mounts[k] \in Ids
        /\ \A j \in Keys : mounts'[j] = IF j = k THEN None ELSE mounts[j]
        /\ mount' = [mount EXCEPT ![mounts[k]].stop = TRUE]
    BY <1>1, <1>5 DEF StopMount, StopsWatcher, Daemon, Phase, MountedKeys, Typed
  <2>2. \A m \in Ids : /\ mount'[m].alive = mount[m].alive
                       /\ mount'[m].asked = mount[m].asked
    <3>1. PICK m \in Ids : m = mounts[k]
      BY <2>1
    <3> QED
      BY <1>1, <2>1, <3>1, FlagsAlone
  <2>3. \A j \in Keys : (Holds(j)' => Holds(j)) /\ (IsDead(j)' => IsDead(j))
    BY <1>1, <2>1, <2>2 DEF Holds, Mounting, IsDead
  <2>4. Undisturbed => Serves'
    BY <1>2, <2>1, <2>2 DEF Foretold, Serves, Serving
  <2> QED
    BY <1>1, <1>2, <2>3, <2>4 DEF Foretold, Departs, CalledOut, Undisturbed
<1> QED
  BY <1>3, <1>4, <1>5

(* A departure or a give-up. *)
LEMMA ForetoldUnmountBegin ==
  ASSUME Daemon, Foretold, UNCHANGED <<inbox, dry>>, UnmountBegin
  PROVE  Foretold'
<1> USE DEF cables
<1> DEFINE c == Head(commands)
<1>1. /\ Typed /\ \A d \in Devices : Key[d] \in Keys
      /\ \A k : Opens(k)' <=> Opens(k)
      /\ Tidy' <=> Tidy
      /\ mount \in [Ids -> MountRecords] /\ mounts \in [Keys -> Ids \cup {None}]
      /\ plugged \subseteq Devices /\ None \notin Ids
  BY DryStays, MapTyped DEF Daemon, Typed, TypeOK
<1>2. PICK what \in {"left", "give_up"} : Received(what)
  BY DEF UnmountBegin
<1>3. /\ sup.pc = "recv" /\ c.what = what /\ UNCHANGED <<plugged, usb>>
      /\ 1 \in 1 .. Len(commands) /\ c = commands[1] /\ c.key \in Keys
  <2>1. Len(commands) >= 1 /\ c = commands[1] /\ c \in SoundCommands /\ Len(commands) \in Nat
    BY <1>1, <1>2, Dropped DEF Typed, Received
  <2> QED
    BY <1>2, <2>1 DEF UnmountBegin, Received, SoundCommands
<1>4. /\ \A k : LeftWaits(k)' => LeftWaits(k)
      /\ \A k : LeftWaits(k) => LeftWaits(k)' \/ k = c.key
      /\ \A d : Comes(d) => Comes(d)'
  BY <1>1, <1>2, <1>3, ReceivedWaits DEF IsLeft, IsArrival
<1>5. /\ sup'.pc \in {"recv", "unmount"} /\ mounts'[c.key] = None
      /\ \A k \in Keys : k # c.key => mounts'[k] = mounts[k]
      /\ \A m \in Ids : /\ mount'[m].alive = mount[m].alive
                        /\ mount'[m].asked = mount[m].asked
  <2>1. CASE Unmounts(c.key)
    <3>1. /\ sup'.pc = "unmount" /\ mounts' = [mounts EXCEPT ![c.key] = None]
          /\ mount' = [mount EXCEPT ![mounts[c.key]].stop = TRUE]
      BY <2>1 DEF UnmountBegin, Target, At, StopsWatcher
    <3>2. PICK m \in Ids : m = mounts[c.key]
      BY <1>1, <1>3, <2>1 DEF Unmounts
    <3> QED
      BY <1>1, <1>3, <3>1, <3>2, FlagsAlone
  <2>2. CASE ~Unmounts(c.key)
    BY <1>3, <2>2 DEF UnmountBegin, Target, Unmounts
  <2> QED
    BY <2>1, <2>2
<1>6. \A k \in Keys : /\ Holds(k)' <=> Holds(k) /\ k # c.key
                      /\ IsDead(k)' => IsDead(k) /\ k # c.key
  BY <1>1, <1>3, <1>5 DEF Holds, Mounting, IsDead
<1>7. Departs'
  BY <1>1, <1>4, <1>6 DEF Foretold, Departs
<1>8. ~Resets => CalledOut'
  BY <1>1, <1>4, <1>6 DEF Foretold, CalledOut
<1>9. ASSUME Undisturbed PROVE Serves'
  <2>1. Serves /\ Serving /\ LeftWaits(c.key)
    BY <1>2, <1>3, <1>9 DEF Foretold, Serves, Serving, LeftWaits, IsLeft
  <2>2. /\ \A i \in 1 .. Len(usb') : usb'[i].what # "give_up"
        /\ \A i \in 1 .. Len(commands') : commands'[i].what # "give_up"
    BY <1>1, <1>2, <1>3, <2>1, ReceivedNone
  <2>3. ASSUME NEW d \in plugged
        PROVE  Comes(d)' \/ (Holds(Key[d])' /\ ~LeftWaits(Key[d])')
    <3>1. Comes(d) \/ (Holds(Key[d]) /\ ~LeftWaits(Key[d]))
      BY <2>1 DEF Serves
    <3> QED
      BY <1>1, <1>4, <1>6, <2>1, <3>1
  <2> QED
    BY <1>3, <1>5, <2>1, <2>2, <2>3 DEF Serves
<1> QED
  BY <1>7, <1>8, <1>9 DEF Foretold, Undisturbed
-----------------------------------------------------------------------------
(* The cables, which both see. *)

LEMMA EventOf ==
  ASSUME NEW what, NEW k, NEW d
  PROVE  /\ Event(what, k, d).what = what
         /\ Event(what, k, d).key = k
         /\ Event(what, k, d).device = d
BY DEF Event

(* With the watch off nothing is mounted. *)
LEMMA UnwatchedHolds ==
  ASSUME Typed, ~Watching
  PROVE  ~Serving /\ \A k \in Keys : ~Holds(k) /\ ~IsDead(k)
BY DEF Typed, Watching, Up, Serving, Holds, IsDead, Mounting

LEMMA PlugForetold ==
  ASSUME DistinctKeys, Daemon, Listening, Cables, Foretold, NEW d \in Devices, DryPlug(d)
  PROVE  Listening' /\ Cables' /\ Foretold'
<1> DEFINE e == Event("arrived", Key[d], d)
<1>1. /\ e \in SoundCommands /\ e.what = "arrived" /\ e.key = Key[d] /\ e.device = d
      /\ FromCable(e) /\ Seen(e) /\ UNCHANGED <<dry, commands, sup, mounts, mount>>
      /\ plugged' = plugged \cup {d} /\ Report(e)
  BY EventSound, EventOf DEF FromCable, DryPlug, Plug
<1> HIDE DEF e
<1>2. /\ Typed /\ \A f \in Devices : Key[f] \in Keys
      /\ plugged \subseteq Devices
      /\ \A f \in Devices : Key[f] = Key[d] => f = d
  BY MapTyped DEF Daemon, Typed, TypeOK, DistinctKeys
<1>3. /\ Listening' /\ (Tidy' <=> Tidy)
      /\ \A k : Opens(k)' <=> Opens(k) \/ k = Key[d]
  BY <1>1, SeenListens
<1>4. Cables'
  BY <1>1, <1>2, <1>3 DEF Cables
<1>5. \A k : (Holds(k)' <=> Holds(k)) /\ (IsDead(k)' <=> IsDead(k))
  BY <1>1 DEF Holds, IsDead, Mounting
<1>6. CASE Watching
  <2>1. /\ usb' = Append(usb, e)
        /\ \A k : LeftWaits(k)' <=> LeftWaits(k)
        /\ \A f : Comes(f) \/ f = d => Comes(f)'
    BY <1>1, <1>2, <1>6, ReportWaits DEF Report, IsLeft, IsArrival
  <2>2. ASSUME Undisturbed PROVE Serves'
    <3>1. \A i \in 1 .. Len(usb') : usb'[i].what # "give_up"
      <4>1. /\ Len(usb) \in Nat /\ Len(usb') = Len(usb) + 1 /\ usb'[Len(usb) + 1] = e
            /\ \A i \in 1 .. Len(usb) : usb'[i] = usb[i]
        BY <1>1, <1>2, <2>1, Appended DEF Typed
      <4>2. \A i \in 1 .. Len(usb') : i \in 1 .. Len(usb) \/ i = Len(usb) + 1
        BY <4>1
      <4> QED
        BY <1>1, <2>2, <4>1, <4>2 DEF Foretold, Serves
    <3> QED
      BY <1>1, <1>5, <2>1, <2>2, <3>1 DEF Foretold, Serves, Serving
  <2> QED
    BY <1>2, <1>3, <1>4, <1>5, <2>1, <2>2 DEF Foretold, Departs, CalledOut, Undisturbed
<1>7. CASE ~Watching
  <2>1. /\ UNCHANGED usb /\ ~Serving' /\ \A k \in Keys : ~Holds(k)' /\ ~IsDead(k)'
    BY <1>1, <1>2, <1>5, <1>7, UnwatchedHolds DEF Report, Serving
  <2>2. Undisturbed => Serves'
    BY <1>1, <2>1 DEF Foretold, Serves
  <2> QED
    BY <1>2, <1>3, <1>4, <2>1, <2>2 DEF Foretold, Departs, CalledOut, Undisturbed
<1> QED
  BY <1>6, <1>7

LEMMA UnplugForetold ==
  ASSUME DistinctKeys, Daemon, Listening, Cables, Foretold,
         NEW d \in Devices, NEW key \in LeftAs[d], DryUnplug(d, key)
  PROVE  Listening' /\ Cables' /\ Foretold'
<1> DEFINE e == Event("left", key, d)
<1>1. /\ e \in SoundCommands /\ e.what = "left" /\ e.key = key /\ e.device = d
      /\ FromCable(e) /\ Seen(e) /\ UNCHANGED <<dry, commands, sup, mounts>>
      /\ plugged' = plugged \ {d}
      /\ mount' = [m \in Ids |-> IF mount[m].device = d
                                THEN [mount[m] EXCEPT !.alive = FALSE] ELSE mount[m]]
  BY EventSound, EventOf DEF FromCable, DryUnplug, Unplug
<1>2. /\ Typed /\ Attached /\ \A f \in Devices : Key[f] \in Keys
      /\ plugged \subseteq Devices /\ mount \in [Ids -> MountRecords]
      /\ \A k \in Keys : mounts[k] \in Ids \cup {None}
      /\ sup.pc = "mount" => sup.id \in Ids
      /\ \A f \in Devices : Key[f] = key => f = d
  BY MapTyped DEF Daemon, Kept, Typed, TypeOK, DistinctKeys
<1>3. Watching => usb' = Append(usb, e)
  <2> SUFFICES ASSUME Watching PROVE usb' = Append(usb, e)
    OBVIOUS
  <2>1. PICK k \in LeftAs[d] : usb' = Append(usb, Event("left", k, d))
    BY DEF DryUnplug, Unplug, Report
  <2>2. usb'[Len(usb')].key = key
    BY DEF DryUnplug
  <2>3. Len(usb) \in Nat /\ Len(usb') = Len(usb) + 1 /\ usb'[Len(usb) + 1] = Event("left", k, d)
    BY <1>2, <2>1, EventSound, Appended DEF Typed
  <2> QED
    BY <2>1, <2>2, <2>3, EventOf
<1> HIDE DEF e
<1>4. /\ Listening' /\ (Tidy' <=> Tidy /\ key = Key[d])
      /\ \A k : Opens(k)' <=> Opens(k) /\ k # key
  BY <1>1, SeenListens
<1>5. Cables'
  BY <1>1, <1>2, <1>4 DEF Cables
<1>6. /\ \A m \in Ids : /\ mount'[m].asked = mount[m].asked
                        /\ mount[m].device # d => mount'[m].alive = mount[m].alive
      /\ \A k : Holds(k)' <=> Holds(k)
      /\ \A k \in Keys : IsDead(k)' => IsDead(k) \/ k = Key[d]
  <2>1. \A m \in Ids : /\ mount'[m].asked = mount[m].asked
                       /\ mount[m].device # d => mount'[m].alive = mount[m].alive
    BY <1>1, <1>2 DEF MountRecords
  <2>2. \A k : Holds(k)' <=> Holds(k)
    BY <1>1 DEF Holds, Mounting
  <2>3. ASSUME NEW k \in Keys, IsDead(k)', k # Key[d] PROVE IsDead(k)
    <3>1. ASSUME mounts[k] # None, ~mount'[mounts[k]].alive PROVE IsDead(k)
      <4>1. PICK m \in Ids : m = mounts[k]
        BY <1>2, <3>1
      <4>2. Key[mount[m].device] = k
        BY <1>2, <3>1, <4>1 DEF Attached
      <4>3. mount'[m].alive = mount[m].alive
        BY <2>1, <2>3, <4>2
      <4> QED
        BY <3>1, <4>1, <4>3 DEF IsDead
    <3>2. ASSUME Mounting(k), ~mount'[sup.id].alive PROVE IsDead(k)
      <4>1. PICK m \in Ids : m = sup.id
        BY <1>2, <3>2 DEF Mounting
      <4>2. Key[mount[m].device] = k
        BY <1>2, <3>2, <4>1 DEF Attached, Mounting
      <4>3. mount'[m].alive = mount[m].alive
        BY <2>1, <2>3, <4>2
      <4> QED
        BY <3>2, <4>1, <4>3 DEF IsDead
    <3> QED
      BY <1>1, <2>3, <3>1, <3>2 DEF IsDead, Mounting
  <2>4. \A k \in Keys : IsDead(k)' => IsDead(k) \/ k = Key[d]
    BY <2>3
  <2> QED
    BY <2>1, <2>2, <2>4
<1>7. CASE Watching
  <2>1. /\ usb' = Append(usb, e)
        /\ \A k : LeftWaits(k)' <=> LeftWaits(k) \/ k = key
        /\ \A f : Comes(f) /\ Key[f] # key => Comes(f)'
    BY <1>1, <1>2, <1>3, <1>7, ReportWaits DEF IsLeft, IsArrival
  <2>2. ASSUME Undisturbed PROVE Serves'
    <3>1. \A i \in 1 .. Len(usb') : usb'[i].what # "give_up"
      <4>1. /\ Len(usb) \in Nat /\ Len(usb') = Len(usb) + 1 /\ usb'[Len(usb) + 1] = e
            /\ \A i \in 1 .. Len(usb) : usb'[i] = usb[i]
        BY <1>1, <1>2, <2>1, Appended DEF Typed
      <4>2. \A i \in 1 .. Len(usb') : i \in 1 .. Len(usb) \/ i = Len(usb) + 1
        BY <4>1
      <4> QED
        BY <1>1, <2>2, <4>1, <4>2 DEF Foretold, Serves
    <3> QED
      BY <1>1, <1>2, <1>6, <2>1, <2>2, <3>1 DEF Foretold, Serves, Serving
  <2>3. Departs'
    BY <1>2, <1>4, <1>6, <2>1 DEF Foretold, Departs
  <2>4. ~Resets => CalledOut'
    BY <1>4, <1>6, <2>1 DEF Foretold, CalledOut
  <2> QED
    BY <1>4, <1>5, <2>2, <2>3, <2>4 DEF Foretold, Undisturbed
<1>8. CASE ~Watching
  <2>1. UNCHANGED usb /\ ~Serving'
    BY <1>1, <1>2, <1>8, UnwatchedHolds DEF DryUnplug, Unplug, Report, Serving
  <2>2. \A k \in Keys : ~Holds(k)' /\ ~IsDead(k)'
    BY <1>1, <1>2, <1>6, <1>8, UnwatchedHolds DEF IsDead, Holds, Mounting
  <2>3. Undisturbed => Serves'
    BY <1>1, <1>6, <2>1 DEF Foretold, Serves
  <2> QED
    BY <1>2, <1>4, <1>5, <2>2, <2>3 DEF Foretold, Departs, CalledOut, Undisturbed
<1> QED
  BY <1>7, <1>8
-----------------------------------------------------------------------------
(* The inductive invariant. *)
Forecast == Daemon /\ Listening /\ Cables /\ Foretold

LEMMA ForecastInit == DryInit => Forecast
<1> SUFFICES ASSUME DryInit PROVE Forecast
  OBVIOUS
<1>1. /\ Daemon /\ inbox = <<>> /\ open = {} /\ plugged = {} /\ usb = <<>> /\ commands = <<>>
      /\ sup.pc = "down" /\ \A m \in Ids : ~mount[m].asked
      /\ \A k \in Keys : mounts[k] = None
      /\ \A d \in Devices : Key[d] \in Keys
  BY DaemonInit, KeyOfDevice DEF DryInit, Init, At, NoMount
<1>2. Listening
  BY <1>1 DEF Listening, Tallies, DryInit
<1>3. Cables
  BY <1>1 DEF Cables, Opens
<1>4. Foretold
  BY <1>1 DEF Foretold, Departs, Serves, CalledOut, Holds, IsDead, Mounting
<1> QED
  BY <1>1, <1>2, <1>3, <1>4 DEF Forecast

LEMMA ForecastStep ==
  ASSUME DistinctKeys PROVE Forecast /\ [DryNext]_DryVars => Forecast'
<1> SUFFICES ASSUME Forecast, [DryNext]_DryVars PROVE Listening' /\ Cables' /\ Foretold'
  BY DaemonStays DEF Forecast
<1>0. Daemon /\ Listening /\ Cables /\ Foretold
  BY DEF Forecast
<1>1. ASSUME UNCHANGED vars, Listening', \A k : Opens(k)' <=> Opens(k), Tidy' => Tidy
      PROVE  Cables' /\ Foretold'
  <2>1. UNCHANGED <<plugged, usb, commands, sup, mounts, mount>>
    BY <1>1 DEF vars
  <2>2. /\ \A k : LeftWaits(k)' <=> LeftWaits(k)
        /\ \A d : Comes(d) => Comes(d)'
        /\ \A k : (Holds(k)' <=> Holds(k)) /\ (IsDead(k)' <=> IsDead(k))
        /\ Serving' <=> Serving
    BY <2>1, NothingWaits DEF Holds, IsDead, Mounting, Serving
  <2>3. Cables' /\ Departs' /\ (Undisturbed => Serves') /\ (~Resets => CalledOut')
    BY <1>0, <1>1, <2>1, <2>2 DEF Cables, Foretold, Departs, Serves, CalledOut
  <2> QED
    BY <2>3 DEF Foretold, Undisturbed
<1>2. CASE UNCHANGED DryVars
  <2>1. UNCHANGED <<vars, inbox, dry>> /\ Listening'
    BY <1>0, <1>2 DEF DryVars, Listening, dry
  <2> QED
    BY <1>1, <2>1, DryStays
<1>3. CASE DryStep
  BY <1>0, <1>1, <1>3, StepListens
<1>4. ASSUME NEW d \in Devices, DryPlug(d) \/ \E k \in LeftAs[d] : DryUnplug(d, k)
      PROVE  Listening' /\ Cables' /\ Foretold'
  BY <1>0, <1>4, PlugForetold, UnplugForetold
<1>5. CASE DaemonStep /\ UNCHANGED <<inbox, dry>>
  <2>1. UNCHANGED plugged
    BY <1>5 DEF DaemonStep, SupervisorStep, Reset, GivesUp, WatcherSends, WatcherStops, Watch,
       Signal, MountBegin, MountDone, UnmountBegin, UnmountDone, StopBegin, Exit, StopMount,
       Start, Clean, MountFails, Crash, Ends, cables
  <2>2. Listening' /\ Cables'
    BY <1>0, <1>5, <2>1, DryStays DEF Listening, Cables, dry
  <2>3. Foretold'
    BY <1>0, <1>5, ForetoldAround, ForetoldLives, ForetoldMountBegin, ForetoldMounts,
       ForetoldUnmountBegin DEF DaemonStep, SupervisorStep
  <2> QED
    BY <2>2, <2>3
<1> QED
  BY <1>2, <1>3, <1>4, <1>5 DEF DryNext

(* Once the daemon and the dry run have dealt with every event, what the   *)
(* dry run lists as mounted is, and, when no departure was called out,     *)
(* nothing else: over any sequence of plugs, departures under other keys,  *)
(* kills and restarts.  A touched dead mount and a refused one are the     *)
(* daemon's own doing, which the dry run does not see; with a shared key a *)
(* restarted daemon mounts the second device, which the dry run gave up.   *)
THEOREM DryRunForetells ==
  ASSUME DistinctKeys, Undisturbed PROVE DrySpec => []Foretells
<1>1. Forecast => Foretells
  <2> SUFFICES ASSUME Forecast, Quiet
               PROVE  /\ MountedKeys \subseteq open
                      /\ tally.unmatched = 0 => MountedKeys = open
    BY DEF Foretells
  <2>1. /\ sup.pc = "recv" /\ usb = <<>> /\ commands = <<>> /\ inbox = <<>>
        /\ Daemon /\ Listening /\ Cables /\ Departs /\ Serves
    BY DEF Quiet, Forecast, Foretold
  <2>2. /\ \A k : ~LeftWaits(k) /\ \A d : ~Comes(d)
        /\ \A k : Opens(k) <=> k \in open
        /\ tally.unmatched = 0 => Tidy
        /\ \A k : Holds(k) <=> mounts[k] # None
    BY <2>1 DEF LeftWaits, Comes, Opens, Tidy, Holds, Mounting
  <2>3. MountedKeys \subseteq open
    BY <2>1, <2>2 DEF MountedKeys, Daemon, Kept, Attached, Departs
  <2>4. ASSUME tally.unmatched = 0, NEW k \in open PROVE k \in MountedKeys
    <3>1. PICK d \in Devices : k = Key[d]
      BY <2>1 DEF Listening
    <3>2. d \in plugged /\ Serving
      BY <2>1, <2>2, <2>4, <3>1 DEF Cables, Serving
    <3>3. Holds(k)
      BY <2>1, <2>2, <3>1, <3>2 DEF Serves
    <3> QED
      BY <2>2, <3>1, <3>3, KeyOfDevice DEF MountedKeys
  <2> QED
    BY <2>3, <2>4
<1>2. Forecast /\ [DryNext]_DryVars => Forecast'
  BY ForecastStep
<1> QED
  BY <1>1, <1>2, ForecastInit, PTL DEF DrySpec

(* A daemon that is left with the mount of a device that is gone has a     *)
(* departure behind it that the summary calls a problem, whether or not    *)
(* the mount was touched or refused before.  A session that is reset       *)
(* leaves its cable alone: its dead mount is none of the dry run's.        *)
THEOREM LeaksAreCalledOut ==
  ASSUME DistinctKeys, ~Resets PROVE DrySpec => []LeakIsCalledOut
<1>1. Forecast => LeakIsCalledOut
  <2> SUFFICES ASSUME Forecast, Quiet, NEW k \in Keys, Dead(k)
               PROVE  Summary = "problem"
    BY DEF LeakIsCalledOut
  <2>1. /\ usb = <<>> /\ commands = <<>> /\ inbox = <<>>
        /\ Listening /\ CalledOut /\ IsDead(k)
    BY DEF Quiet, Forecast, Foretold, Dead, IsDead
  <2>2. ~LeftWaits(k) /\ (tally.unmatched = 0 => Tidy)
    BY <2>1 DEF LeftWaits, Tidy
  <2>3. tally.unmatched # 0
    BY <2>1, <2>2 DEF CalledOut
  <2>4. tally.unmatched > 0
    BY <2>1, <2>3 DEF Listening, Tallies
  <2> QED
    BY <2>4 DEF Summary
<1>2. Forecast /\ [DryNext]_DryVars => Forecast'
  BY ForecastStep
<1> QED
  BY <1>1, <1>2, ForecastInit, PTL DEF DrySpec
=============================================================================
