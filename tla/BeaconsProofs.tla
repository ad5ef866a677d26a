---------------------------- MODULE BeaconsProofs ----------------------------
(***************************************************************************)
(* What holds of the beacons for any number of players, labels, frames and *)
(* messages under way: the types, that no machine has two beacons selected *)
(* and that a label half typed does not outlive the typing.  The three are *)
(* inductive together, and they are about the maps of one machine at a     *)
(* time.  What two machines have in common comes after them, and needs the *)
(* messages between the two.                                               *)
(***************************************************************************)
EXTENDS Beacons, FiniteSetTheorems, SequenceTheorems, WellFoundedInduction, TLAPS

\* A machine's maps m, with its IsEditingBeaconText and its edit line.
IsSelected(m, h, i) == m[h][i] \in Beacon /\ m[h][i].selected

TypedMaps(m) == m \in [Houses -> [Ids -> Entry]]
OneOf(m) ==
    \A h, k \in Houses, i, j \in Ids :
        IsSelected(m, h, i) /\ IsSelected(m, k, j) => h = k /\ i = j
TypingOf(p, m, ed, ln) ==
    \A h \in Houses, i \in Ids :
        (m[h][i] \in Beacon /\ m[h][i].text = Typing) =>
            p = h /\ ed /\ ln = "label" /\ m[h][i].selected
Machine(p, m, ed, ln) == TypedMaps(m) /\ OneOf(m) /\ TypingOf(p, m, ed, ln)

Machines == \A p \in Houses : Machine(p, beacons[p], editing[p], line[p])

\* The rest of the state.
Frames == frame \in [Houses -> Ids] /\ doom \in [Houses -> 1 .. MaxFrame + 1]
Screens ==
    /\ placing \in [Houses -> BOOLEAN]
    /\ editing \in [Houses -> BOOLEAN]
    /\ line \in [Houses -> {"none", "label", "chat"}]
Mail == channel \in [Houses -> [Houses -> Seq(Messages)]]
Maps == beacons \in [Houses -> [Houses -> [Ids -> Entry]]]
Losses == evicted \in [Houses -> SUBSET Ids]

IInv == Frames /\ Screens /\ Mail /\ Maps /\ Losses /\ Machines

------------------------------------------------------------------------------
(* A beacon and the entries made of it.                                        *)

LEMMA BoundsHold == MaxFrame \in Nat /\ Ids \subseteq Nat /\ NoText \notin Texts
                    /\ Typing \notin Labels /\ Absent \notin Beacon /\ Null \notin Beacon
BY BeaconAssumption, EntryAssumption DEF Ids, Labels

LEMMA NewBeaconType ==
    ASSUME NEW text \in Labels
    PROVE  /\ NewBeacon(text) \in Beacon
           /\ ~NewBeacon(text).selected
           /\ NewBeacon(text).text = text
BY DEF NewBeacon, Beacon

LEMMA UnselectedType ==
    ASSUME NEW e \in Entry
    PROVE  /\ Unselected(e) \in Entry
           /\ Unselected(e) \in Beacon <=> e \in Beacon
           /\ e \in Beacon => ~Unselected(e).selected /\ Unselected(e).text = e.text
BY DEF Unselected, Entry, Beacon

LEMMA LabelledType ==
    ASSUME NEW e \in Entry, NEW text \in Labels \cup {Typing}
    PROVE  /\ Labelled(e, text) \in Entry
           /\ Labelled(e, text) \in Beacon <=> e \in Beacon
           /\ e \in Beacon => /\ Labelled(e, text).text = text
                              /\ Labelled(e, text).selected = e.selected
BY DEF Labelled, Entry, Beacon

\* The selected beacons of a machine, and the label that is put on them.
LEMMA SelectedIs ==
    ASSUME NEW p \in Houses, NEW h \in Houses, NEW i \in Ids
    PROVE  /\ <<h, i>> \in Selected(p) <=> IsSelected(beacons[p], h, i)
           /\ i \in OwnSelected(p) <=> IsSelected(beacons[p], p, i)
BY DEF Selected, OwnSelected, Live, IsSelected

LEMMA WithTextMaps ==
    ASSUME NEW p \in Houses, TypedMaps(beacons[p]), NEW text \in Labels \cup {Typing}
    PROVE  /\ TypedMaps(WithText(p, text))
           /\ \A h \in Houses, i \in Ids :
                WithText(p, text)[h][i] =
                    IF IsSelected(beacons[p], h, i) THEN Labelled(beacons[p][h][i], text)
                                                    ELSE beacons[p][h][i]
<1>1. \A h \in Houses, i \in Ids :
        WithText(p, text)[h][i] =
            IF IsSelected(beacons[p], h, i) THEN Labelled(beacons[p][h][i], text)
                                            ELSE beacons[p][h][i]
  BY SelectedIs DEF WithText
<1>2. \A h \in Houses, i \in Ids : WithText(p, text)[h][i] \in Entry
  BY <1>1, LabelledType DEF TypedMaps
<1>3. WithText(p, text) = [h \in Houses |-> [i \in Ids |-> WithText(p, text)[h][i]]]
  BY DEF WithText
<1> QED
  BY <1>1, <1>2, <1>3 DEF TypedMaps

LEMMA NothingSelectedMaps ==
    ASSUME NEW m, TypedMaps(m)
    PROVE  /\ TypedMaps(NothingSelected(m))
           /\ \A h \in Houses, i \in Ids : NothingSelected(m)[h][i] = Unselected(m[h][i])
<1>1. \A h \in Houses, i \in Ids : NothingSelected(m)[h][i] = Unselected(m[h][i])
  BY DEF NothingSelected
<1>2. \A h \in Houses, i \in Ids : NothingSelected(m)[h][i] \in Entry
  BY <1>1, UnselectedType DEF TypedMaps
<1>3. NothingSelected(m) = [h \in Houses |-> [i \in Ids |-> NothingSelected(m)[h][i]]]
  BY DEF NothingSelected
<1> QED
  BY <1>1, <1>2, <1>3 DEF TypedMaps

\* With one label on every selected beacon, and then none selected: no label
\* is half typed any more.
LEMMA Finished ==
    ASSUME NEW p \in Houses, NEW ed, NEW ln, Machine(p, beacons[p], ed, ln),
           NEW text \in Labels, NEW ed2, NEW ln2
    PROVE  Machine(p, NothingSelected(WithText(p, text)), ed2, ln2)
<1> DEFINE w == WithText(p, text)
           n == NothingSelected(w)
<1>0. TypedMaps(beacons[p]) /\ TypingOf(p, beacons[p], ed, ln)
  BY DEF Machine
<1>1. TypedMaps(w) /\ \A h \in Houses, i \in Ids :
                w[h][i] = IF IsSelected(beacons[p], h, i) THEN Labelled(beacons[p][h][i], text)
                                                    ELSE beacons[p][h][i]
  BY <1>0, WithTextMaps
<1> HIDE DEF w
<1>2. TypedMaps(n) /\ \A h \in Houses, i \in Ids : n[h][i] = Unselected(w[h][i])
  BY <1>1, NothingSelectedMaps
<1> HIDE DEF n
<1>3. \A h \in Houses, i \in Ids : w[h][i] \in Entry /\ beacons[p][h][i] \in Entry
  BY <1>0, <1>1 DEF TypedMaps
<1>4. \A h \in Houses, i \in Ids : n[h][i] \in Beacon => ~n[h][i].selected
  BY <1>2, <1>3, UnselectedType
<1>5. \A h \in Houses, i \in Ids : w[h][i] \in Beacon => w[h][i].text # Typing
  BY <1>0, <1>1, <1>3, LabelledType, BoundsHold DEF TypingOf, IsSelected
<1>6. \A h \in Houses, i \in Ids : n[h][i] \in Beacon => n[h][i].text # Typing
  BY <1>2, <1>3, <1>5, UnselectedType
<1>7. Machine(p, n, ed2, ln2)
  BY <1>2, <1>4, <1>6 DEF Machine, OneOf, TypingOf, IsSelected
<1> QED
  BY <1>7 DEF n, w

\* Unselect_All: nothing is selected, and nothing is half typed.
LEMMA UnselectedMachine ==
    ASSUME NEW p \in Houses, Machine(p, beacons[p], editing[p], line[p]),
           NEW ed2, NEW ln2
    PROVE  /\ Machine(p, MapsUnselected(p), ed2, ln2)
           /\ \A h \in Houses, i \in Ids : ~IsSelected(MapsUnselected(p), h, i)
           /\ \A h \in Houses, i \in Ids :
                beacons[p][h][i] \in Beacon <=> MapsUnselected(p)[h][i] \in Beacon
<1>0. TypedMaps(beacons[p]) /\ TypingOf(p, beacons[p], editing[p], line[p])
  BY DEF Machine
<1>a. \A h \in Houses, i \in Ids : beacons[p][h][i] \in Entry
  BY <1>0 DEF TypedMaps
<1>1. CASE editing[p]
  <2>1. MapsUnselected(p) = NothingSelected(WithText(p, NoText))
    BY <1>1 DEF MapsUnselected
  <2>2. NoText \in Labels
    BY DEF Labels
  <2>3. Machine(p, MapsUnselected(p), ed2, ln2)
    BY <2>1, <2>2, Finished
  <2>4. TypedMaps(WithText(p, NoText))
        /\ \A h \in Houses, i \in Ids :
             WithText(p, NoText)[h][i] =
               IF IsSelected(beacons[p], h, i) THEN Labelled(beacons[p][h][i], NoText)
                                               ELSE beacons[p][h][i]
    BY <1>0, <2>2, WithTextMaps
  <2>5. \A h \in Houses, i \in Ids :
          WithText(p, NoText)[h][i] \in Entry
          /\ (WithText(p, NoText)[h][i] \in Beacon <=> beacons[p][h][i] \in Beacon)
    BY <1>a, <2>2, <2>4, LabelledType DEF TypedMaps
  <2>6. \A h \in Houses, i \in Ids :
          MapsUnselected(p)[h][i] = Unselected(WithText(p, NoText)[h][i])
    BY <2>1, <2>4, NothingSelectedMaps
  <2> QED
    BY <2>3, <2>5, <2>6, UnselectedType DEF IsSelected
<1>2. CASE ~editing[p]
  <2>1. MapsUnselected(p) = NothingSelected(beacons[p])
    BY <1>2 DEF MapsUnselected
  <2>2. TypedMaps(MapsUnselected(p))
        /\ \A h \in Houses, i \in Ids : MapsUnselected(p)[h][i] = Unselected(beacons[p][h][i])
    BY <1>0, <2>1, NothingSelectedMaps
  <2>3. \A h \in Houses, i \in Ids :
          /\ MapsUnselected(p)[h][i] \in Beacon <=> beacons[p][h][i] \in Beacon
          /\ ~IsSelected(MapsUnselected(p), h, i)
          /\ MapsUnselected(p)[h][i] \in Beacon => MapsUnselected(p)[h][i].text # Typing
    BY <1>0, <1>2, <1>a, <2>2, UnselectedType DEF IsSelected, TypingOf
  <2> QED
    BY <2>2, <2>3 DEF Machine, OneOf, TypingOf
<1> QED
  BY <1>1, <1>2

------------------------------------------------------------------------------
(* Messages.                                                                   *)

LEMMA MessageTypes ==
    ASSUME NEW i \in Ids, NEW text \in Labels
    PROVE  /\ PlaceMessage(i) \in Messages
           /\ DeleteMessage(i) \in Messages
           /\ TextMessage(i, text) \in Messages
BY DEF PlaceMessage, DeleteMessage, TextMessage, Messages

LEMMA PlaceMessagesType ==
    ASSUME NEW i \in Ids, NEW text \in Labels
    PROVE  PlaceMessages(i, text) \in Seq(Messages)
BY MessageTypes DEF PlaceMessages, LabelMessages

LEMMA TextMessagesType ==
    ASSUME NEW p \in Houses, NEW text \in Labels
    PROVE  TextMessages(p, text) \in Seq(Messages)
<1>1. CASE OwnSelected(p) = {}
  BY <1>1 DEF TextMessages
<1>2. CASE OwnSelected(p) # {}
  <2>1. PICK i \in OwnSelected(p) : i = CHOOSE j \in OwnSelected(p) : TRUE
    BY <1>2
  <2>2. i \in Ids
    BY <2>1 DEF OwnSelected, Selected
  <2> QED
    BY <1>2, <2>1, <2>2, MessageTypes DEF TextMessages
<1> QED
  BY <1>1, <1>2

LEMMA SentUnselectingType ==
    ASSUME NEW p \in Houses
    PROVE  SentUnselecting(p) \in Seq(Messages)
<1>1. NoText \in Labels
  BY DEF Labels
<1> QED
  BY <1>1, TextMessagesType DEF SentUnselecting

LEMMA SentMail ==
    ASSUME Mail, NEW p \in Houses, NEW ms \in Seq(Messages)
    PROVE  Sent(p, ms) \in [Houses -> [Houses -> Seq(Messages)]]
<1> DEFINE r == [q \in Houses |-> IF q = p THEN channel[p][q] ELSE channel[p][q] \o ms]
<1>1. channel[p] \in [Houses -> Seq(Messages)]
  BY DEF Mail
<1>2. r \in [Houses -> Seq(Messages)]
  BY <1>1
<1>3. Sent(p, ms) = [channel EXCEPT ![p] = r]
  BY DEF Sent, Mail
<1> HIDE DEF r
<1> QED
  BY <1>2, <1>3 DEF Mail

LEMMA FirstType ==
    ASSUME Mail, NEW p \in Houses, NEW q \in Houses, channel[q][p] # <<>>
    PROVE  /\ First(p, q) \in Messages
           /\ First(p, q).id \in Ids
           /\ First(p, q).kind = "text" => First(p, q).text \in Labels
           /\ [channel EXCEPT ![q][p] = Tail(@)] \in [Houses -> [Houses -> Seq(Messages)]]
<1>1. channel[q][p] \in Seq(Messages)
  BY DEF Mail
<1>2. First(p, q) \in Messages /\ Tail(channel[q][p]) \in Seq(Messages)
  BY <1>1 DEF First
<1>3. [channel EXCEPT ![q][p] = Tail(@)] \in [Houses -> [Houses -> Seq(Messages)]]
  BY <1>2 DEF Mail
<1> QED
  BY <1>2, <1>3 DEF Messages

------------------------------------------------------------------------------
(* An action changes the maps, the mode and the line of one machine.           *)

LEMMA OneMachine ==
    ASSUME Maps, Screens, Machines, NEW p \in Houses, NEW m, NEW ed \in BOOLEAN, NEW ln,
           beacons' = [beacons EXCEPT ![p] = m],
           editing' = [editing EXCEPT ![p] = ed],
           line' = [line EXCEPT ![p] = ln],
           ln \in {"none", "label", "chat"},
           Machine(p, m, ed, ln)
    PROVE  /\ Maps' /\ Machines'
           /\ editing' \in [Houses -> BOOLEAN]
           /\ line' \in [Houses -> {"none", "label", "chat"}]
<1>1. m \in [Houses -> [Ids -> Entry]]
  BY DEF Machine, TypedMaps
<1>2. beacons' \in [Houses -> [Houses -> [Ids -> Entry]]]
  BY <1>1 DEF Maps
<1>3. editing' \in [Houses -> BOOLEAN]
  BY DEF Screens
<1>4. line' \in [Houses -> {"none", "label", "chat"}]
  BY DEF Screens
<1>5. ASSUME NEW q \in Houses PROVE Machine(q, beacons'[q], editing'[q], line'[q])
  <2>1. CASE q = p
    BY <2>1 DEF Maps, Screens
  <2>2. CASE q # p
    <3>1. beacons'[q] = beacons[q] /\ editing'[q] = editing[q] /\ line'[q] = line[q]
      BY <2>2 DEF Maps, Screens
    <3> QED
      BY <3>1 DEF Machines
  <2> QED
    BY <2>1, <2>2
<1> QED
  BY <1>2, <1>3, <1>4, <1>5 DEF Maps, Machines

\* ... or its maps only.
LEMMA OneMaps ==
    ASSUME Maps, Screens, Machines, NEW p \in Houses, NEW m,
           beacons' = [beacons EXCEPT ![p] = m],
           UNCHANGED <<editing, line>>,
           Machine(p, m, editing[p], line[p])
    PROVE  Maps' /\ Machines'
<1>1. editing' = [editing EXCEPT ![p] = editing[p]] /\ line' = [line EXCEPT ![p] = line[p]]
  BY DEF Screens
<1>2. editing[p] \in BOOLEAN /\ line[p] \in {"none", "label", "chat"}
  BY DEF Screens
<1> DEFINE ed == editing[p]
           ln == line[p]
<1>3. /\ editing' = [editing EXCEPT ![p] = ed] /\ line' = [line EXCEPT ![p] = ln]
      /\ ed \in BOOLEAN /\ ln \in {"none", "label", "chat"}
      /\ Machine(p, m, ed, ln)
  BY <1>1, <1>2
<1> HIDE DEF ed, ln
<1> QED
  BY <1>3, OneMachine, Zenon

\* One entry changes: what is put in its place is not half typed, and selected
\* only where nothing else is.
LEMMA OneEntry ==
    ASSUME NEW p \in Houses, NEW m, NEW ed, NEW ln, Machine(p, m, ed, ln),
           NEW h \in Houses, NEW i \in Ids, NEW e \in Entry,
           e \in Beacon => /\ e.text # Typing
                           /\ e.selected => \A k \in Houses, j \in Ids : ~IsSelected(m, k, j)
    PROVE  Machine(p, [m EXCEPT ![h] = [@ EXCEPT ![i] = e]], ed, ln)
<1> DEFINE n == [m EXCEPT ![h] = [@ EXCEPT ![i] = e]]
<1>1. m \in [Houses -> [Ids -> Entry]]
  BY DEF Machine, TypedMaps
<1>2. n \in [Houses -> [Ids -> Entry]]
      /\ \A k \in Houses, j \in Ids : n[k][j] = IF k = h /\ j = i THEN e ELSE m[k][j]
  BY <1>1
<1> HIDE DEF n
<1>3. OneOf(n)
  BY <1>2 DEF Machine, OneOf, IsSelected
<1>4. TypingOf(p, n, ed, ln)
  BY <1>2 DEF Machine, TypingOf
<1>5. Machine(p, n, ed, ln)
  BY <1>2, <1>3, <1>4 DEF Machine, TypedMaps
<1> QED
  BY <1>5 DEF n

------------------------------------------------------------------------------
(* The actions.                                                                *)

LEMMA InitInv == Init => IInv
<1> SUFFICES ASSUME Init PROVE IInv
  OBVIOUS
<1>1. Frames
  BY BoundsHold DEF Init, Frames, Ids
<1>2. Screens /\ Mail /\ Losses
  BY DEF Init, Screens, Mail, Losses
<1>3. Maps
  BY DEF Init, Maps, Entry
<1>4. \A p, h \in Houses, i \in Ids : beacons[p][h][i] \notin Beacon
  BY BoundsHold DEF Init
<1>5. Machines
  BY <1>3, <1>4 DEF Machines, Machine, TypedMaps, OneOf, TypingOf, IsSelected, Maps
<1> QED
  BY <1>1, <1>2, <1>3, <1>5 DEF IInv

LEMMA NextFrameInv ==
    ASSUME IInv, NEW p \in Houses, NextFrame(p)
    PROVE  IInv'
<1> USE DEF IInv
<1> DEFINE m == [h \in Houses |-> IF h = p /\ doom[h] = frame[p] + 1
                                  THEN [i \in Ids |-> Absent]
                                  ELSE beacons[p][h]]
<1>1. Frames'
  <2>1. frame[p] + 1 \in Ids
    BY BoundsHold DEF NextFrame, Frames, Ids
  <2> QED
    BY <2>1 DEF NextFrame, Frames
<1>2. Screens' /\ Mail' /\ Losses'
  BY DEF NextFrame, Screens, Mail, Losses, screen
<1>3. Machine(p, beacons[p], editing[p], line[p])
  BY DEF Machines
<1>4. \A h \in Houses, i \in Ids : m[h][i] \in {Absent, beacons[p][h][i]}
  OBVIOUS
<1>5. TypedMaps(m)
  BY <1>3 DEF Machine, TypedMaps, Entry
<1>6. beacons' = [beacons EXCEPT ![p] = m]
  BY DEF NextFrame, Maps
<1> HIDE DEF m
<1>7. OneOf(m)
  BY <1>3, <1>4, BoundsHold DEF Machine, OneOf, IsSelected
<1>8. TypingOf(p, m, editing[p], line[p])
  BY <1>3, <1>4, BoundsHold DEF Machine, TypingOf
<1>9. Machine(p, m, editing[p], line[p])
  BY <1>5, <1>7, <1>8 DEF Machine
<1>10. UNCHANGED <<editing, line>>
  BY DEF NextFrame, screen
<1>11. Maps' /\ Machines'
  BY <1>6, <1>9, <1>10, OneMaps
<1> QED
  BY <1>1, <1>2, <1>11

\* Unselect_All, and the message it sends.
LEMMA UnselectingInv ==
    ASSUME IInv, NEW p \in Houses, NEW b \in BOOLEAN,
           beacons' = [beacons EXCEPT ![p] = MapsUnselected(p)],
           channel' = Sent(p, SentUnselecting(p)),
           placing' = [placing EXCEPT ![p] = b],
           editing' = [editing EXCEPT ![p] = FALSE],
           line' = [line EXCEPT ![p] = LineUnselected(p)],
           UNCHANGED <<frame, doom, evicted>>
    PROVE  IInv'
<1> USE DEF IInv
<1>1. Frames' /\ Losses'
  BY DEF Frames, Losses
<1>2. Mail'
  BY SentUnselectingType, SentMail DEF Mail
<1>3. LineUnselected(p) \in {"none", "label", "chat"}
  BY DEF LineUnselected, Screens
<1>4. placing' \in [Houses -> BOOLEAN]
  BY DEF Screens
<1>5. Machine(p, MapsUnselected(p), FALSE, LineUnselected(p))
  BY UnselectedMachine DEF Machines
<1>6. /\ Maps' /\ Machines'
      /\ editing' \in [Houses -> BOOLEAN]
      /\ line' \in [Houses -> {"none", "label", "chat"}]
  BY <1>3, <1>5, OneMachine
<1> QED
  BY <1>1, <1>2, <1>4, <1>6 DEF Screens

LEMMA ModesInv ==
    ASSUME IInv, NEW p \in Houses, ModeOn(p) \/ ModeOff(p) \/ UnselectAll(p) \/ PlaceNothing(p)
    PROVE  IInv'
<1>1. CASE ModeOn(p)
  BY <1>1, UnselectingInv DEF ModeOn
<1>2. CASE UnselectAll(p)
  BY <1>2, UnselectingInv DEF UnselectAll
<1>3. CASE ModeOff(p) \/ PlaceNothing(p)
  <2>1. /\ placing' = [placing EXCEPT ![p] = FALSE]
        /\ UNCHANGED <<frame, doom, beacons, evicted, channel, editing, line>>
    BY <1>3 DEF ModeOff, PlaceNothing
  <2>2. Frames' /\ Losses' /\ Mail' /\ Maps' /\ Screens'
    BY <2>1 DEF IInv, Frames, Losses, Mail, Maps, Screens
  <2>3. Machines'
    BY <2>1 DEF IInv, Machines
  <2> QED
    BY <2>2, <2>3 DEF IInv
<1> QED
  BY <1>1, <1>2, <1>3

\* A set of identifiers has a first one.
LEMMA OldestType ==
    ASSUME NEW ids, ids \subseteq Ids, ids # {}
    PROVE  Oldest(ids) \in ids
<1> DEFINE R == {ss \in Nat \X Nat : ss[1] < ss[2]}
<1>1. IsWellFoundedOn(R, Nat)
  BY NatLessThanWellFounded DEF OpToRel
<1>2. ids \subseteq Nat
  BY BoundsHold
<1> HIDE DEF R
<1>3. PICK x \in ids : \A y \in ids : ~(<<y, x>> \in R)
  BY <1>1, <1>2, WFMin
<1>4. ASSUME NEW y \in ids PROVE x <= y
  <2>1. x \in Nat /\ y \in Nat /\ (<<y, x>> \in R <=> y < x)
    BY <1>2 DEF R
  <2> QED
    BY <1>3, <2>1
<1> QED
  BY <1>4 DEF Oldest

\* What MaxBeacons takes is on the map.
LEMMA CrowdedIs ==
    ASSUME NEW p \in Houses
    PROVE  Crowded(p) \subseteq Live(p, p) /\ Crowded(p) \subseteq Ids
<1>1. Live(p, p) \subseteq Ids
  BY DEF Live
<1>2. CASE MaxBeacons > 0 /\ Cardinality(Live(p, p)) >= MaxBeacons
  <2>1. Cardinality({}) = 0
    BY FS_EmptySet
  <2>2. Live(p, p) # {}
    BY <1>2, <2>1, BeaconAssumption
  <2>3. Oldest(Live(p, p)) \in Live(p, p)
    BY <1>1, <2>2, OldestType
  <2> QED
    BY <1>1, <1>2, <2>3 DEF Crowded
<1> QED
  BY <1>2 DEF Crowded

LEMMA PlaceBeaconInv ==
    ASSUME IInv, NEW p \in Houses, NEW text \in Labels, PlaceBeacon(p, text)
    PROVE  IInv'
<1> USE DEF IInv
<1> DEFINE r == [i \in Ids |-> IF i = frame[p] THEN NewBeacon(text)
                               ELSE IF i \in Crowded(p) THEN Absent ELSE beacons[p][p][i]]
           m == [beacons[p] EXCEPT ![p] = r]
<1>0. frame[p] \in Ids
  BY DEF Frames
<1>1. Frames'
  BY DEF PlaceBeacon, Frames
<1>2. Mail'
  <2>1. PlaceMessages(frame[p], text) \in Seq(Messages)
    BY <1>0, PlaceMessagesType
  <2> QED
    BY <2>1, SentMail DEF PlaceBeacon, Mail
<1>3. Losses'
  BY CrowdedIs DEF PlaceBeacon, Losses
<1>4. Machine(p, beacons[p], editing[p], line[p])
  BY DEF Machines
<1>5. beacons[p] \in [Houses -> [Ids -> Entry]]
  BY <1>4 DEF Machine, TypedMaps
<1>6. /\ m \in [Houses -> [Ids -> Entry]]
      /\ \A h \in Houses, i \in Ids : m[h][i] \in {NewBeacon(text), Absent, beacons[p][h][i]}
  BY <1>5, NewBeaconType DEF Entry
<1>7. beacons' = [beacons EXCEPT ![p] = m]
  BY <1>5 DEF PlaceBeacon, Maps
<1> HIDE DEF m, r
<1>a. \A h \in Houses, i \in Ids : IsSelected(m, h, i) => IsSelected(beacons[p], h, i)
  BY <1>6, BoundsHold, NewBeaconType DEF IsSelected
<1>8. OneOf(m)
  BY <1>4, <1>a DEF Machine, OneOf
<1>9. TypingOf(p, m, editing[p], line[p])
  BY <1>4, <1>6, BoundsHold, NewBeaconType DEF Machine, TypingOf
<1>10. Machine(p, m, editing[p], line[p])
  BY <1>6, <1>8, <1>9 DEF Machine, TypedMaps
<1>11. UNCHANGED <<editing, line>>
  BY DEF PlaceBeacon
<1>12. Maps' /\ Machines'
  BY <1>7, <1>10, <1>11, OneMaps
<1>13. Screens'
  BY DEF PlaceBeacon, Screens
<1> QED
  BY <1>1, <1>2, <1>3, <1>12, <1>13

LEMMA SelectBeaconInv ==
    ASSUME IInv, NEW p \in Houses, NEW h \in Houses, NEW i \in Ids, SelectBeacon(p, h, i)
    PROVE  IInv'
<1> USE DEF IInv
<1> DEFINE u == MapsUnselected(p)
           m == [u EXCEPT ![h][i].selected = TRUE]
           ln == LineUnselected(p)
<1>1. Frames' /\ Losses'
  BY DEF SelectBeacon, Frames, Losses
<1>2. Mail'
  BY SentUnselectingType, SentMail DEF SelectBeacon, Mail
<1>3. beacons[p][h][i] \in Beacon
  BY DEF SelectBeacon, IsVisibleToPlayer, Live
<1>4. /\ Machine(p, u, FALSE, ln)
      /\ \A k \in Houses, j \in Ids : ~IsSelected(u, k, j)
      /\ u[h][i] \in Beacon
  BY <1>3, UnselectedMachine DEF Machines
<1> HIDE DEF u
<1>5. u \in [Houses -> [Ids -> Entry]]
  BY <1>4 DEF Machine, TypedMaps
<1> DEFINE e == [u[h][i] EXCEPT !.selected = TRUE]
<1>6. e \in Beacon /\ e.selected /\ e.text = u[h][i].text
  BY <1>4 DEF Beacon
<1>7. \A k \in Houses, j \in Ids : m[k][j] = IF k = h /\ j = i THEN e ELSE u[k][j]
  BY <1>5
<1>8. m \in [Houses -> [Ids -> Entry]]
  BY <1>5, <1>6 DEF Entry
<1> HIDE DEF m, e
<1>9. \A k \in Houses, j \in Ids : IsSelected(m, k, j) => k = h /\ j = i
  BY <1>4, <1>7 DEF IsSelected
<1>10. \A k \in Houses, j \in Ids : m[k][j] \in Beacon => m[k][j].text # Typing
  BY <1>4, <1>6, <1>7 DEF Machine, TypingOf
<1>11. Machine(p, m, FALSE, ln)
  BY <1>8, <1>9, <1>10 DEF Machine, TypedMaps, OneOf, TypingOf
<1>12. ln \in {"none", "label", "chat"}
  BY DEF LineUnselected, Screens
<1>13. /\ beacons' = [beacons EXCEPT ![p] = m]
       /\ editing' = [editing EXCEPT ![p] = FALSE]
       /\ line' = [line EXCEPT ![p] = ln]
       /\ UNCHANGED placing
  BY DEF SelectBeacon, m, u
<1> HIDE DEF ln
<1>14. /\ Maps' /\ Machines'
       /\ editing' \in [Houses -> BOOLEAN]
       /\ line' \in [Houses -> {"none", "label", "chat"}]
  BY <1>11, <1>12, <1>13, OneMachine
<1> QED
  BY <1>1, <1>2, <1>13, <1>14 DEF Screens

LEMMA WithMaps ==
    ASSUME Maps, NEW p \in Houses, NEW h \in Houses, NEW i \in Ids, NEW e
    PROVE  With(p, h, i, e) = [beacons[p] EXCEPT ![h] = [@ EXCEPT ![i] = e]]
BY DEF With, Maps

LEMMA DeleteBeaconInv ==
    ASSUME IInv, NEW p \in Houses, DeleteBeacon(p)
    PROVE  IInv'
<1> USE DEF IInv
<1>1. Frames' /\ Losses' /\ Screens'
  BY DEF DeleteBeacon, Frames, Losses, Screens, screen
<1>2. UNCHANGED <<editing, line>>
  BY DEF DeleteBeacon, screen
<1>3. PICK b \in Selected(p) :
         IF b[1] = p
         THEN /\ beacons' = [beacons EXCEPT ![p] = With(p, p, b[2], Absent)]
              /\ channel' = Sent(p, <<DeleteMessage(b[2])>>)
         ELSE /\ beacons' = [beacons EXCEPT ![p] =
                    With(p, b[1], b[2],
                         [beacons[p][b[1]][b[2]] EXCEPT !.visible = FALSE, !.selected = FALSE])]
              /\ UNCHANGED channel
  BY DEF DeleteBeacon
<1>4. PICK h \in Houses, i \in Ids : b = <<h, i>>
  BY <1>3 DEF Selected
<1>5. IsSelected(beacons[p], h, i)
  BY <1>3, <1>4, SelectedIs
<1>6. Machine(p, beacons[p], editing[p], line[p])
  BY DEF Machines
<1>7. CASE h = p
  <2>1. beacons' = [beacons EXCEPT ![p] = With(p, p, i, Absent)]
        /\ channel' = Sent(p, <<DeleteMessage(i)>>)
    BY <1>3, <1>4, <1>7
  <2>a. NoText \in Labels
    BY DEF Labels
  <2>2. <<DeleteMessage(i)>> \in Seq(Messages)
    BY <2>a, MessageTypes
  <2>3. Mail'
    BY <2>1, <2>2, SentMail DEF Mail
  <2>4. Absent \in Entry /\ Absent \notin Beacon
    BY BoundsHold DEF Entry
  <2>5. Machine(p, With(p, p, i, Absent), editing[p], line[p])
    BY <1>6, <2>4, WithMaps, OneEntry
  <2>6. Maps' /\ Machines'
    BY <1>2, <2>1, <2>5, OneMaps
  <2> QED
    BY <1>1, <2>3, <2>6
<1>8. CASE h # p
  <2> DEFINE e == [beacons[p][h][i] EXCEPT !.visible = FALSE, !.selected = FALSE]
  <2>1. beacons' = [beacons EXCEPT ![p] = With(p, h, i, e)] /\ UNCHANGED channel
    BY <1>3, <1>4, <1>8
  <2>2. e \in Beacon /\ ~e.selected /\ e.text = beacons[p][h][i].text
    BY <1>5 DEF IsSelected, Beacon
  <2>3. e.text # Typing
    BY <1>5, <1>6, <1>8, <2>2 DEF Machine, TypingOf, IsSelected
  <2>4. e \in Entry
    BY <2>2 DEF Entry
  <2> HIDE DEF e
  <2>5. Machine(p, With(p, h, i, e), editing[p], line[p])
    BY <1>6, <2>2, <2>3, <2>4, WithMaps, OneEntry
  <2>6. Maps' /\ Machines'
    BY <1>2, <2>1, <2>5, OneMaps
  <2> QED
    BY <1>1, <2>1, <2>6 DEF Mail
<1> QED
  BY <1>7, <1>8

LEMMA BeginLabelInv ==
    ASSUME IInv, NEW p \in Houses, BeginLabel(p)
    PROVE  IInv'
<1> USE DEF IInv
<1> DEFINE w == WithText(p, Typing)
<1>1. Frames' /\ Losses' /\ Mail' /\ placing' \in [Houses -> BOOLEAN]
  BY DEF BeginLabel, Frames, Losses, Mail, Screens
<1>2. Machine(p, beacons[p], editing[p], line[p])
  BY DEF Machines
<1>3. \A h \in Houses, i \in Ids : beacons[p][h][i] \in Entry
  BY <1>2 DEF Machine, TypedMaps
<1>4. TypedMaps(w) /\ \A h \in Houses, i \in Ids :
        w[h][i] = IF IsSelected(beacons[p], h, i) THEN Labelled(beacons[p][h][i], Typing)
                                                  ELSE beacons[p][h][i]
  BY <1>2, WithTextMaps DEF Machine
<1> HIDE DEF w
<1>5. \A h \in Houses, i \in Ids : IsSelected(w, h, i) <=> IsSelected(beacons[p], h, i)
  BY <1>3, <1>4, LabelledType DEF IsSelected
<1>6. PICK j \in Ids : IsSelected(beacons[p], p, j)
  <2>1. PICK j : j \in OwnSelected(p)
    BY DEF BeginLabel
  <2>2. j \in Ids
    BY <2>1 DEF OwnSelected
  <2> QED
    BY <2>1, <2>2, SelectedIs
<1>7. \A h \in Houses, i \in Ids : IsSelected(beacons[p], h, i) => h = p
  BY <1>2, <1>6 DEF Machine, OneOf
<1>8. OneOf(w)
  BY <1>2, <1>5 DEF Machine, OneOf
<1>9. line[p] = "none"
  BY DEF BeginLabel
<1>10. \A h \in Houses, i \in Ids :
         beacons[p][h][i] \in Beacon => beacons[p][h][i].text # Typing
  BY <1>2, <1>9 DEF Machine, TypingOf
<1>11. TypingOf(p, w, TRUE, "label")
  BY <1>4, <1>5, <1>7, <1>10 DEF TypingOf, IsSelected
<1>12. Machine(p, w, TRUE, "label")
  BY <1>4, <1>8, <1>11 DEF Machine
<1>13. /\ beacons' = [beacons EXCEPT ![p] = w]
       /\ editing' = [editing EXCEPT ![p] = TRUE]
       /\ line' = [line EXCEPT ![p] = "label"]
  BY DEF BeginLabel, w
<1>14. /\ Maps' /\ Machines'
       /\ editing' \in [Houses -> BOOLEAN]
       /\ line' \in [Houses -> {"none", "label", "chat"}]
  BY <1>12, <1>13, OneMachine
<1> QED
  BY <1>1, <1>14 DEF Screens

LEMMA BeginChatInv ==
    ASSUME IInv, NEW p \in Houses, BeginChat(p)
    PROVE  IInv'
<1> USE DEF IInv
<1>1. Frames' /\ Losses' /\ Mail' /\ placing' \in [Houses -> BOOLEAN]
  BY DEF BeginChat, Frames, Losses, Mail, Screens
<1>2. Machine(p, beacons[p], editing[p], line[p]) /\ line[p] = "none"
  BY DEF Machines, BeginChat
<1> DEFINE m == beacons[p]
           ed == editing[p]
<1>3. Machine(p, m, ed, "chat")
  BY <1>2 DEF Machine, TypingOf
<1>4. /\ beacons' = [beacons EXCEPT ![p] = m]
      /\ editing' = [editing EXCEPT ![p] = ed]
      /\ line' = [line EXCEPT ![p] = "chat"]
      /\ ed \in BOOLEAN
  BY DEF BeginChat, Maps, Screens
<1> HIDE DEF m, ed
<1>5. /\ Maps' /\ Machines'
      /\ editing' \in [Houses -> BOOLEAN]
      /\ line' \in [Houses -> {"none", "label", "chat"}]
  BY <1>3, <1>4, OneMachine, Zenon
<1> QED
  BY <1>1, <1>5 DEF Screens

\* Without a beacon of his own selected, a player has no label half typed: the
\* line may be closed without labelling.
LEMMA EndLineInv ==
    ASSUME IInv, NEW p \in Houses, NEW text \in Labels, EndLine(p, text)
    PROVE  IInv'
<1> USE DEF IInv
<1>1. Frames' /\ Losses' /\ placing' \in [Houses -> BOOLEAN]
  BY DEF EndLine, Frames, Losses, Screens
<1>2. Machine(p, beacons[p], editing[p], line[p])
  BY DEF Machines
<1>3. line' = [line EXCEPT ![p] = "none"]
  BY DEF EndLine
<1>4. CASE editing[p] /\ OwnSelected(p) # {}
  <2> DEFINE n == NothingSelected(WithText(p, text))
  <2>1. /\ beacons' = [beacons EXCEPT ![p] = n]
        /\ channel' = Sent(p, TextMessages(p, text))
        /\ editing' = [editing EXCEPT ![p] = FALSE]
    BY <1>4 DEF EndLine
  <2>2. Mail'
    BY <2>1, TextMessagesType, SentMail DEF Mail
  <2>3. Machine(p, n, FALSE, "none")
    BY <1>2, Finished
  <2> HIDE DEF n
  <2>4. /\ Maps' /\ Machines'
        /\ editing' \in [Houses -> BOOLEAN]
        /\ line' \in [Houses -> {"none", "label", "chat"}]
    BY <1>3, <2>1, <2>3, OneMachine
  <2> QED
    BY <1>1, <2>2, <2>4 DEF Screens
<1>5. CASE ~(editing[p] /\ OwnSelected(p) # {})
  <2> DEFINE m == beacons[p]
             ed == editing[p]
  <2>1. UNCHANGED <<beacons, channel, editing>>
    BY <1>5 DEF EndLine
  <2>2. Mail'
    BY <2>1 DEF Mail
  <2>3. \A h \in Houses, i \in Ids : m[h][i] \in Beacon => m[h][i].text # Typing
    <3>1. CASE ~editing[p]
      BY <1>2, <3>1 DEF Machine, TypingOf
    <3>2. CASE OwnSelected(p) = {}
      <4>1. \A i \in Ids : ~IsSelected(beacons[p], p, i)
        BY <3>2, SelectedIs
      <4> QED
        BY <1>2, <4>1 DEF Machine, TypingOf, IsSelected
    <3> QED
      BY <1>5, <3>1, <3>2
  <2>4. Machine(p, m, ed, "none")
    BY <1>2, <2>3 DEF Machine, TypingOf
  <2>5. /\ beacons' = [beacons EXCEPT ![p] = m]
        /\ editing' = [editing EXCEPT ![p] = ed]
        /\ ed \in BOOLEAN
    BY <2>1 DEF Maps, Screens
  <2> HIDE DEF m, ed
  <2>6. /\ Maps' /\ Machines'
        /\ editing' \in [Houses -> BOOLEAN]
        /\ line' \in [Houses -> {"none", "label", "chat"}]
    BY <1>3, <2>4, <2>5, OneMachine, Zenon
  <2> QED
    BY <1>1, <2>2, <2>6 DEF Screens
<1> QED
  BY <1>4, <1>5

\* A message of q reaches p: its entry is no half-typed label, and selected
\* only if it was.
LEMMA ArriveInv ==
    ASSUME IInv, NEW p \in Houses, NEW q \in Houses, NEW e \in Entry, Arrive(p, q, e),
           e \in Beacon => /\ e.text # Typing
                           /\ e.selected => Found(p, q) \in Beacon /\ Found(p, q).selected
    PROVE  IInv'
<1> USE DEF IInv
<1> DEFINE i == First(p, q).id
           m == With(p, q, i, e)
<1>1. Frames' /\ Losses' /\ Screens'
  BY DEF Arrive, Frames, Losses, Screens, screen
<1>2. i \in Ids /\ Mail'
  BY FirstType DEF Arrive, Mail
<1>3. Machine(p, beacons[p], editing[p], line[p])
  BY DEF Machines
<1>4. beacons[p] \in [Houses -> [Ids -> Entry]]
  BY <1>3 DEF Machine, TypedMaps
<1>5. /\ beacons' = [beacons EXCEPT ![p] = m]
      /\ UNCHANGED <<editing, line>>
  BY DEF Arrive, First, screen
<1>6. m = [beacons[p] EXCEPT ![q] = [@ EXCEPT ![i] = e]]
  BY <1>2, WithMaps
<1>7. Found(p, q) = beacons[p][q][i]
  BY DEF Found
<1> HIDE DEF i, m
<1>8. /\ m \in [Houses -> [Ids -> Entry]]
      /\ \A h \in Houses, j \in Ids : m[h][j] = IF h = q /\ j = i THEN e ELSE beacons[p][h][j]
  BY <1>2, <1>4, <1>6
<1>9. \A h \in Houses, j \in Ids : IsSelected(m, h, j) => IsSelected(beacons[p], h, j)
  BY <1>7, <1>8 DEF IsSelected
<1>10. OneOf(m)
  BY <1>3, <1>9 DEF Machine, OneOf
<1>11. TypingOf(p, m, editing[p], line[p])
  BY <1>3, <1>8 DEF Machine, TypingOf
<1>12. Machine(p, m, editing[p], line[p])
  BY <1>8, <1>10, <1>11 DEF Machine, TypedMaps
<1>13. Maps' /\ Machines'
  BY <1>5, <1>12, OneMaps
<1> QED
  BY <1>1, <1>2, <1>13

LEMMA ReceiveInv ==
    ASSUME IInv, NEW p \in Houses, NEW q \in Houses, Receive(p, q)
    PROVE  IInv'
<1>0. Mail /\ Machines
  BY DEF IInv
<1>a. Absent \in Entry /\ Null \in Entry /\ Absent \notin Beacon /\ Null \notin Beacon
  BY BoundsHold DEF Entry
<1>1. CASE ReceivePlace(p, q)
  <2>1. NoText \in Labels
    BY DEF Labels
  <2>2. NewBeacon(NoText) \in Entry /\ ~NewBeacon(NoText).selected /\ NewBeacon(NoText).text # Typing
    BY <2>1, NewBeaconType, BoundsHold DEF Entry
  <2> QED
    BY <1>1, <2>2, ArriveInv DEF ReceivePlace
<1>2. CASE ReceiveDelete(p, q)
  <2> DEFINE e == IF Found(p, q) \in Beacon THEN Absent ELSE Null
  <2>1. e \in Entry /\ e \notin Beacon
    BY <1>a
  <2>2. Arrive(p, q, e)
    BY <1>2 DEF ReceiveDelete
  <2> HIDE DEF e
  <2> QED
    BY <2>1, <2>2, ArriveInv
<1>3. CASE ReceiveText(p, q)
  <2> DEFINE e == IF Found(p, q) \in Beacon THEN Labelled(Found(p, q), First(p, q).text) ELSE Null
  <2>1. channel[q][p] # <<>> /\ First(p, q).kind = "text"
    BY <1>3 DEF ReceiveText
  <2>2. First(p, q).text \in Labels /\ First(p, q).id \in Ids
    BY <1>0, <2>1, FirstType
  <2>3. Found(p, q) \in Entry
    BY <1>0, <2>2 DEF Machines, Machine, TypedMaps, Found
  <2>4. /\ e \in Entry
        /\ e \in Beacon => /\ e.text # Typing
                           /\ e.selected => Found(p, q) \in Beacon /\ Found(p, q).selected
    BY <1>a, <2>2, <2>3, LabelledType, BoundsHold
  <2>5. Arrive(p, q, e)
    BY <1>3 DEF ReceiveText
  <2> HIDE DEF e
  <2> QED
    BY <2>4, <2>5, ArriveInv
<1> QED
  BY <1>1, <1>2, <1>3 DEF Receive

LEMMA ResendInv ==
    ASSUME IInv, NEW p \in Houses, NEW q \in Houses, Resend(p, q)
    PROVE  IInv'
<1>1. channel[q][p] \in Seq(Messages) /\ channel[q][p] # <<>>
  BY DEF Resend, IInv, Mail
<1>2. PICK others \in {channel[q][p], Tail(channel[q][p])} :
        channel' = [channel EXCEPT ![q][p] = Append(others, Head(channel[q][p]))]
  BY DEF Resend
<1>3. Append(others, Head(channel[q][p])) \in Seq(Messages)
  <2>1. Head(channel[q][p]) \in Messages /\ Tail(channel[q][p]) \in Seq(Messages)
    BY <1>1, HeadTailProperties
  <2>2. others \in Seq(Messages)
    BY <1>1, <2>1
  <2> QED
    BY <2>1, <2>2, AppendProperties
<1>4. Mail'
  BY <1>2, <1>3 DEF IInv, Mail
<1>5. UNCHANGED <<frame, doom, beacons, evicted, placing, editing, line>>
  BY DEF Resend, screen
<1> QED
  BY <1>4, <1>5 DEF IInv, Frames, Screens, Maps, Losses, Machines

LEMMA NextInv == IInv /\ [Next]_vars => IInv'
<1> SUFFICES ASSUME IInv, [Next]_vars PROVE IInv'
  OBVIOUS
<1>1. CASE UNCHANGED vars
  BY <1>1 DEF vars, screen, IInv, Frames, Screens, Mail, Maps, Losses, Machines
<1>2. ASSUME NEW p \in Houses, Input(p) PROVE IInv'
  BY <1>2, ModesInv, PlaceBeaconInv, SelectBeaconInv, DeleteBeaconInv, BeginLabelInv,
     BeginChatInv, EndLineInv DEF Input
<1>3. ASSUME NEW p \in Houses, NEW q \in Houses, Receive(p, q) PROVE IInv'
  BY <1>3, ReceiveInv
<1> QED
  BY <1>1, <1>2, <1>3, NextFrameInv, ResendInv DEF Next

LEMMA InductiveInvariant == Spec => []IInv
BY InitInv, NextInv, PTL DEF Spec

Counted == resent \in Nat

\* Only Resend counts.
LEMMA ResentIs ==
    [Next]_vars => resent' = resent \/ (resent < MaxResent /\ resent' = resent + 1)
<1>1. ASSUME NEW p \in Houses, Input(p) PROVE resent' = resent
  BY <1>1, Zenon DEF Input, ModeOn, ModeOff, UnselectAll, PlaceNothing, PlaceBeacon, SelectBeacon,
                     DeleteBeacon, BeginLabel, BeginChat, EndLine
<1>2. ASSUME NEW p \in Houses, NEW q \in Houses, Receive(p, q) PROVE resent' = resent
  BY <1>2, Zenon DEF Receive, ReceivePlace, ReceiveDelete, ReceiveText, Arrive
<1>3. ASSUME NEW p \in Houses, NextFrame(p) PROVE resent' = resent
  BY <1>3 DEF NextFrame
<1>4. ASSUME NEW p \in Houses, NEW q \in Houses, Resend(p, q)
      PROVE  resent < MaxResent /\ resent' = resent + 1
  BY <1>4 DEF Resend
<1> QED
  BY <1>1, <1>2, <1>3, <1>4, Zenon DEF Next, vars

------------------------------------------------------------------------------
(* The types of Beacons hold in every state: in particular no message carries  *)
(* a label that is still being typed.                                          *)
THEOREM BeaconsTypeCorrect == Spec => []TypeOK
<1>1. Init => Counted
  BY DEF Init, Counted
<1>2. Counted /\ [Next]_vars => Counted'
  BY ResentIs DEF Counted
<1>3. Spec => []Counted
  BY <1>1, <1>2, PTL DEF Spec
<1>4. IInv /\ Counted => TypeOK
  BY DEF IInv, Frames, Screens, Mail, Maps, Losses, Counted, TypeOK
<1> QED
  BY <1>3, <1>4, InductiveInvariant, PTL

(* No machine ever has two beacons selected, whoever selects, deletes, hides,  *)
(* labels or replaces beacons: Find_Selected_Beacon finds the only one.        *)
THEOREM NeverTwoSelected == Spec => []OneSelected
<1>1. ASSUME Machines, NEW p \in Houses, NEW b \in Selected(p), NEW c \in Selected(p)
      PROVE  b = c
  <2>1. PICK h \in Houses, i \in Ids : b = <<h, i>>
    BY DEF Selected
  <2>2. PICK k \in Houses, j \in Ids : c = <<k, j>>
    BY DEF Selected
  <2>3. IsSelected(beacons[p], h, i) /\ IsSelected(beacons[p], k, j)
    BY <2>1, <2>2, SelectedIs
  <2>4. h = k /\ i = j
    BY <1>1, <2>3 DEF Machines, Machine, OneOf
  <2> QED
    BY <2>1, <2>2, <2>4
<1>2. IInv => OneSelected
  BY <1>1 DEF IInv, OneSelected
<1> QED
  BY <1>2, InductiveInvariant, PTL

(* However the typing of a label ends, no beacon of any machine keeps a label  *)
(* half typed.                                                                 *)
THEOREM TypingAlwaysEnds == Spec => []TypingEnds
<1>1. Machines => TypingEnds
  BY DEF Machines, Machine, TypingOf, TypingEnds, Live
<1> QED
  BY <1>1, InductiveInvariant, PTL DEF IInv

------------------------------------------------------------------------------
(***************************************************************************)
(* What the players know of each other's beacons. A map of a house is seen *)
(* as what others can know of it: each beacon's label, or nothing. The     *)
(* messages under way from h to p bring the map that p has of h's beacons  *)
(* to another one, and that one agrees with h's own map.                   *)
(***************************************************************************)
Knowledge == [Ids -> SUBSET (Labels \cup {Typing})]
View(m, h) == [i \in Ids |-> IF m[h][i] \in Beacon THEN {m[h][i].text} ELSE {}]

\* What a message makes of a view, and when it finds the beacon it is about.
Outcome(v, m) ==
    [v EXCEPT ![m.id] = IF m.kind = "place" THEN {NoText}
                        ELSE IF m.kind = "text" THEN {m.text} ELSE {}]
Wanted(v, m) == m.kind # "place" => v[m.id] # {}

Brings(ch, v, w) ==
    \E f \in [0 .. Len(ch) -> Knowledge] :
        /\ f[0] = v
        /\ f[Len(ch)] = w
        /\ \A k \in 1 .. Len(ch) : Wanted(f[k - 1], ch[k]) /\ f[k] = Outcome(f[k - 1], ch[k])

\* A view is what h has, but for the beacons lost to MaxBeacons and the label
\* being typed. A player who is defeated has none himself, and the others keep theirs.
Agrees(h, w) ==
    ~IsDefeated(h, h) =>
        \A i \in Ids :
            /\ i \in Live(h, h) <=> (w[i] # {} /\ i \notin evicted[h])
            /\ i \in Live(h, h) => beacons[h][h][i].text \in w[i] \cup {Typing}

Pair(p, h) ==
    /\ \A i \in Ids : beacons[p][h][i] # Null
    /\ \E w \in Knowledge : Brings(channel[h][p], View(beacons[p], h), w) /\ Agrees(h, w)

\* The house's own map. A frame's beacon is placed in that frame: what was lost
\* to MaxBeacons is older, and never placed again.
OwnRow(h) ==
    /\ IsDefeated(h, h) => Live(h, h) = {}
    /\ \A i \in Live(h, h) : i <= frame[h] /\ i \notin evicted[h]
    /\ \A i \in evicted[h] : i < frame[h]
    /\ \A i \in Ids : beacons[h][h][i] # Null

\* A label is never typed for the beacon of another house.
OwnLabel(h) == editing[h] => \A k \in Houses, i \in Ids : IsSelected(beacons[h], k, i) => k = h

Pairs == \A p, h \in Houses : p # h => Pair(p, h)
Owns == \A h \in Houses : OwnRow(h) /\ OwnLabel(h) /\ channel[h][h] = <<>>
SharedInv == IInv /\ Pairs /\ Owns

------------------------------------------------------------------------------
(* Views and messages.                                                         *)

LEMMA OutcomeIs ==
    ASSUME NEW v \in Knowledge, NEW m \in Messages
    PROVE  /\ m.id \in Ids
           /\ Outcome(v, m) \in Knowledge
           /\ \A i \in Ids : i # m.id => Outcome(v, m)[i] = v[i]
           /\ m.kind = "place" => Outcome(v, m)[m.id] = {NoText}
           /\ m.kind = "text" => Outcome(v, m)[m.id] = {m.text}
           /\ m.kind = "delete" => Outcome(v, m)[m.id] = {}
<1>1. m.id \in Ids /\ (m.kind = "text" => m.text \in Labels)
  BY DEF Messages
<1> QED BY <1>1 DEF Outcome, Knowledge, Labels

LEMMA ViewIs ==
    ASSUME NEW m, NEW h \in Houses, TypedMaps(m)
    PROVE  /\ View(m, h) \in Knowledge
           /\ \A i \in Ids : View(m, h)[i] = IF m[h][i] \in Beacon THEN {m[h][i].text} ELSE {}
<1>1. \A i \in Ids : m[h][i] \in Beacon => m[h][i].text \in Labels \cup {Typing}
  BY DEF Beacon
<1> QED BY <1>1 DEF View, Knowledge

LEMMA BringsNothing ==
    ASSUME NEW v \in Knowledge
    PROVE  Brings(<<>>, v, v) /\ \A w : Brings(<<>>, v, w) => v = w
<1>1. Brings(<<>>, v, v)
  <2> DEFINE f == [k \in 0 .. 0 |-> v]
  <2>1. f \in [0 .. Len(<<>>) -> Knowledge] /\ f[0] = v /\ f[Len(<<>>)] = v
        /\ \A k \in 1 .. Len(<<>>) : FALSE
    OBVIOUS
  <2> HIDE DEF f
  <2> QED BY <2>1 DEF Brings
<1>2. \A w : Brings(<<>>, v, w) => v = w
  BY DEF Brings
<1> QED BY <1>1, <1>2

\* A message that finds its beacon, sent after the others.
LEMMA BringsMore ==
    ASSUME NEW ch \in Seq(Messages), NEW v, NEW w, Brings(ch, v, w), NEW m \in Messages, Wanted(w, m)
    PROVE  w \in Knowledge /\ Brings(ch \o <<m>>, v, Outcome(w, m))
<1> DEFINE n == Len(ch)
           d == ch \o <<m>>
<1>1. n \in Nat /\ <<m>> \in Seq(Messages) /\ Len(<<m>>) = 1 /\ <<m>>[1] = m
  OBVIOUS
<1>2. Len(d) = n + 1 /\ \A k \in 1 .. n + 1 : d[k] = IF k <= n THEN ch[k] ELSE <<m>>[k - n]
  BY <1>1, ConcatProperties
<1>3. \A k \in 1 .. n + 1 : d[k] = IF k <= n THEN ch[k] ELSE m
  BY <1>1, <1>2
<1>4. PICK f \in [0 .. n -> Knowledge] :
        /\ f[0] = v /\ f[n] = w
        /\ \A k \in 1 .. n : Wanted(f[k - 1], ch[k]) /\ f[k] = Outcome(f[k - 1], ch[k])
  BY DEF Brings
<1> HIDE DEF n, d
<1>5. w \in Knowledge
  BY <1>1, <1>4
<1> DEFINE g == [k \in 0 .. n + 1 |-> IF k = n + 1 THEN Outcome(w, m) ELSE f[k]]
<1>6. g \in [0 .. Len(d) -> Knowledge] /\ g[0] = v /\ g[Len(d)] = Outcome(w, m)
      /\ \A k \in 0 .. n : g[k] = f[k]
  <2>1. Outcome(w, m) \in Knowledge
    BY <1>5, OutcomeIs
  <2> QED BY <1>1, <1>2, <1>4, <2>1
<1>7. ASSUME NEW k \in 1 .. n + 1
      PROVE  Wanted(g[k - 1], d[k]) /\ g[k] = Outcome(g[k - 1], d[k])
  <2>1. CASE k <= n
    <3>1. k \in 1 .. n /\ g[k - 1] = f[k - 1] /\ g[k] = f[k] /\ d[k] = ch[k]
      BY <1>1, <1>3, <1>6, <2>1
    <3> QED BY <1>4, <3>1
  <2>2. CASE k = n + 1
    <3>1. g[k - 1] = w /\ g[k] = Outcome(w, m) /\ d[k] = m
      BY <1>1, <1>3, <1>4, <1>6, <2>2
    <3> QED BY <3>1
  <2> QED BY <1>1, <2>1, <2>2
<1> HIDE DEF g
<1>8. Brings(d, v, Outcome(w, m))
  BY <1>2, <1>6, <1>7 DEF Brings
<1> QED BY <1>5, <1>8 DEF d

\* The first message finds its beacon, and brings what the others go on from.
LEMMA BringsFirst ==
    ASSUME NEW ch \in Seq(Messages), ch # <<>>, NEW v, NEW w, Brings(ch, v, w)
    PROVE  Wanted(v, Head(ch)) /\ Brings(Tail(ch), Outcome(v, Head(ch)), w)
<1> DEFINE n == Len(ch)
           t == Tail(ch)
<1>1. n \in Nat /\ n > 0 /\ Len(t) = n - 1 /\ Head(ch) = ch[1]
      /\ \A k \in 1 .. n - 1 : t[k] = ch[k + 1]
  BY HeadTailProperties
<1>2. PICK f \in [0 .. n -> Knowledge] :
        /\ f[0] = v /\ f[n] = w
        /\ \A k \in 1 .. n : Wanted(f[k - 1], ch[k]) /\ f[k] = Outcome(f[k - 1], ch[k])
  BY DEF Brings
<1> HIDE DEF n, t
<1>3. Wanted(v, ch[1]) /\ f[1] = Outcome(v, ch[1])
  <2>1. 1 \in 1 .. n /\ 1 - 1 = 0
    BY <1>1
  <2> QED BY <1>2, <2>1
<1> DEFINE g == [k \in 0 .. n - 1 |-> f[k + 1]]
<1>4. g \in [0 .. Len(t) -> Knowledge] /\ g[0] = f[1] /\ g[Len(t)] = w
      /\ \A k \in 0 .. n - 1 : g[k] = f[k + 1]
  BY <1>1, <1>2
<1>5. ASSUME NEW k \in 1 .. n - 1
      PROVE  Wanted(g[k - 1], t[k]) /\ g[k] = Outcome(g[k - 1], t[k])
  <2>1. k + 1 \in 1 .. n /\ g[k - 1] = f[k] /\ g[k] = f[k + 1] /\ t[k] = ch[k + 1]
    BY <1>1, <1>4
  <2>2. Wanted(f[(k + 1) - 1], ch[k + 1]) /\ f[k + 1] = Outcome(f[(k + 1) - 1], ch[k + 1])
    BY <1>2, <2>1
  <2> QED BY <2>1, <2>2
<1> HIDE DEF g
<1>6. Brings(t, f[1], w)
  BY <1>1, <1>4, <1>5 DEF Brings
<1> QED BY <1>1, <1>3, <1>6 DEF t

LEMMA SentIs ==
    ASSUME Mail, NEW r \in Houses, NEW ms \in Seq(Messages)
    PROVE  /\ \A p \in Houses : p # r => Sent(r, ms)[r][p] = channel[r][p] \o ms
           /\ Sent(r, ms)[r][r] = channel[r][r]
           /\ \A h \in Houses : h # r => Sent(r, ms)[h] = channel[h]
BY DEF Sent, Mail

LEMMA SentNothing == ASSUME Mail, NEW r \in Houses PROVE Sent(r, <<>>) = channel
<1>1. <<>> \in Seq(Messages)
  OBVIOUS
<1>2. \A h, p \in Houses : Sent(r, <<>>)[h][p] = channel[h][p]
  <2> TAKE h, p \in Houses
  <2>1. channel[h][p] \o <<>> = channel[h][p]
    BY ConcatEmptySeq DEF Mail
  <2>2. h # r => Sent(r, <<>>)[h] = channel[h]
    BY <1>1, SentIs
  <2>3. Sent(r, <<>>)[r][p] \in {channel[r][p], channel[r][p] \o <<>>}
    BY <1>1, SentIs
  <2> QED BY <2>1, <2>2, <2>3
<1>3. Sent(r, <<>>) \in [Houses -> [Houses -> Seq(Messages)]]
  BY <1>1, SentMail
<1> DEFINE c == Sent(r, <<>>)
<1>4. c \in [Houses -> [Houses -> Seq(Messages)]] /\ \A h, p \in Houses : c[h][p] = channel[h][p]
  BY <1>2, <1>3
<1> HIDE DEF c
<1>5. ASSUME NEW h \in Houses PROVE c[h] = channel[h]
  BY <1>4 DEF Mail
<1>6. c = channel
  BY <1>4, <1>5 DEF Mail
<1> QED BY <1>6 DEF c

------------------------------------------------------------------------------
(* A player's input changes the maps of his machine, and tells the others.     *)

\* What the messages ms do to any view that agrees with the map of r.
Conveys(r, ms) ==
    \A ch \in Seq(Messages), v, w \in Knowledge :
        Brings(ch, v, w) /\ Agrees(r, w) =>
            \E u \in Knowledge : Brings(ch \o ms, v, u) /\ Agrees(r, u)'

\* For others, house h's beacons are the same in the maps m and n.
SameRow(m, n, h) ==
    \A i \in Ids :
        /\ m[h][i] \in Beacon <=> n[h][i] \in Beacon
        /\ m[h][i] \in Beacon => n[h][i].text = m[h][i].text
        /\ n[h][i] = Null => m[h][i] = Null

LEMMA SameView == ASSUME NEW m, NEW n, NEW h, SameRow(m, n, h) PROVE View(m, h) = View(n, h)
BY DEF SameRow, View

LEMMA LiveIs ==
    ASSUME NEW p \in Houses, NEW h \in Houses, NEW i \in Ids
    PROVE  i \in Live(p, h) <=> beacons[p][h][i] \in Beacon
BY DEF Live

LEMMA InputShares ==
    ASSUME SharedInv, IInv', NEW r \in Houses, NEW m, NEW ms \in Seq(Messages),
           UNCHANGED <<frame, doom>>,
           beacons' = [beacons EXCEPT ![r] = m],
           channel' = Sent(r, ms),
           \A h \in Houses : h # r => /\ SameRow(beacons[r], m, h)
                                     /\ evicted'[h] = evicted[h]
                                     /\ editing'[h] = editing[h],
           Conveys(r, ms), OwnRow(r)', OwnLabel(r)'
    PROVE  SharedInv'
<1>1. Maps /\ Mail
  BY DEF SharedInv, IInv
<1>2. /\ \A p \in Houses : p # r => channel'[r][p] = channel[r][p] \o ms
      /\ channel'[r][r] = channel[r][r]
      /\ \A h \in Houses : h # r => channel'[h] = channel[h]
  BY <1>1, SentIs
<1>3. beacons'[r] = m /\ \A h \in Houses : h # r => beacons'[h] = beacons[h]
  BY <1>1 DEF Maps
<1>4. \A h \in Houses : h # r => /\ \A w : Agrees(h, w) => Agrees(h, w)'
                                 /\ OwnRow(h)' /\ OwnLabel(h)'
  <2> SUFFICES ASSUME NEW h \in Houses, h # r
               PROVE  /\ \A w : Agrees(h, w) => Agrees(h, w)'
                      /\ OwnRow(h)' /\ OwnLabel(h)'
    OBVIOUS
  <2>1. beacons'[h] = beacons[h] /\ evicted'[h] = evicted[h] /\ editing'[h] = editing[h]
    BY <1>3
  <2>2. Live(h, h)' = Live(h, h) /\ IsDefeated(h, h)' = IsDefeated(h, h)
    BY <2>1 DEF Live, IsDefeated
  <2>3. OwnRow(h) /\ OwnLabel(h)
    BY DEF SharedInv, Owns
  <2> QED BY <2>1, <2>2, <2>3 DEF Agrees, OwnRow, OwnLabel, IsSelected
<1>5. Owns'
  <2>1. \A h \in Houses : channel'[h][h] = <<>>
    BY <1>2 DEF SharedInv, Owns
  <2> QED BY <1>4, <2>1 DEF Owns
<1>6. ASSUME NEW p \in Houses, NEW h \in Houses, p # h PROVE Pair(p, h)'
  <2> SUFFICES /\ \A i \in Ids : beacons'[p][h][i] # Null
               /\ \E w \in Knowledge :
                    Brings(channel'[h][p], View(beacons'[p], h), w) /\ Agrees(h, w)'
    BY DEF Pair
  <2>2. Pair(p, h)
    BY <1>6 DEF SharedInv, Pairs
  <2>3. PICK w \in Knowledge : Brings(channel[h][p], View(beacons[p], h), w) /\ Agrees(h, w)
    BY <2>2 DEF Pair
  <2>4. \A i \in Ids : beacons[p][h][i] # Null
    BY <2>2 DEF Pair
  <2>5. CASE h = r
    <3>1. channel'[h][p] = channel[h][p] \o ms /\ beacons'[p] = beacons[p]
      BY <1>2, <1>3, <1>6, <2>5
    <3>2. channel[h][p] \in Seq(Messages) /\ View(beacons[p], h) \in Knowledge
      <4>1. TypedMaps(beacons[p])
        BY <1>1 DEF Maps, TypedMaps
      <4> QED BY <1>1, <4>1, ViewIs DEF Mail
    <3>3. \E u \in Knowledge : Brings(channel[h][p] \o ms, View(beacons[p], h), u) /\ Agrees(h, u)'
      BY <2>3, <2>5, <3>2 DEF Conveys
    <3> QED BY <2>4, <3>1, <3>3
  <2>6. CASE h # r
    <3>1. channel'[h][p] = channel[h][p] /\ Agrees(h, w)'
      BY <1>2, <1>4, <2>3, <2>6
    <3>2. SameRow(beacons[p], beacons'[p], h)
      BY <1>3, <2>6 DEF SameRow
    <3>3. View(beacons'[p], h) = View(beacons[p], h)
      BY <3>2, SameView
    <3> QED BY <2>3, <2>4, <3>1, <3>2, <3>3 DEF SameRow
  <2> QED BY <2>5, <2>6
<1> QED BY <1>5, <1>6 DEF SharedInv, Pairs

\* Nothing is told when no beacon comes or goes and only the label being typed changes.
LEMMA ConveysNothing ==
    ASSUME SharedInv, NEW r \in Houses, UNCHANGED <<frame, doom>>, evicted'[r] = evicted[r],
           \A i \in Ids :
               /\ beacons'[r][r][i] \in Beacon <=> beacons[r][r][i] \in Beacon
               /\ beacons[r][r][i] \in Beacon =>
                    beacons'[r][r][i].text \in {beacons[r][r][i].text, Typing}
    PROVE  Conveys(r, <<>>)
<1> SUFFICES ASSUME NEW ch \in Seq(Messages), NEW v \in Knowledge, NEW w \in Knowledge,
                    Brings(ch, v, w), Agrees(r, w)
             PROVE  Brings(ch \o <<>>, v, w) /\ Agrees(r, w)'
  BY DEF Conveys
<1>1. ch \o <<>> = ch
  BY ConcatEmptySeq
<1>2. Agrees(r, w)'
  BY DEF Agrees, Live, IsDefeated
<1> QED BY <1>1, <1>2

\* The label of the player's own selected beacon is told.
LEMMA ConveysLabel ==
    ASSUME SharedInv, NEW r \in Houses, UNCHANGED <<frame, doom>>, evicted'[r] = evicted[r],
           NEW text \in Labels,
           \A i \in Ids :
               /\ beacons'[r][r][i] \in Beacon <=> beacons[r][r][i] \in Beacon
               /\ beacons[r][r][i] \in Beacon =>
                    beacons'[r][r][i].text = IF IsSelected(beacons[r], r, i) THEN text
                                             ELSE beacons[r][r][i].text
    PROVE  Conveys(r, TextMessages(r, text))
<1>1. CASE OwnSelected(r) = {}
  <2>1. \A i \in Ids : ~IsSelected(beacons[r], r, i)
    BY <1>1, SelectedIs
  <2> QED BY <1>1, <2>1, ConveysNothing DEF TextMessages
<1>2. CASE OwnSelected(r) # {}
  <2>1. PICK i \in OwnSelected(r) : TextMessages(r, text) = <<TextMessage(i, text)>>
    BY <1>2 DEF TextMessages
  <2>2. i \in Ids /\ IsSelected(beacons[r], r, i)
    <3>1. i \in Ids
      BY <2>1 DEF OwnSelected
    <3> QED BY <2>1, <3>1, SelectedIs
  <2>3. \A j \in Ids : IsSelected(beacons[r], r, j) => j = i
    BY <2>2 DEF SharedInv, IInv, Machines, Machine, OneOf
  <2> DEFINE msg == TextMessage(i, text)
  <2>4. msg \in Messages /\ msg.id = i /\ msg.kind = "text" /\ msg.text = text
    BY <2>2, MessageTypes DEF TextMessage
  <2> HIDE DEF msg
  <2>5. i \in Live(r, r) /\ ~IsDefeated(r, r)
    BY <2>2, LiveIs DEF IsSelected, SharedInv, Owns, OwnRow
  <2> SUFFICES ASSUME NEW ch \in Seq(Messages), NEW v \in Knowledge, NEW w \in Knowledge,
                      Brings(ch, v, w), Agrees(r, w)
               PROVE  \E u \in Knowledge : Brings(ch \o <<msg>>, v, u) /\ Agrees(r, u)'
    BY <2>1 DEF Conveys, msg
  <2> DEFINE u == Outcome(w, msg)
  <2>6. u \in Knowledge /\ u[i] = {text} /\ \A j \in Ids : j # i => u[j] = w[j]
    BY <2>4, OutcomeIs
  <2>7. Wanted(w, msg)
    BY <2>2, <2>4, <2>5 DEF Wanted, Agrees
  <2>8. Brings(ch \o <<msg>>, v, u)
    BY <2>4, <2>7, BringsMore
  <2> HIDE DEF u
  <2>9. Agrees(r, u)'
    <3> SUFFICES ASSUME NEW j \in Ids
                 PROVE  /\ j \in Live(r, r)' <=> (u[j] # {} /\ j \notin evicted'[r])
                        /\ j \in Live(r, r)' => beacons'[r][r][j].text \in u[j] \cup {Typing}
      BY DEF Agrees
    <3>1. j \in Live(r, r)' <=> j \in Live(r, r)
      BY DEF Live
    <3>2. /\ j \in Live(r, r) <=> (w[j] # {} /\ j \notin evicted[r])
          /\ j \in Live(r, r) => beacons[r][r][j].text \in w[j] \cup {Typing}
      BY <2>5 DEF Agrees
    <3>3. j \in Live(r, r) => beacons'[r][r][j].text = IF j = i THEN text ELSE beacons[r][r][j].text
      BY <2>2, <2>3, LiveIs
    <3> QED BY <2>5, <2>6, <3>1, <3>2, <3>3
  <2> QED BY <2>6, <2>8, <2>9
<1> QED BY <1>1, <1>2

------------------------------------------------------------------------------
(* The actions.                                                                *)

\* The own map stays what it is if the same beacons are on it.
LEMMA OwnRowSame ==
    ASSUME SharedInv, NEW r \in Houses, UNCHANGED <<frame, doom>>, evicted'[r] = evicted[r],
           \A i \in Ids :
               /\ beacons'[r][r][i] \in Beacon <=> beacons[r][r][i] \in Beacon
               /\ beacons'[r][r][i] = Null => beacons[r][r][i] = Null
    PROVE  OwnRow(r)'
<1>1. OwnRow(r)
  BY DEF SharedInv, Owns
<1>2. Live(r, r)' = Live(r, r) /\ IsDefeated(r, r)' = IsDefeated(r, r)
  BY DEF Live, IsDefeated
<1> QED BY <1>1, <1>2 DEF OwnRow

\* A player who types a label has only that beacon selected, if any.
LEMMA LabelIsOwn ==
    ASSUME SharedInv, NEW r \in Houses, editing[r] \/ OwnSelected(r) # {},
           NEW h \in Houses, NEW i \in Ids, IsSelected(beacons[r], h, i)
    PROVE  h = r
<1>1. CASE editing[r]
  BY <1>1 DEF SharedInv, Owns, OwnLabel
<1>2. CASE OwnSelected(r) # {}
  <2>1. PICK j \in Ids : IsSelected(beacons[r], r, j)
    <3>1. PICK j : j \in OwnSelected(r)
      BY <1>2
    <3>2. j \in Ids
      BY <3>1 DEF OwnSelected
    <3> QED BY <3>1, <3>2, SelectedIs
  <2>2. OneOf(beacons[r])
    BY DEF SharedInv, IInv, Machines, Machine
  <2> QED BY <2>1, <2>2 DEF OneOf
<1> QED BY <1>1, <1>2

\* Set_Beacon_Text on the own beacon, as others see it.
LEMMA WithTextRows ==
    ASSUME SharedInv, NEW r \in Houses, editing[r] \/ OwnSelected(r) # {},
           NEW text \in Labels \cup {Typing}
    PROVE  /\ TypedMaps(WithText(r, text))
           /\ \A h \in Houses : h # r => SameRow(beacons[r], WithText(r, text), h)
           /\ \A i \in Ids :
                /\ WithText(r, text)[r][i] \in Beacon <=> beacons[r][r][i] \in Beacon
                /\ WithText(r, text)[r][i] = Null => beacons[r][r][i] = Null
                /\ beacons[r][r][i] \in Beacon =>
                     WithText(r, text)[r][i].text =
                        IF IsSelected(beacons[r], r, i) THEN text ELSE beacons[r][r][i].text
           /\ \A h \in Houses, i \in Ids :
                IsSelected(WithText(r, text), h, i) <=> IsSelected(beacons[r], h, i)
<1> DEFINE w == WithText(r, text)
<1>1. TypedMaps(beacons[r])
  BY DEF SharedInv, IInv, Machines, Machine
<1>2. TypedMaps(w) /\ \A h \in Houses, i \in Ids :
        w[h][i] = IF IsSelected(beacons[r], h, i) THEN Labelled(beacons[r][h][i], text)
                                                  ELSE beacons[r][h][i]
  BY <1>1, WithTextMaps
<1>3. \A h \in Houses, i \in Ids : beacons[r][h][i] \in Entry
  BY <1>1 DEF TypedMaps
<1> HIDE DEF w
<1>4. \A h \in Houses, i \in Ids : h # r => w[h][i] = beacons[r][h][i]
  BY <1>2, LabelIsOwn
<1>5. \A h \in Houses : h # r => SameRow(beacons[r], w, h)
  BY <1>4 DEF SameRow
<1>6. ASSUME NEW h \in Houses, NEW i \in Ids
      PROVE  /\ w[h][i] \in Beacon <=> beacons[r][h][i] \in Beacon
             /\ w[h][i] = Null => beacons[r][h][i] = Null
             /\ beacons[r][h][i] \in Beacon =>
                  w[h][i].text = IF IsSelected(beacons[r], h, i) THEN text ELSE beacons[r][h][i].text
             /\ IsSelected(w, h, i) <=> IsSelected(beacons[r], h, i)
  <2>1. CASE IsSelected(beacons[r], h, i)
    <3>1. w[h][i] = Labelled(beacons[r][h][i], text) /\ beacons[r][h][i] \in Beacon
      BY <1>2, <2>1 DEF IsSelected
    <3> QED BY <1>3, <2>1, <3>1, LabelledType, BoundsHold DEF IsSelected
  <2>2. CASE ~IsSelected(beacons[r], h, i)
    <3>1. w[h][i] = beacons[r][h][i]
      BY <1>2, <2>2
    <3> QED BY <2>2, <3>1 DEF IsSelected
  <2> QED BY <2>1, <2>2
<1>7. \A i \in Ids :
         /\ w[r][i] \in Beacon <=> beacons[r][r][i] \in Beacon
         /\ w[r][i] = Null => beacons[r][r][i] = Null
         /\ beacons[r][r][i] \in Beacon =>
              w[r][i].text = IF IsSelected(beacons[r], r, i) THEN text ELSE beacons[r][r][i].text
  BY <1>6
<1>8. \A h \in Houses, i \in Ids : IsSelected(w, h, i) <=> IsSelected(beacons[r], h, i)
  BY <1>6
<1> QED BY <1>2, <1>5, <1>7, <1>8 DEF w

\* Taking the selection away changes nothing for others.
LEMMA NothingSelectedRows ==
    ASSUME NEW m, TypedMaps(m)
    PROVE  /\ \A h \in Houses : SameRow(m, NothingSelected(m), h)
           /\ \A h \in Houses, i \in Ids : ~IsSelected(NothingSelected(m), h, i)
<1> DEFINE n == NothingSelected(m)
<1>1. TypedMaps(n) /\ \A h \in Houses, i \in Ids : n[h][i] = Unselected(m[h][i])
  BY NothingSelectedMaps
<1> HIDE DEF n
<1>2. \A h \in Houses, i \in Ids : m[h][i] \in Entry
  BY DEF TypedMaps
<1>3. \A h \in Houses, i \in Ids : n[h][i] = Null => m[h][i] = Null
  <2> TAKE h \in Houses, i \in Ids
  <2>1. CASE m[h][i] \in Beacon
    BY <1>1, <1>2, <2>1, UnselectedType, BoundsHold
  <2>2. CASE m[h][i] \notin Beacon
    BY <1>1, <2>2 DEF Unselected
  <2> QED BY <2>1, <2>2
<1>4. \A h \in Houses : SameRow(m, n, h)
  BY <1>1, <1>2, <1>3, UnselectedType DEF SameRow
<1>5. \A h \in Houses, i \in Ids : ~IsSelected(n, h, i)
  BY <1>1, <1>2, UnselectedType DEF IsSelected
<1> QED BY <1>4, <1>5 DEF n

\* Unselect_All, as others see it: a label half typed is told to be lost.
LEMMA UnselectedRows ==
    ASSUME SharedInv, NEW r \in Houses
    PROVE  /\ \A h \in Houses : h # r => SameRow(beacons[r], MapsUnselected(r), h)
           /\ \A i \in Ids :
                /\ MapsUnselected(r)[r][i] \in Beacon <=> beacons[r][r][i] \in Beacon
                /\ MapsUnselected(r)[r][i] = Null => beacons[r][r][i] = Null
                /\ beacons[r][r][i] \in Beacon =>
                     MapsUnselected(r)[r][i].text =
                        IF editing[r] /\ IsSelected(beacons[r], r, i) THEN NoText
                        ELSE beacons[r][r][i].text
<1> DEFINE u == MapsUnselected(r)
           w == WithText(r, NoText)
<1>0. TypedMaps(beacons[r])
  BY DEF SharedInv, IInv, Machines, Machine
<1>1. CASE editing[r]
  <2>0. NoText \in Labels
    BY DEF Labels
  <2>1. /\ TypedMaps(w)
        /\ \A h \in Houses : h # r => SameRow(beacons[r], w, h)
        /\ \A i \in Ids :
             /\ w[r][i] \in Beacon <=> beacons[r][r][i] \in Beacon
             /\ w[r][i] = Null => beacons[r][r][i] = Null
             /\ beacons[r][r][i] \in Beacon =>
                  w[r][i].text = IF IsSelected(beacons[r], r, i) THEN NoText
                                 ELSE beacons[r][r][i].text
    BY <1>1, <2>0, WithTextRows
  <2>2. u = NothingSelected(w)
    BY <1>1 DEF MapsUnselected
  <2> HIDE DEF u, w
  <2>3. \A h \in Houses : SameRow(w, u, h)
    BY <2>1, <2>2, NothingSelectedRows
  <2>4. \A h \in Houses : h # r => SameRow(beacons[r], u, h)
    BY <2>1, <2>3 DEF SameRow
  <2>5. \A i \in Ids :
                /\ u[r][i] \in Beacon <=> beacons[r][r][i] \in Beacon
                /\ u[r][i] = Null => beacons[r][r][i] = Null
                /\ beacons[r][r][i] \in Beacon =>
                     u[r][i].text = IF IsSelected(beacons[r], r, i) THEN NoText
                                    ELSE beacons[r][r][i].text
    BY <2>1, <2>3 DEF SameRow
  <2> QED BY <1>1, <2>4, <2>5 DEF u
<1>2. CASE ~editing[r]
  <2>1. u = NothingSelected(beacons[r])
    BY <1>2 DEF MapsUnselected
  <2> HIDE DEF u
  <2>2. \A h \in Houses : SameRow(beacons[r], u, h)
    BY <1>0, <2>1, NothingSelectedRows
  <2> QED BY <1>2, <2>2 DEF SameRow, u
<1> QED BY <1>1, <1>2

\* ... and told when it ends, whatever is selected then instead.
LEMMA UnselectingConveys ==
    ASSUME SharedInv, NEW r \in Houses, UNCHANGED <<frame, doom>>, evicted'[r] = evicted[r],
           \A i \in Ids :
               /\ beacons'[r][r][i] \in Beacon <=> MapsUnselected(r)[r][i] \in Beacon
               /\ beacons'[r][r][i] = Null => MapsUnselected(r)[r][i] = Null
               /\ beacons'[r][r][i] \in Beacon =>
                    beacons'[r][r][i].text = MapsUnselected(r)[r][i].text
    PROVE  Conveys(r, SentUnselecting(r)) /\ OwnRow(r)'
<1>1. \A i \in Ids :
        /\ beacons'[r][r][i] \in Beacon <=> beacons[r][r][i] \in Beacon
        /\ beacons'[r][r][i] = Null => beacons[r][r][i] = Null
        /\ beacons[r][r][i] \in Beacon =>
             beacons'[r][r][i].text =
                IF editing[r] /\ IsSelected(beacons[r], r, i) THEN NoText ELSE beacons[r][r][i].text
  BY UnselectedRows
<1>2. OwnRow(r)'
  BY <1>1, OwnRowSame
<1>3. CASE editing[r]
  <2>1. NoText \in Labels
    BY DEF Labels
  <2>2. \A i \in Ids :
        /\ beacons'[r][r][i] \in Beacon <=> beacons[r][r][i] \in Beacon
        /\ beacons[r][r][i] \in Beacon =>
             beacons'[r][r][i].text =
                IF IsSelected(beacons[r], r, i) THEN NoText ELSE beacons[r][r][i].text
    BY <1>1, <1>3
  <2>3. Conveys(r, TextMessages(r, NoText))
    BY <2>1, <2>2, ConveysLabel
  <2> QED BY <1>2, <1>3, <2>3 DEF SentUnselecting
<1>4. CASE ~editing[r]
  <2>1. \A i \in Ids :
        /\ beacons'[r][r][i] \in Beacon <=> beacons[r][r][i] \in Beacon
        /\ beacons[r][r][i] \in Beacon =>
             beacons'[r][r][i].text \in {beacons[r][r][i].text, Typing}
    BY <1>1, <1>4
  <2>2. Conveys(r, <<>>)
    BY <2>1, ConveysNothing
  <2> QED BY <1>2, <1>4, <2>2 DEF SentUnselecting
<1> QED BY <1>3, <1>4

LEMMA UnselectingShares ==
    ASSUME SharedInv, NEW r \in Houses, ModeOn(r) \/ UnselectAll(r)
    PROVE  SharedInv'
<1> DEFINE m == MapsUnselected(r)
           ms == SentUnselecting(r)
<1>1. /\ beacons' = [beacons EXCEPT ![r] = m]
      /\ channel' = Sent(r, ms)
      /\ editing' = [editing EXCEPT ![r] = FALSE]
      /\ UNCHANGED <<frame, doom, evicted>>
  BY DEF ModeOn, UnselectAll
<1>2. IInv'
  BY ModesInv DEF SharedInv
<1>3. ms \in Seq(Messages) /\ Maps /\ Screens
  BY SentUnselectingType DEF SharedInv, IInv
<1>4. \A h \in Houses : h # r => SameRow(beacons[r], m, h)
  BY UnselectedRows
<1> HIDE DEF m, ms
<1>5. beacons'[r] = m /\ editing'[r] = FALSE /\ \A h \in Houses : h # r => editing'[h] = editing[h]
  BY <1>1, <1>3 DEF Maps, Screens
<1>6. Conveys(r, ms) /\ OwnRow(r)'
  BY <1>1, <1>5, UnselectingConveys DEF m, ms
<1>7. OwnLabel(r)'
  BY <1>5 DEF OwnLabel
<1> QED BY <1>1, <1>2, <1>3, <1>4, <1>5, <1>6, <1>7, InputShares

LEMMA SelectBeaconShares ==
    ASSUME SharedInv, NEW r \in Houses, NEW h \in Houses, NEW i \in Ids, SelectBeacon(r, h, i)
    PROVE  SharedInv'
<1> DEFINE u == MapsUnselected(r)
           m == [u EXCEPT ![h][i].selected = TRUE]
           ms == SentUnselecting(r)
<1>1. /\ beacons' = [beacons EXCEPT ![r] = m]
      /\ channel' = Sent(r, ms)
      /\ editing' = [editing EXCEPT ![r] = FALSE]
      /\ UNCHANGED <<frame, doom, evicted>>
  BY DEF SelectBeacon
<1>2. IInv'
  BY SelectBeaconInv DEF SharedInv
<1>3. ms \in Seq(Messages) /\ Maps /\ Screens /\ Machines
  BY SentUnselectingType DEF SharedInv, IInv
<1>4. \A k \in Houses : k # r => SameRow(beacons[r], u, k)
  BY UnselectedRows
<1>5. u[h][i] \in Beacon /\ u \in [Houses -> [Ids -> Entry]]
  <2>1. beacons[r][h][i] \in Beacon
    BY DEF SelectBeacon, IsVisibleToPlayer, Live
  <2>2. Machine(r, beacons[r], editing[r], line[r])
    BY <1>3 DEF Machines
  <2>3. Machine(r, u, FALSE, "none") /\ u[h][i] \in Beacon
    BY <2>1, <2>2, UnselectedMachine
  <2> QED BY <2>3 DEF Machine, TypedMaps
<1> HIDE DEF u
<1> DEFINE e == [u[h][i] EXCEPT !.selected = TRUE]
<1>6. e \in Beacon /\ e.text = u[h][i].text
  BY <1>5 DEF Beacon
<1>7. \A k \in Houses, j \in Ids : m[k][j] = IF k = h /\ j = i THEN e ELSE u[k][j]
  BY <1>5
<1> HIDE DEF m, e, ms
<1>8. \A k \in Houses : SameRow(u, m, k)
  BY <1>5, <1>6, <1>7, BoundsHold DEF SameRow
<1>9. \A k \in Houses : k # r => SameRow(beacons[r], m, k)
  BY <1>4, <1>8 DEF SameRow
<1>10. beacons'[r] = m /\ editing'[r] = FALSE /\ \A k \in Houses : k # r => editing'[k] = editing[k]
  BY <1>1, <1>3 DEF Maps, Screens
<1>11. Conveys(r, ms) /\ OwnRow(r)'
  <2>1. \A j \in Ids :
               /\ beacons'[r][r][j] \in Beacon <=> u[r][j] \in Beacon
               /\ beacons'[r][r][j] = Null => u[r][j] = Null
               /\ beacons'[r][r][j] \in Beacon => beacons'[r][r][j].text = u[r][j].text
    BY <1>8, <1>10 DEF SameRow
  <2> QED BY <1>1, <2>1, UnselectingConveys DEF u, ms
<1>12. OwnLabel(r)'
  BY <1>10 DEF OwnLabel
<1> QED BY <1>1, <1>2, <1>3, <1>9, <1>10, <1>11, <1>12, InputShares

\* Only the mode or the line changes.
LEMMA ScreenShares ==
    ASSUME SharedInv, IInv', UNCHANGED <<frame, doom, beacons, evicted, channel, editing>>
    PROVE  SharedInv'
<1>1. Pairs'
  <2> SUFFICES ASSUME NEW p \in Houses, NEW h \in Houses, p # h PROVE Pair(p, h)'
    BY DEF Pairs
  <2>1. Pair(p, h)
    BY DEF SharedInv, Pairs
  <2> QED BY <2>1 DEF Pair, Agrees, IsDefeated, Live
<1>2. Owns'
  BY DEF SharedInv, Owns, OwnRow, OwnLabel, IsDefeated, Live
<1> QED BY <1>1, <1>2 DEF SharedInv

LEMMA QuietShares ==
    ASSUME SharedInv, NEW r \in Houses, ModeOff(r) \/ PlaceNothing(r) \/ BeginChat(r)
    PROVE  SharedInv'
<1>1. IInv'
  BY ModesInv, BeginChatInv DEF SharedInv
<1> QED BY <1>1, ScreenShares DEF ModeOff, PlaceNothing, BeginChat

LEMMA BeginLabelShares ==
    ASSUME SharedInv, NEW r \in Houses, BeginLabel(r)
    PROVE  SharedInv'
<1> DEFINE w == WithText(r, Typing)
<1>1. /\ beacons' = [beacons EXCEPT ![r] = w]
      /\ editing' = [editing EXCEPT ![r] = TRUE]
      /\ UNCHANGED <<frame, doom, evicted, channel>>
      /\ OwnSelected(r) # {}
  BY DEF BeginLabel
<1>2. IInv'
  BY BeginLabelInv DEF SharedInv
<1>3. /\ \A h \in Houses : h # r => SameRow(beacons[r], w, h)
      /\ \A i \in Ids :
                /\ w[r][i] \in Beacon <=> beacons[r][r][i] \in Beacon
                /\ w[r][i] = Null => beacons[r][r][i] = Null
                /\ beacons[r][r][i] \in Beacon => w[r][i].text \in {beacons[r][r][i].text, Typing}
      /\ \A h \in Houses, i \in Ids : IsSelected(w, h, i) <=> IsSelected(beacons[r], h, i)
  BY <1>1, WithTextRows
<1> HIDE DEF w
<1>4. Maps /\ Screens /\ Mail
  BY DEF SharedInv, IInv
<1>a. UNCHANGED <<frame, doom>> /\ evicted'[r] = evicted[r]
  BY <1>1
<1>5. beacons'[r] = w /\ \A h \in Houses : h # r => editing'[h] = editing[h]
  BY <1>1, <1>4 DEF Maps, Screens
<1>6. Conveys(r, <<>>) /\ OwnRow(r)'
  <2>1. Conveys(r, <<>>)
    BY <1>a, <1>3, <1>5, ConveysNothing
  <2>2. OwnRow(r)'
    BY <1>a, <1>3, <1>5, OwnRowSame
  <2> QED BY <2>1, <2>2
<1>7. OwnLabel(r)'
  BY <1>1, <1>3, <1>5, LabelIsOwn DEF OwnLabel
<1>8. channel' = Sent(r, <<>>) /\ <<>> \in Seq(Messages)
  BY <1>1, <1>4, SentNothing
<1> QED BY <1>1, <1>2, <1>3, <1>5, <1>6, <1>7, <1>8, InputShares

LEMMA EndLineShares ==
    ASSUME SharedInv, NEW r \in Houses, NEW text \in Labels, EndLine(r, text)
    PROVE  SharedInv'
<1>1. IInv'
  BY EndLineInv DEF SharedInv
<1>2. CASE ~(editing[r] /\ OwnSelected(r) # {})
  BY <1>1, <1>2, ScreenShares DEF EndLine
<1>3. CASE editing[r] /\ OwnSelected(r) # {}
  <2> DEFINE w == WithText(r, text)
             m == NothingSelected(w)
             ms == TextMessages(r, text)
  <2>1. /\ beacons' = [beacons EXCEPT ![r] = m]
        /\ channel' = Sent(r, ms)
        /\ editing' = [editing EXCEPT ![r] = FALSE]
        /\ UNCHANGED <<frame, doom, evicted>>
    BY <1>3 DEF EndLine
  <2>2. /\ TypedMaps(w)
        /\ \A h \in Houses : h # r => SameRow(beacons[r], w, h)
        /\ \A i \in Ids :
             /\ w[r][i] \in Beacon <=> beacons[r][r][i] \in Beacon
             /\ w[r][i] = Null => beacons[r][r][i] = Null
             /\ beacons[r][r][i] \in Beacon =>
                  w[r][i].text = IF IsSelected(beacons[r], r, i) THEN text
                                 ELSE beacons[r][r][i].text
    BY <1>3, WithTextRows
  <2> HIDE DEF w
  <2>3. \A h \in Houses : SameRow(w, m, h)
    BY <2>2, NothingSelectedRows
  <2>4. ms \in Seq(Messages) /\ Maps /\ Screens
    BY TextMessagesType DEF SharedInv, IInv
  <2> HIDE DEF m
  <2>5. beacons'[r] = m /\ editing'[r] = FALSE /\ \A h \in Houses : h # r => editing'[h] = editing[h]
    BY <2>1, <2>4 DEF Maps, Screens
  <2>6. \A h \in Houses : h # r => SameRow(beacons[r], m, h)
    BY <2>2, <2>3 DEF SameRow
  <2>7. \A i \in Ids :
             /\ m[r][i] \in Beacon <=> beacons[r][r][i] \in Beacon
             /\ m[r][i] = Null => beacons[r][r][i] = Null
             /\ beacons[r][r][i] \in Beacon =>
                  m[r][i].text = IF IsSelected(beacons[r], r, i) THEN text
                                 ELSE beacons[r][r][i].text
    BY <2>2, <2>3 DEF SameRow
  <2>8. Conveys(r, ms) /\ OwnRow(r)'
    BY <2>1, <2>5, <2>7, ConveysLabel, OwnRowSame
  <2>9. OwnLabel(r)'
    BY <2>5 DEF OwnLabel
  <2> HIDE DEF ms
  <2> QED BY <1>1, <2>1, <2>4, <2>5, <2>6, <2>8, <2>9, InputShares
<1> QED BY <1>2, <1>3

\* The own map after PlaceBeacon.
LEMMA PlacedRow ==
    ASSUME SharedInv, NEW r \in Houses, NEW text \in Labels, PlaceBeacon(r, text)
    PROVE  LET i == frame[r]
           IN  /\ i \in Ids /\ i \notin Live(r, r) /\ ~IsDefeated(r, r)
               /\ \A h \in Houses : h # r => beacons'[r][h] = beacons[r][h]
               /\ \A h \in Houses : h # r => beacons'[h] = beacons[h]
               /\ \A j \in Ids : beacons'[r][r][j] =
                    IF j = i THEN NewBeacon(text)
                    ELSE IF j \in Crowded(r) THEN Absent ELSE beacons[r][r][j]
               /\ evicted'[r] = evicted[r] \cup Crowded(r)
               /\ \A h \in Houses : h # r => evicted'[h] = evicted[h]
<1>1. frame[r] \in Ids /\ Maps /\ Losses
  BY DEF SharedInv, IInv, Frames
<1>2. beacons[r][r][frame[r]] = Absent /\ ~IsDefeated(r, r)
  BY DEF PlaceBeacon
<1>3. frame[r] \notin Live(r, r)
  BY <1>1, <1>2, LiveIs, BoundsHold
<1>4. evicted' = [evicted EXCEPT ![r] = @ \cup Crowded(r)]
  BY DEF PlaceBeacon
<1>5. beacons' = [beacons EXCEPT ![r][r] =
                     [i \in Ids |-> IF i = frame[r] THEN NewBeacon(text)
                                    ELSE IF i \in Crowded(r) THEN Absent ELSE @[i]]]
  BY DEF PlaceBeacon
<1>6. beacons \in [Houses -> [Houses -> [Ids -> Entry]]]
  BY <1>1 DEF Maps
<1>7. \A j \in Ids : beacons'[r][r][j] =
                    IF j = frame[r] THEN NewBeacon(text)
                    ELSE IF j \in Crowded(r) THEN Absent ELSE beacons[r][r][j]
  BY <1>5, <1>6
<1>8. /\ \A h \in Houses : h # r => beacons'[r][h] = beacons[r][h]
      /\ \A h \in Houses : h # r => beacons'[h] = beacons[h]
  BY <1>5, <1>6
<1>9. /\ evicted'[r] = evicted[r] \cup Crowded(r)
      /\ \A h \in Houses : h # r => evicted'[h] = evicted[h]
  BY <1>1, <1>4 DEF Losses
<1> QED BY <1>1, <1>2, <1>3, <1>7, <1>8, <1>9

LEMMA PlaceConveys ==
    ASSUME SharedInv, NEW r \in Houses, NEW text \in Labels, PlaceBeacon(r, text)
    PROVE  Conveys(r, PlaceMessages(frame[r], text))
<1>0. PICK i \in Ids : i = frame[r]
  BY PlacedRow
<1>1. /\ i \in Ids /\ i \notin Live(r, r) /\ ~IsDefeated(r, r)
      /\ \A j \in Ids : beacons'[r][r][j] =
                    IF j = i THEN NewBeacon(text)
                    ELSE IF j \in Crowded(r) THEN Absent ELSE beacons[r][r][j]
      /\ evicted'[r] = evicted[r] \cup Crowded(r)
  BY <1>0, PlacedRow
<1>2. /\ \A j \in Live(r, r) : j <= i /\ j \notin evicted[r]
      /\ \A j \in evicted[r] : j < i
  BY <1>0 DEF SharedInv, Owns, OwnRow
<1>3. Crowded(r) \subseteq Live(r, r)
  BY CrowdedIs
<1> DEFINE pm == PlaceMessage(i)
           tm == TextMessage(i, text)
<1>4. /\ pm \in Messages /\ pm.id = i /\ pm.kind = "place"
      /\ tm \in Messages /\ tm.id = i /\ tm.kind = "text" /\ tm.text = text
  BY <1>1, MessageTypes DEF PlaceMessage, TextMessage
<1>5. PlaceMessages(i, text) = IF text = NoText THEN <<pm>> \o <<>> ELSE <<pm>> \o <<tm>>
  BY DEF PlaceMessages, LabelMessages
<1>a. i \in Nat
  BY <1>1, BoundsHold
<1> HIDE DEF pm, tm
<1>6. ASSUME NEW w \in Knowledge, Agrees(r, w), NEW u \in Knowledge, u[i] = {text},
             \A j \in Ids : j # i => u[j] = w[j]
      PROVE  Agrees(r, u)'
  <2>1. i \notin evicted'[r]
    <3>1. i \notin evicted[r]
      BY <1>2, <1>a
    <3> QED BY <1>1, <1>3, <3>1
  <2>2. i \in Live(r, r)' /\ beacons'[r][r][i].text = text
    BY <1>1, NewBeaconType DEF Live
  <2>3. ASSUME NEW j \in Ids, j # i
        PROVE  /\ j \in Live(r, r)' <=> (u[j] # {} /\ j \notin evicted'[r])
               /\ j \in Live(r, r)' => beacons'[r][r][j].text \in u[j] \cup {Typing}
    <3>1. j \in Live(r, r)' <=> j \in Live(r, r) \ Crowded(r)
      BY <1>1, <2>3, BoundsHold DEF Live
    <3>2. j \in Live(r, r)' => beacons'[r][r][j] = beacons[r][r][j]
      BY <1>1, <2>3, <3>1
    <3>3. /\ j \in Live(r, r) <=> (w[j] # {} /\ j \notin evicted[r])
          /\ j \in Live(r, r) => beacons[r][r][j].text \in w[j] \cup {Typing}
      BY <1>1, <1>6 DEF Agrees
    <3> QED BY <1>1, <1>3, <1>6, <2>3, <3>1, <3>2, <3>3
  <2> QED BY <1>6, <2>1, <2>2, <2>3 DEF Agrees
<1> SUFFICES ASSUME NEW ch \in Seq(Messages), NEW v \in Knowledge, NEW w \in Knowledge,
                    Brings(ch, v, w), Agrees(r, w)
             PROVE  \E u \in Knowledge : Brings(ch \o PlaceMessages(i, text), v, u) /\ Agrees(r, u)'
  BY <1>0 DEF Conveys
<1> DEFINE x == Outcome(w, pm)
           y == Outcome(x, tm)
<1>7. x \in Knowledge /\ x[i] = {NoText} /\ \A j \in Ids : j # i => x[j] = w[j]
  BY <1>4, OutcomeIs
<1>8. Brings(ch \o <<pm>>, v, x)
  BY <1>4, BringsMore DEF Wanted
<1> HIDE DEF x
<1>9. /\ <<pm>> \in Seq(Messages) /\ <<tm>> \in Seq(Messages) /\ <<>> \in Seq(Messages)
      /\ ch \o <<pm>> \in Seq(Messages)
  BY <1>4, ConcatProperties
<1>10. CASE text = NoText
  <2>1. PlaceMessages(i, text) = <<pm>>
    BY <1>5, <1>9, <1>10, ConcatEmptySeq
  <2>2. Agrees(r, x)'
    BY <1>6, <1>7, <1>10
  <2> QED BY <1>7, <1>8, <2>1, <2>2
<1>11. CASE text # NoText
  <2>1. (ch \o <<pm>>) \o <<tm>> = ch \o PlaceMessages(i, text)
    BY <1>5, <1>9, <1>11, ConcatAssociative
  <2>2. Wanted(x, tm)
    BY <1>4, <1>7 DEF Wanted
  <2>3. Brings((ch \o <<pm>>) \o <<tm>>, v, y)
    BY <1>4, <1>8, <1>9, <2>2, BringsMore
  <2>4. y \in Knowledge /\ y[i] = {text} /\ \A j \in Ids : j # i => y[j] = w[j]
    <3>1. /\ Outcome(x, tm) \in Knowledge
          /\ \A j \in Ids : j # tm.id => Outcome(x, tm)[j] = x[j]
          /\ tm.kind = "text" => Outcome(x, tm)[tm.id] = {tm.text}
      BY <1>4, <1>7, OutcomeIs
    <3> QED BY <1>4, <1>7, <3>1
  <2> HIDE DEF y
  <2>5. Agrees(r, y)'
    BY <1>6, <2>4
  <2> QED BY <2>1, <2>3, <2>4, <2>5
<1> QED BY <1>10, <1>11

LEMMA PlaceBeaconShares ==
    ASSUME SharedInv, NEW r \in Houses, NEW text \in Labels, PlaceBeacon(r, text)
    PROVE  SharedInv'
<1> DEFINE i == frame[r]
           ms == PlaceMessages(i, text)
           m == beacons'[r]
<1>1. /\ i \in Ids /\ i \notin Live(r, r) /\ ~IsDefeated(r, r)
      /\ \A h \in Houses : h # r => beacons'[r][h] = beacons[r][h]
      /\ \A h \in Houses : h # r => beacons'[h] = beacons[h]
      /\ \A j \in Ids : beacons'[r][r][j] =
                    IF j = i THEN NewBeacon(text)
                    ELSE IF j \in Crowded(r) THEN Absent ELSE beacons[r][r][j]
      /\ evicted'[r] = evicted[r] \cup Crowded(r)
      /\ \A h \in Houses : h # r => evicted'[h] = evicted[h]
  BY PlacedRow
<1>2. channel' = Sent(r, ms) /\ UNCHANGED <<frame, doom, editing>>
  BY DEF PlaceBeacon
<1>3. IInv'
  BY PlaceBeaconInv DEF SharedInv
<1>4. ms \in Seq(Messages)
  BY <1>1, PlaceMessagesType
<1>5. beacons' = [beacons EXCEPT ![r] = m]
  <2>1. Maps /\ Maps'
    BY <1>3 DEF SharedInv, IInv
  <2> QED BY <1>1, <2>1 DEF Maps
<1>6. Conveys(r, ms)
  BY PlaceConveys
<1>7. \A h \in Houses : h # r => SameRow(beacons[r], m, h)
  BY <1>1 DEF SameRow
<1>8. OwnRow(r) /\ OwnLabel(r)
  BY DEF SharedInv, Owns
<1>9. OwnRow(r)'
  <2>1. Crowded(r) \subseteq Live(r, r)
    BY CrowdedIs
  <2>2. \A j \in Ids : j \in Live(r, r)' <=> (j = i \/ j \in Live(r, r) \ Crowded(r))
    BY <1>1, LiveIs, NewBeaconType, BoundsHold DEF Live
  <2>3. Live(r, r)' \subseteq Ids /\ Live(r, r) \subseteq Ids /\ i \in Nat
    BY <1>1, BoundsHold DEF Live
  <2>4. ~IsDefeated(r, r)'
    BY <1>1, <1>2 DEF IsDefeated
  <2>5. i \notin evicted[r]
    BY <1>8, <2>3 DEF OwnRow
  <2>6. \A j \in Live(r, r)' : j <= i /\ j \notin evicted'[r]
    BY <1>1, <1>8, <2>1, <2>2, <2>3, <2>5 DEF OwnRow
  <2>7. \A j \in evicted'[r] : j < i
    <3> SUFFICES ASSUME NEW j \in Crowded(r) PROVE j < i
      BY <1>1, <1>8 DEF OwnRow
    <3>1. j \in Live(r, r) /\ j \in Nat /\ j # i
      BY <1>1, <2>1, <2>3, BoundsHold
    <3> QED BY <1>8, <2>3, <3>1 DEF OwnRow
  <2>8. \A j \in Ids : beacons'[r][r][j] # Null
    BY <1>1, <1>8, BoundsHold, NewBeaconType, EntryAssumption DEF OwnRow
  <2> QED BY <1>2, <2>4, <2>6, <2>7, <2>8 DEF OwnRow
<1>10. OwnLabel(r)'
  <2>1. \A h \in Houses, j \in Ids : IsSelected(m, h, j) => IsSelected(beacons[r], h, j)
    BY <1>1, NewBeaconType, BoundsHold DEF IsSelected
  <2> QED BY <1>2, <1>8, <2>1 DEF OwnLabel
<1> HIDE DEF m, ms
<1>11. \A h \in Houses : h # r => evicted'[h] = evicted[h] /\ editing'[h] = editing[h]
  BY <1>1, <1>2
<1> QED BY <1>2, <1>3, <1>4, <1>5, <1>6, <1>7, <1>9, <1>10, <1>11, InputShares

\* The deletion of the own beacon is told.
LEMMA ConveysDelete ==
    ASSUME SharedInv, NEW r \in Houses, NEW i \in Ids, i \in Live(r, r),
           UNCHANGED <<frame, doom>>, evicted'[r] = evicted[r],
           \A j \in Ids : beacons'[r][r][j] = IF j = i THEN Absent ELSE beacons[r][r][j]
    PROVE  Conveys(r, <<DeleteMessage(i)>>)
<1> DEFINE msg == DeleteMessage(i)
<1>1. msg \in Messages /\ msg.id = i /\ msg.kind = "delete"
  BY DEF DeleteMessage, Messages
<1> HIDE DEF msg
<1>2. ~IsDefeated(r, r)
  BY DEF SharedInv, Owns, OwnRow
<1> SUFFICES ASSUME NEW ch \in Seq(Messages), NEW v \in Knowledge, NEW w \in Knowledge,
                    Brings(ch, v, w), Agrees(r, w)
             PROVE  \E u \in Knowledge : Brings(ch \o <<msg>>, v, u) /\ Agrees(r, u)'
  BY DEF Conveys, msg
<1> DEFINE u == Outcome(w, msg)
<1>3. u \in Knowledge /\ u[i] = {} /\ \A j \in Ids : j # i => u[j] = w[j]
  <2>1. /\ Outcome(w, msg) \in Knowledge
        /\ \A j \in Ids : j # msg.id => Outcome(w, msg)[j] = w[j]
        /\ msg.kind = "delete" => Outcome(w, msg)[msg.id] = {}
    BY <1>1, OutcomeIs
  <2> QED BY <1>1, <2>1
<1>4. Wanted(w, msg)
  BY <1>1, <1>2 DEF Wanted, Agrees
<1>5. Brings(ch \o <<msg>>, v, u)
  BY <1>1, <1>4, BringsMore
<1> HIDE DEF u
<1>6. Agrees(r, u)'
  <2> SUFFICES ASSUME NEW j \in Ids
               PROVE  /\ j \in Live(r, r)' <=> (u[j] # {} /\ j \notin evicted'[r])
                      /\ j \in Live(r, r)' => beacons'[r][r][j].text \in u[j] \cup {Typing}
    BY DEF Agrees
  <2>1. j \in Live(r, r)' <=> j # i /\ j \in Live(r, r)
    BY BoundsHold DEF Live
  <2>2. /\ j \in Live(r, r) <=> (w[j] # {} /\ j \notin evicted[r])
        /\ j \in Live(r, r) => beacons[r][r][j].text \in w[j] \cup {Typing}
    BY <1>2 DEF Agrees
  <2> QED BY <1>3, <2>1, <2>2
<1> QED BY <1>3, <1>5, <1>6

LEMMA DeleteBeaconShares ==
    ASSUME SharedInv, NEW r \in Houses, DeleteBeacon(r)
    PROVE  SharedInv'
<1>1. PICK b \in Selected(r) :
         IF b[1] = r
         THEN /\ beacons' = [beacons EXCEPT ![r] = With(r, r, b[2], Absent)]
              /\ channel' = Sent(r, <<DeleteMessage(b[2])>>)
         ELSE /\ beacons' = [beacons EXCEPT ![r] =
                    With(r, b[1], b[2],
                         [beacons[r][b[1]][b[2]] EXCEPT !.visible = FALSE, !.selected = FALSE])]
              /\ UNCHANGED channel
  BY DEF DeleteBeacon
<1>2. PICK h \in Houses, i \in Ids : b = <<h, i>>
  BY <1>1 DEF Selected
<1>3. IsSelected(beacons[r], h, i)
  BY <1>1, <1>2, SelectedIs
<1>4. UNCHANGED <<frame, doom, evicted, editing>>
  BY DEF DeleteBeacon, screen
<1>5. IInv'
  BY DeleteBeaconInv DEF SharedInv
<1>6. Maps /\ Mail /\ OwnRow(r) /\ OwnLabel(r)
  BY DEF SharedInv, IInv, Owns
<1>7. CASE h = r
  <2> DEFINE m == With(r, r, i, Absent)
             ms == <<DeleteMessage(i)>>
  <2>1. beacons' = [beacons EXCEPT ![r] = m] /\ channel' = Sent(r, ms)
    BY <1>1, <1>2, <1>7
  <2>2. ms \in Seq(Messages)
    BY DEF DeleteMessage, Messages
  <2>3. \A k \in Houses, j \in Ids :
          m[k][j] = IF k = r /\ j = i THEN Absent ELSE beacons[r][k][j]
    BY <1>6 DEF With, Maps
  <2> HIDE DEF m
  <2>4. beacons'[r] = m
    BY <1>6, <2>1 DEF Maps
  <2>5. i \in Live(r, r)
    BY <1>3, <1>7, LiveIs DEF IsSelected
  <2>6. Conveys(r, ms)
    BY <1>4, <2>3, <2>4, <2>5, ConveysDelete
  <2> HIDE DEF ms
  <2>7. OwnRow(r)'
    <3>1. Live(r, r)' = Live(r, r) \ {i}
      BY <2>3, <2>4, BoundsHold DEF Live
    <3>2. \A j \in Ids : beacons'[r][r][j] # Null
      BY <1>6, <2>3, <2>4, EntryAssumption DEF OwnRow
    <3> QED BY <1>4, <1>6, <3>1, <3>2 DEF OwnRow, IsDefeated
  <2>8. OwnLabel(r)'
    <3>1. \A k \in Houses, j \in Ids : IsSelected(m, k, j) => IsSelected(beacons[r], k, j)
      BY <2>3, BoundsHold DEF IsSelected
    <3> QED BY <1>4, <1>6, <2>4, <3>1 DEF OwnLabel
  <2>9. \A k \in Houses : k # r => SameRow(beacons[r], m, k)
    BY <2>3 DEF SameRow
  <2> QED BY <1>4, <1>5, <2>1, <2>2, <2>6, <2>7, <2>8, <2>9, InputShares
<1>8. CASE h # r
  <2> DEFINE e == [beacons[r][h][i] EXCEPT !.visible = FALSE, !.selected = FALSE]
             m == With(r, h, i, e)
  <2>1. beacons' = [beacons EXCEPT ![r] = m] /\ channel' = Sent(r, <<>>)
    BY <1>1, <1>2, <1>6, <1>8, SentNothing
  <2>2. e \in Beacon /\ ~e.selected /\ e.text = beacons[r][h][i].text
    BY <1>3 DEF IsSelected, Beacon
  <2>3. \A k \in Houses, j \in Ids :
          m[k][j] = IF k = h /\ j = i THEN e ELSE beacons[r][k][j]
    BY <1>6 DEF With, Maps
  <2> HIDE DEF m, e
  <2>4. beacons'[r] = m
    BY <1>6, <2>1 DEF Maps
  <2>5. \A j \in Ids : beacons'[r][r][j] = beacons[r][r][j]
    BY <1>8, <2>3, <2>4
  <2>6. Conveys(r, <<>>) /\ OwnRow(r)'
    <3>1. UNCHANGED <<frame, doom>> /\ evicted'[r] = evicted[r]
      BY <1>4
    <3>2. Conveys(r, <<>>)
      BY <2>5, <3>1, ConveysNothing
    <3> QED BY <2>5, <3>1, <3>2, OwnRowSame
  <2>7. OwnLabel(r)'
    <3>1. \A k \in Houses, j \in Ids : IsSelected(m, k, j) => IsSelected(beacons[r], k, j)
      BY <2>2, <2>3 DEF IsSelected
    <3> QED BY <1>4, <1>6, <2>4, <3>1 DEF OwnLabel
  <2>8. \A k \in Houses : k # r => SameRow(beacons[r], m, k)
    BY <1>3, <2>2, <2>3, BoundsHold DEF SameRow, IsSelected
  <2>9. <<>> \in Seq(Messages)
    OBVIOUS
  <2> QED BY <1>4, <1>5, <2>1, <2>6, <2>7, <2>8, <2>9, InputShares
<1> QED BY <1>7, <1>8

\* A player who is defeated has no beacons on his own machine; the others keep what
\* they have, which nobody compares with his any more.
LEMMA NextFrameShares ==
    ASSUME SharedInv, NEW r \in Houses, NextFrame(r)
    PROVE  SharedInv'
<1> DEFINE m == [h \in Houses |-> IF h = r /\ doom[h] = frame[r] + 1
                                  THEN [i \in Ids |-> Absent]
                                  ELSE beacons[r][h]]
<1>1. /\ frame' = [frame EXCEPT ![r] = @ + 1]
      /\ beacons' = [beacons EXCEPT ![r] = m]
      /\ UNCHANGED <<doom, evicted, channel, editing>>
  BY DEF NextFrame, screen, SharedInv, IInv, Maps
<1>2. IInv'
  BY NextFrameInv DEF SharedInv
<1>3. Maps /\ frame \in [Houses -> Ids] /\ doom \in [Houses -> 1 .. MaxFrame + 1] /\ Ids \subseteq Nat
  BY BoundsHold DEF SharedInv, IInv, Frames
<1>4. \A h \in Houses : m[h] = IF h = r /\ doom[h] = frame[r] + 1
                               THEN [i \in Ids |-> Absent]
                               ELSE beacons[r][h]
  OBVIOUS
<1> HIDE DEF m
<1>5. /\ beacons'[r] = m /\ \A h \in Houses : h # r => beacons'[h] = beacons[h]
      /\ frame'[r] = frame[r] + 1 /\ \A h \in Houses : h # r => frame'[h] = frame[h]
  BY <1>1, <1>3 DEF Maps
<1>6. \A p, h \in Houses : frame[p] \in Nat /\ doom[h] \in Nat
  <2> TAKE p, h \in Houses
  <2>1. frame[p] \in Ids /\ doom[h] \in 1 .. MaxFrame + 1
    BY <1>3
  <2>2. MaxFrame \in Nat /\ Ids \subseteq Nat
    BY BoundsHold
  <2>3. frame[p] \in Nat
    BY <2>1, <2>2
  <2>4. doom[h] \in Nat
    BY <2>1, <2>2
  <2> QED BY <2>3, <2>4
<1>7. \A h \in Houses : ~IsDefeated(h, h)' =>
        ~IsDefeated(h, h) /\ beacons'[h][h] = beacons[h][h]
  <2> SUFFICES ASSUME NEW h \in Houses, ~IsDefeated(h, h)'
               PROVE  ~IsDefeated(h, h) /\ beacons'[h][h] = beacons[h][h]
    OBVIOUS
  <2>1. ~(doom[h] <= frame'[h])
    BY <1>1 DEF IsDefeated
  <2>2. CASE h = r
    <3>1. ~(doom[h] <= frame[r] + 1)
      BY <1>5, <2>1, <2>2
    <3>2. ~(doom[h] <= frame[r]) /\ doom[h] # frame[r] + 1
      BY <1>6, <3>1
    <3> QED BY <1>4, <1>5, <2>2, <3>2 DEF IsDefeated
  <2>3. CASE h # r
    BY <1>5, <2>1, <2>3 DEF IsDefeated
  <2> QED BY <2>2, <2>3
<1>8. \A w : \A h \in Houses : Agrees(h, w) => Agrees(h, w)'
  <2> SUFFICES ASSUME NEW h \in Houses, NEW w, Agrees(h, w), ~IsDefeated(h, h)'
               PROVE  Agrees(h, w)'
    BY DEF Agrees
  <2>1. ~IsDefeated(h, h) /\ beacons'[h][h] = beacons[h][h]
    BY <1>7
  <2>2. Live(h, h)' = Live(h, h)
    BY <2>1 DEF Live
  <2> QED BY <1>1, <2>1, <2>2 DEF Agrees
<1>9. Pairs'
  <2> SUFFICES ASSUME NEW p \in Houses, NEW h \in Houses, p # h
               PROVE  Pair(p, h)'
    BY DEF Pairs
  <2>1. beacons'[p][h] = beacons[p][h]
    BY <1>4, <1>5
  <2>2. Pair(p, h)
    BY DEF SharedInv, Pairs
  <2>3. View(beacons'[p], h) = View(beacons[p], h) /\ channel'[h][p] = channel[h][p]
    BY <1>1, <2>1 DEF View
  <2>4. PICK w \in Knowledge : Brings(channel[h][p], View(beacons[p], h), w) /\ Agrees(h, w)
    BY <2>1, <2>2 DEF Pair
  <2>5. Brings(channel'[h][p], View(beacons'[p], h), w) /\ Agrees(h, w)'
    BY <1>8, <2>3, <2>4
  <2>6. \A i \in Ids : beacons'[p][h][i] # Null
    BY <2>1, <2>2 DEF Pair
  <2> QED BY <2>5, <2>6 DEF Pair
<1>10. ASSUME NEW h \in Houses PROVE OwnRow(h)' /\ OwnLabel(h)' /\ channel'[h][h] = <<>>
  <2>1. OwnRow(h) /\ OwnLabel(h) /\ channel[h][h] = <<>>
    BY DEF SharedInv, Owns
  <2>2. CASE h # r
    <3>1. Live(h, h)' = Live(h, h) /\ IsDefeated(h, h)' = IsDefeated(h, h)
      BY <1>1, <1>5, <2>2 DEF Live, IsDefeated
    <3> QED BY <1>1, <1>5, <2>1, <2>2, <3>1 DEF OwnRow, OwnLabel
  <2>3. CASE h = r
    <3>1. \A k \in Houses, i \in Ids : m[k][i] \in {Absent, beacons[r][k][i]}
      BY <1>4
    <3>2. Live(r, r)' \subseteq Live(r, r) /\ Live(r, r) \subseteq Ids
      BY <1>5, <3>1, BoundsHold DEF Live
    <3>3. IsDefeated(r, r)' => Live(r, r)' = {}
      <4>1. CASE doom[r] <= frame[r]
        BY <2>1, <2>3, <3>2, <4>1 DEF OwnRow, IsDefeated
      <4>2. CASE doom[r] = frame[r] + 1
        <5>1. \A i \in Ids : m[r][i] = Absent
          BY <1>4, <4>2
        <5> QED BY <1>5, <5>1, BoundsHold DEF Live
      <4>3. IsDefeated(r, r)' => doom[r] <= frame[r] + 1
        BY <1>1, <1>5 DEF IsDefeated
      <4> QED BY <1>6, <4>1, <4>2, <4>3
    <3>4. \A i \in Live(r, r)' : i <= frame'[r] /\ i \notin evicted'[r]
      <4> SUFFICES ASSUME NEW i \in Live(r, r)' PROVE i <= frame'[r] /\ i \notin evicted'[r]
        OBVIOUS
      <4>1. i \in Live(r, r) /\ i \in Nat
        BY <1>3, <3>2
      <4>2. i <= frame[r] /\ i \notin evicted[r]
        BY <2>1, <2>3, <4>1 DEF OwnRow
      <4>3. frame[r] \in Nat /\ frame'[r] = frame[r] + 1 /\ evicted'[r] = evicted[r]
        BY <1>1, <1>5, <1>6
      <4> QED BY <4>1, <4>2, <4>3
    <3>5. \A i \in evicted'[r] : i < frame'[r]
      <4>1. evicted[r] \subseteq Nat
        BY <1>3 DEF SharedInv, IInv, Losses
      <4> QED BY <1>1, <1>5, <1>6, <2>1, <2>3, <4>1 DEF OwnRow
    <3>6. \A i \in Ids : beacons'[r][r][i] # Null
      BY <1>5, <2>1, <2>3, <3>1, EntryAssumption DEF OwnRow
    <3>7. OwnRow(r)'
      BY <3>3, <3>4, <3>5, <3>6 DEF OwnRow
    <3>8. \A k \in Houses, i \in Ids : IsSelected(m, k, i) => IsSelected(beacons[r], k, i)
      BY <3>1, BoundsHold DEF IsSelected
    <3>9. OwnLabel(r)'
      BY <1>1, <1>5, <2>1, <2>3, <3>8 DEF OwnLabel
    <3> QED BY <1>1, <2>1, <2>3, <3>7, <3>9
  <2> QED BY <2>2, <2>3
<1> QED BY <1>2, <1>9, <1>10 DEF SharedInv, Owns

\* A message arrives: its sender is another player. If p has not executed the
\* sender's defeat, the beacon it is about is there.
LEMMA ReceiveShares ==
    ASSUME SharedInv, NEW p \in Houses, NEW q \in Houses, Receive(p, q)
    PROVE  SharedInv'
<1>1. IInv'
  BY ReceiveInv DEF SharedInv
<1>2. channel[q][p] # <<>> /\ p # q
  BY DEF Receive, ReceivePlace, ReceiveDelete, ReceiveText, SharedInv, Owns
<1>3. Maps /\ Mail /\ Screens /\ Machines /\ Maps'
  BY <1>1 DEF SharedInv, IInv
<1> DEFINE ch == channel[q][p]
<1>a. /\ ch \in Seq(Messages) /\ First(p, q) \in Messages /\ First(p, q) = Head(ch)
      /\ First(p, q).id \in Ids
      /\ First(p, q).kind = "text" => First(p, q).text \in Labels
  <2>1. ch \in Seq(Messages)
    BY <1>3 DEF Mail
  <2> QED BY <1>2, <1>3, <2>1, FirstType DEF First
<1>b. PICK msg \in Messages : msg = First(p, q)
  BY <1>a
<1>c. PICK i \in Ids : i = msg.id
  BY <1>a, <1>b
<1>4. ch \in Seq(Messages) /\ msg = Head(ch) /\ i = msg.id
      /\ (msg.kind = "text" => msg.text \in Labels)
  BY <1>a, <1>b, <1>c
<1>5. PICK e \in Entry :
        /\ Arrive(p, q, e)
        /\ msg.kind = "place" => e = NewBeacon(NoText)
        /\ msg.kind = "delete" => e = IF Found(p, q) \in Beacon THEN Absent ELSE Null
        /\ msg.kind = "text" => e = IF Found(p, q) \in Beacon THEN Labelled(Found(p, q), msg.text)
                                    ELSE Null
        /\ e \in Beacon => (e.selected => Found(p, q) \in Beacon /\ Found(p, q).selected)
  <2>1. Found(p, q) \in Entry /\ Found(p, q) = beacons[p][q][i]
    BY <1>3, <1>b, <1>c DEF Found, Maps
  <2>2. Absent \in Entry /\ Null \in Entry /\ Absent \notin Beacon /\ Null \notin Beacon
    BY BoundsHold DEF Entry
  <2>3. CASE ReceivePlace(p, q)
    <3>1. NoText \in Labels
      BY DEF Labels
    <3>2. NewBeacon(NoText) \in Entry /\ ~NewBeacon(NoText).selected
      BY <3>1, NewBeaconType DEF Entry
    <3> QED BY <1>b, <2>3, <3>2 DEF ReceivePlace
  <2>4. CASE ReceiveDelete(p, q)
    BY <1>b, <2>2, <2>4 DEF ReceiveDelete
  <2>5. CASE ReceiveText(p, q)
    <3> DEFINE e == IF Found(p, q) \in Beacon THEN Labelled(Found(p, q), msg.text) ELSE Null
    <3>1. msg.kind = "text" /\ Arrive(p, q, e)
      BY <1>b, <2>5 DEF ReceiveText
    <3>2. e \in Entry /\ (e \in Beacon => (e.selected => Found(p, q) \in Beacon /\ Found(p, q).selected))
      <4>1. msg.text \in Labels
        BY <1>4, <3>1
      <4>2. CASE Found(p, q) \in Beacon
        <5>1. /\ Labelled(Found(p, q), msg.text) \in Entry
              /\ Labelled(Found(p, q), msg.text).selected = Found(p, q).selected
          BY <2>1, <4>1, <4>2, LabelledType
        <5> QED BY <4>2, <5>1
      <4> QED BY <2>2, <4>2
    <3>3. e = IF Found(p, q) \in Beacon THEN Labelled(Found(p, q), msg.text) ELSE Null
      OBVIOUS
    <3> HIDE DEF e
    <3> QED BY <3>1, <3>2, <3>3
  <2> QED BY <2>3, <2>4, <2>5 DEF Receive
<1>6. /\ channel' = [channel EXCEPT ![q][p] = Tail(@)]
      /\ beacons' = [beacons EXCEPT ![p] = With(p, q, i, e)]
      /\ UNCHANGED <<frame, doom, evicted, editing>>
  BY <1>b, <1>c, <1>5 DEF Arrive, First, screen
<1>7. /\ \A h \in Houses : h # p => beacons'[h] = beacons[h]
      /\ \A h \in Houses : h # q => beacons'[p][h] = beacons[p][h]
      /\ \A j \in Ids : beacons'[p][q][j] = IF j = i THEN e ELSE beacons[p][q][j]
  <2>1. With(p, q, i, e) = [beacons[p] EXCEPT ![q] = [@ EXCEPT ![i] = e]]
    BY <1>3, <1>4, WithMaps
  <2>2. beacons'[p] = [beacons[p] EXCEPT ![q] = [@ EXCEPT ![i] = e]]
    BY <1>3, <1>6, <2>1 DEF Maps
  <2>3. \A h \in Houses : h # p => beacons'[h] = beacons[h]
    BY <1>3, <1>6 DEF Maps
  <2> QED BY <1>3, <2>2, <2>3 DEF Maps
<1>8. /\ channel'[q][p] = Tail(ch)
      /\ \A g, h \in Houses : g # q \/ h # p => channel'[g][h] = channel[g][h]
  BY <1>3, <1>6 DEF Mail
<1>9. \A w : \A h \in Houses : Agrees(h, w) => Agrees(h, w)'
  <2> SUFFICES ASSUME NEW h \in Houses, NEW w, Agrees(h, w) PROVE Agrees(h, w)'
    OBVIOUS
  <2>1. beacons'[h][h] = beacons[h][h]
    BY <1>2, <1>7
  <2>2. Live(h, h)' = Live(h, h) /\ IsDefeated(h, h)' = IsDefeated(h, h)
    BY <1>6, <2>1 DEF Live, IsDefeated
  <2> QED BY <1>6, <2>1, <2>2 DEF Agrees
<1>10. ASSUME NEW g \in Houses, NEW h \in Houses, g # h
       PROVE  /\ \A j \in Ids : beacons'[g][h][j] # Null
              /\ \E w \in Knowledge : Brings(channel'[h][g], View(beacons'[g], h), w) /\ Agrees(h, w)'
  <2>1. Pair(g, h)
    BY <1>10 DEF SharedInv, Pairs
  <2>2. \A j \in Ids : beacons[g][h][j] # Null
    BY <1>10, <2>1 DEF Pair
  <2>3. PICK w \in Knowledge : Brings(channel[h][g], View(beacons[g], h), w) /\ Agrees(h, w)
    BY <1>10, <2>1 DEF Pair
  <2>4. CASE g = p /\ h = q
    <3> DEFINE v == View(beacons[p], q)
    <3>1. Brings(ch, v, w)
      BY <2>3, <2>4
    <3>2. TypedMaps(beacons[p]) /\ TypedMaps(beacons'[p])
      BY <1>3 DEF Maps, TypedMaps
    <3>3. v \in Knowledge /\ \A j \in Ids : v[j] = IF beacons[p][q][j] \in Beacon
                                                    THEN {beacons[p][q][j].text} ELSE {}
      BY <3>2, ViewIs
    <3> HIDE DEF v, ch
    <3>4. Wanted(v, msg) /\ Brings(Tail(ch), Outcome(v, msg), w)
      BY <1>2, <1>4, <3>1, BringsFirst DEF ch
    <3>5. Found(p, q) = beacons[p][q][i] /\ beacons[p][q][i] \in Entry
      BY <1>3, <1>b, <1>c DEF Found, Maps
    <3>6. msg.kind # "place" => Found(p, q) \in Beacon
      BY <1>4, <3>3, <3>4, <3>5 DEF Wanted
    <3>7. msg.kind \in {"place", "delete", "text"}
      BY <1>4 DEF Messages
    <3>8. NoText \in Labels /\ NewBeacon(NoText) \in Beacon /\ NewBeacon(NoText).text = NoText
      BY NewBeaconType DEF Labels
    <3>9. /\ msg.kind = "place" => e \in Beacon /\ e.text = NoText
          /\ msg.kind = "delete" => e = Absent
          /\ msg.kind = "text" => e \in Beacon /\ e.text = msg.text
      BY <1>4, <1>5, <3>5, <3>6, <3>8, LabelledType
    <3>10. e # Null
      BY <3>7, <3>9, BoundsHold, EntryAssumption
    <3>11. View(beacons'[p], q) = Outcome(v, msg)
      <4> DEFINE n == View(beacons'[p], q)
                 o == Outcome(v, msg)
      <4>1. n \in Knowledge
            /\ \A j \in Ids : n[j] = IF beacons'[p][q][j] \in Beacon
                                     THEN {beacons'[p][q][j].text} ELSE {}
        BY <3>2, ViewIs
      <4>2. /\ o \in Knowledge
            /\ \A j \in Ids : j # msg.id => o[j] = v[j]
            /\ msg.kind = "place" => o[msg.id] = {NoText}
            /\ msg.kind = "text" => o[msg.id] = {msg.text}
            /\ msg.kind = "delete" => o[msg.id] = {}
        BY <1>4, <3>3, OutcomeIs
      <4> HIDE DEF n, o
      <4>3. n[i] = o[i]
        <5>1. i \in Ids /\ beacons'[p][q][i] = e
          BY <1>4, <1>7
        <5>2. n[i] = IF e \in Beacon THEN {e.text} ELSE {}
          BY <4>1, <5>1
        <5>3. /\ msg.kind = "place" => o[i] = {NoText}
              /\ msg.kind = "text" => o[i] = {msg.text}
              /\ msg.kind = "delete" => o[i] = {}
          BY <1>4, <4>2
        <5> QED BY <3>7, <3>9, <5>2, <5>3, BoundsHold
      <4>4. ASSUME NEW j \in Ids, j # i PROVE n[j] = o[j]
        <5>1. beacons'[p][q][j] = beacons[p][q][j]
          BY <1>7, <4>4
        <5>2. n[j] = IF beacons[p][q][j] \in Beacon THEN {beacons[p][q][j].text} ELSE {}
          BY <4>1, <5>1
        <5>3. v[j] = IF beacons[p][q][j] \in Beacon THEN {beacons[p][q][j].text} ELSE {}
          BY <3>3
        <5>4. o[j] = v[j]
          BY <1>4, <4>2, <4>4
        <5> QED BY <5>2, <5>3, <5>4
      <4>5. \A j \in Ids : n[j] = o[j]
        BY <4>3, <4>4
      <4>6. n = o
        BY <4>1, <4>2, <4>5 DEF Knowledge
      <4> QED BY <4>6 DEF n, o
    <3>12. Brings(channel'[q][p], View(beacons'[p], q), w) /\ Agrees(q, w)'
      BY <1>8, <1>9, <2>3, <2>4, <3>4, <3>11
    <3>13. \A j \in Ids : beacons'[p][q][j] # Null
      BY <1>7, <2>2, <2>4, <3>10
    <3> QED BY <2>4, <3>12, <3>13
  <2>5. CASE ~(g = p /\ h = q)
    <3>1. beacons'[g][h] = beacons[g][h] /\ channel'[h][g] = channel[h][g]
      BY <1>7, <1>8, <2>5
    <3>2. View(beacons'[g], h) = View(beacons[g], h)
      BY <3>1 DEF View
    <3> QED BY <1>9, <2>2, <2>3, <3>1, <3>2
  <2> QED BY <2>4, <2>5
<1>11. Pairs'
  <2> SUFFICES ASSUME NEW g \in Houses, NEW h \in Houses, g # h PROVE Pair(g, h)'
    BY DEF Pairs
  <2> QED BY <1>10 DEF Pair
<1>12. Owns'
  <2> SUFFICES ASSUME NEW h \in Houses PROVE OwnRow(h)' /\ OwnLabel(h)' /\ channel'[h][h] = <<>>
    BY DEF Owns
  <2>1. OwnRow(h) /\ OwnLabel(h) /\ channel[h][h] = <<>>
    BY DEF SharedInv, Owns
  <2>2. beacons'[h][h] = beacons[h][h]
    BY <1>2, <1>7
  <2>3. OwnRow(h)'
    <3>1. Live(h, h)' = Live(h, h) /\ IsDefeated(h, h)' = IsDefeated(h, h)
      BY <1>6, <2>2 DEF Live, IsDefeated
    <3> QED BY <1>6, <2>1, <2>2, <3>1 DEF OwnRow
  <2>4. \A k \in Houses, j \in Ids : IsSelected(beacons'[h], k, j) => IsSelected(beacons[h], k, j)
    <3>1. CASE h # p
      BY <1>7, <3>1 DEF IsSelected
    <3>2. CASE h = p
      <4>1. Found(p, q) = beacons[p][q][i]
        BY <1>b, <1>c DEF Found
      <4> QED BY <1>5, <1>7, <3>2, <4>1 DEF IsSelected
    <3> QED BY <3>1, <3>2
  <2>5. OwnLabel(h)'
    BY <1>6, <2>1, <2>4 DEF OwnLabel
  <2>6. channel'[h][h] = <<>>
    BY <1>2, <1>8, <2>1
  <2> QED BY <2>3, <2>5, <2>6
<1> QED BY <1>1, <1>11, <1>12 DEF SharedInv

LEMMA InitShared == Init => SharedInv
<1> SUFFICES ASSUME Init PROVE SharedInv
  OBVIOUS
<1>1. IInv
  BY InitInv
<1>2. \A p, h \in Houses, i \in Ids : beacons[p][h][i] = Absent
  BY DEF Init
<1>3. \A p, h \in Houses : Live(p, h) = {} /\ channel[p][h] = <<>> /\ evicted[h] = {} /\ ~editing[h]
  BY <1>2, BoundsHold DEF Init, Live
<1>4. Owns
  BY <1>2, <1>3, EntryAssumption DEF Owns, OwnRow, OwnLabel
<1>5. ASSUME NEW p \in Houses, NEW h \in Houses PROVE Pair(p, h)
  <2> DEFINE v == View(beacons[p], h)
  <2>1. TypedMaps(beacons[p])
    BY <1>1 DEF IInv, Maps, TypedMaps
  <2>2. v \in Knowledge /\ \A i \in Ids : v[i] = {}
    <3>1. v \in Knowledge /\ \A i \in Ids : v[i] = IF beacons[p][h][i] \in Beacon
                                                   THEN {beacons[p][h][i].text} ELSE {}
      BY <2>1, ViewIs
    <3> HIDE DEF v
    <3>2. \A i \in Ids : beacons[p][h][i] \notin Beacon
      BY <1>2, BoundsHold
    <3> QED BY <3>1, <3>2
  <2> HIDE DEF v
  <2>3. Brings(channel[h][p], v, v)
    BY <1>3, <2>2, BringsNothing
  <2>4. Agrees(h, v)
    BY <1>3, <2>2 DEF Agrees
  <2> QED BY <1>2, <2>2, <2>3, <2>4, EntryAssumption DEF Pair, v
<1> QED BY <1>1, <1>4, <1>5 DEF SharedInv, Pairs

\* As long as nothing has come late or twice.
LEMMA NextShared == SharedInv /\ [Next]_vars /\ resent' = resent => SharedInv'
<1> SUFFICES ASSUME SharedInv, [Next]_vars, resent' = resent PROVE SharedInv'
  OBVIOUS
<1>1. CASE UNCHANGED vars
  <2>1. IInv'
    BY <1>1, NextInv DEF SharedInv
  <2> QED BY <1>1, <2>1, ScreenShares DEF vars, screen
<1>2. ASSUME NEW p \in Houses, Input(p) PROVE SharedInv'
  BY <1>2, UnselectingShares, QuietShares, PlaceBeaconShares, SelectBeaconShares,
     DeleteBeaconShares, BeginLabelShares, EndLineShares DEF Input
<1>3. ASSUME NEW p \in Houses, NEW q \in Houses, Receive(p, q) PROVE SharedInv'
  BY <1>3, ReceiveShares
<1>4. CASE \E p, q \in Houses : Resend(p, q)
  <2>1. resent < MaxResent /\ resent' = resent + 1
    BY <1>4 DEF Resend
  <2> QED BY <2>1, BeaconAssumption
<1> QED BY <1>1, <1>2, <1>3, <1>4, NextFrameShares DEF Next

\* What is shared is shared in order.
OrderlyInv == IInv /\ resent \in Nat /\ (resent = 0 => SharedInv)

LEMMA OrderlyInvariant == Spec => []OrderlyInv
<1>1. Init => OrderlyInv
  BY InitShared DEF OrderlyInv, SharedInv, Init
<1>2. OrderlyInv /\ [Next]_vars => OrderlyInv'
  <2> SUFFICES ASSUME OrderlyInv, [Next]_vars PROVE OrderlyInv'
    OBVIOUS
  <2>1. IInv' /\ resent' \in Nat
    BY NextInv, ResentIs DEF OrderlyInv
  <2>2. ASSUME resent' = 0 PROVE SharedInv'
    <3>1. resent' = resent
      BY <2>2, ResentIs DEF OrderlyInv
    <3> QED BY <2>2, <3>1, NextShared DEF OrderlyInv
  <2> QED BY <2>1, <2>2 DEF OrderlyInv
<1> QED BY <1>1, <1>2, PTL DEF Spec

(* Deletions and labels never overtake the beacon they are about, nor outlive  *)
(* it: no machine ever makes an entry without a beacon, which Draw would       *)
(* follow, as long as no message came late or twice (NoEmptyEntry of Beacons). *)
THEOREM NothingOvertakes == Spec => []NoEmptyEntry
<1>1. ASSUME SharedInv, NEW p \in Houses, NEW h \in Houses, NEW i \in Ids
      PROVE  beacons[p][h][i] # Null
  BY <1>1 DEF SharedInv, Pairs, Pair, Owns, OwnRow
<1>2. OrderlyInv => NoEmptyEntry
  BY <1>1 DEF OrderlyInv, NoEmptyEntry, Running
<1> QED BY <1>2, OrderlyInvariant, PTL

(* Once all messages of a player have arrived, the others have his beacons and *)
(* labels, and no others but those he lost to MaxBeacons, as long as no        *)
(* message came late or twice (Shared of Beacons).                             *)
THEOREM BeaconsAreShared == Spec => []Shared
<1>1. ASSUME SharedInv, NEW h \in Houses, NEW p \in Houses,
             channel[h][p] = <<>>, ~IsDefeated(h, h)
      PROVE  /\ Live(p, h) \ evicted[h] = Live(h, h)
             /\ \A i \in Live(h, h) : beacons[h][h][i].text \in {Typing, beacons[p][h][i].text}
  <2>1. CASE p = h
    BY <1>1, <2>1 DEF SharedInv, Owns, OwnRow
  <2>2. CASE p # h
    <3> DEFINE v == View(beacons[p], h)
    <3>1. TypedMaps(beacons[p])
      BY <1>1 DEF SharedInv, IInv, Maps, TypedMaps
    <3>2. v \in Knowledge /\ \A i \in Ids : v[i] = IF beacons[p][h][i] \in Beacon
                                                   THEN {beacons[p][h][i].text} ELSE {}
      BY <3>1, ViewIs
    <3>3. Agrees(h, v)
      <4>1. PICK w \in Knowledge : Brings(channel[h][p], View(beacons[p], h), w) /\ Agrees(h, w)
        BY <1>1, <2>2 DEF SharedInv, Pairs, Pair
      <4>2. v = w
        BY <1>1, <3>2, <4>1, BringsNothing
      <4> QED BY <4>1, <4>2
    <3> HIDE DEF v
    <3>4. \A i \in Ids :
            /\ i \in Live(h, h) <=> (v[i] # {} /\ i \notin evicted[h])
            /\ i \in Live(h, h) => beacons[h][h][i].text \in v[i] \cup {Typing}
      BY <1>1, <3>3 DEF Agrees
    <3>5. \A i \in Ids : i \in Live(p, h) <=> v[i] # {}
      BY <3>2 DEF Live
    <3>6. Live(p, h) \subseteq Ids /\ Live(h, h) \subseteq Ids
      BY DEF Live
    <3>7. Live(p, h) \ evicted[h] = Live(h, h)
      BY <3>4, <3>5, <3>6
    <3>8. \A i \in Live(h, h) : beacons[h][h][i].text \in {Typing, beacons[p][h][i].text}
      BY <3>2, <3>4, <3>6
    <3> QED BY <3>7, <3>8
  <2> QED BY <2>1, <2>2
<1>2. OrderlyInv => Shared
  BY <1>1 DEF OrderlyInv, Shared
<1> QED BY <1>2, OrderlyInvariant, PTL
==============================================================================
