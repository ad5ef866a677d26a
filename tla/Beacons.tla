------------------------------- MODULE Beacons -------------------------------
(* Communication beacons.  Every player's machine keeps a BeaconManager with   *)
(* the beacons of all houses, and tells the others of what its own player      *)
(* does with global messages, outside the lockstep of the simulation.  The     *)
(* defeat of a house is part of the simulation: every machine executes it in   *)
(* the same frame, but not at the same time.  The player's own machine deletes *)
(* his beacons with it; the others keep theirs, and show them no more.         *)
(*                                                                             *)
(* The connections are the game's.  Messages ask for an acknowledgement, and   *)
(* one that lacks it is sent again; nothing in this code notices if it then    *)
(* comes after later ones, or twice.  The model lets this happen, and says     *)
(* which properties need that it does not.                                     *)
(*                                                                             *)
(* A player is named by the house he plays.  A beacon is known by the frame    *)
(* in which it was placed; its position never changes and is left out: a       *)
(* player clicks on a beacon, or not.                                          *)
EXTENDS Integers, Sequences, FiniteSets

CONSTANTS
    Houses,         \* the houses of the players
    Texts,          \* the labels a player can give
    NoText,         \* an empty label
    Typing,         \* what was typed so far, and an underscore
    Absent,         \* no entry of the map of beacons
    Null,           \* an entry of the map without a beacon
    Allied,         \* pairs of houses that are allies of each other
    MaxBeacons,     \* RuleExtension->MaxBeacons; 0 or less: no limit
    MaxFrame,       \* bound: frames that are played
    MaxAhead,       \* how many frames a machine may be ahead of another
    MaxInFlight,    \* bound: messages between two machines
    MaxResent       \* bound: messages that come late or twice

ASSUME BeaconAssumption ==
    /\ MaxBeacons \in Int /\ MaxFrame \in Nat /\ MaxAhead \in Nat /\ MaxInFlight \in Nat
    /\ MaxResent \in Nat
    /\ Allied \subseteq Houses \X Houses
    /\ NoText \notin Texts /\ Typing \notin Texts /\ NoText # Typing

Labels == Texts \cup {NoText}
Ids == 0 .. MaxFrame
Beacon == [text : Labels \cup {Typing}, visible : BOOLEAN, selected : BOOLEAN]

(* A constant has no members it could share with a beacon.                     *)
ASSUME EntryAssumption == Absent \notin Beacon /\ Null \notin Beacon /\ Absent # Null

Entry == Beacon \cup {Absent, Null}
Messages == [kind : {"place", "delete"}, id : Ids]
              \cup [kind : {"text"}, id : Ids, text : Labels]

VARIABLES
    frame,      \* the frame a machine is in
    doom,       \* the frame in which the simulation defeats a house
    beacons,    \* beacons[p][h]: the map of h's beacons on the machine of p
    evicted,    \* history: own beacons a player lost to MaxBeacons
    channel,    \* channel[p][q]: messages on their way from p to q
    placing,    \* IsBeaconPlacementMode
    editing,    \* IsEditingBeaconText
    line,       \* the edit line of Session.Messages: none, a beacon's or a chat's
    resent      \* history: how many messages came late or twice

vars == <<frame, doom, beacons, evicted, channel, placing, editing, line, resent>>
screen == <<placing, editing, line>>

-----------------------------------------------------------------------------
(* Reading the maps of a machine.                                              *)

Live(p, h) == {i \in Ids : beacons[p][h][i] \in Beacon}
Selected(p) == {b \in Houses \X Ids :
                  b[2] \in Live(p, b[1]) /\ beacons[p][b[1]][b[2]].selected}
OwnSelected(p) == {i \in Ids : <<p, i>> \in Selected(p)}

IsDefeated(p, h) == doom[h] <= frame[p]
IsVisibleToPlayer(p, h, i) ==
    /\ i \in Live(p, h)
    /\ beacons[p][h][i].visible
    /\ h = p \/ <<p, h>> \in Allied
    /\ ~IsDefeated(p, h)

(* Drawing goes over all entries in every frame and follows each pointer: a    *)
(* machine with an entry without a beacon does nothing any more.               *)
Running(p) == \A h \in Houses, i \in Ids : beacons[p][h][i] # Null

-----------------------------------------------------------------------------
(* Changing the maps of a machine, and telling the others.                     *)

NewBeacon(text) == [text |-> text, visible |-> TRUE, selected |-> FALSE]
Unselected(e) == IF e \in Beacon THEN [e EXCEPT !.selected = FALSE] ELSE e
Labelled(e, text) == IF e \in Beacon THEN [e EXCEPT !.text = text] ELSE e

\* the maps of p when beacon i of house h becomes e
With(p, h, i, e) == [beacons[p] EXCEPT ![h] = [@ EXCEPT ![i] = e]]

\* the maps of p after Set_Beacon_Text on the selected beacon
WithText(p, text) ==
    [h \in Houses |-> [i \in Ids |->
        IF <<h, i>> \in Selected(p) THEN Labelled(beacons[p][h][i], text)
                                    ELSE beacons[p][h][i]]]

NothingSelected(maps) == [h \in Houses |-> [i \in Ids |-> Unselected(maps[h][i])]]

Sent(p, sent) ==
    [channel EXCEPT ![p] = [q \in Houses |-> IF q = p THEN @[q] ELSE @[q] \o sent]]

HasRoom(p) == \A q \in Houses : Len(channel[p][q]) < MaxInFlight

PlaceMessage(i) == [kind |-> "place", id |-> i]
DeleteMessage(i) == [kind |-> "delete", id |-> i]
TextMessage(i, text) == [kind |-> "text", id |-> i, text |-> text]

LabelMessages(i, text) == IF text = NoText THEN <<>> ELSE <<TextMessage(i, text)>>

\* Mutant: the label is sent before the beacon it is for.
LabelFirst(i, text) == LabelMessages(i, text) \o <<PlaceMessage(i)>>

PlaceMessages(i, text) == <<PlaceMessage(i)>> \o LabelMessages(i, text)

\* Set_Beacon_Text(text, HOUSE_NONE, -1, true) tells of the player's own beacon only
TextMessages(p, text) ==
    IF OwnSelected(p) = {} THEN <<>>
    ELSE <<TextMessage(CHOOSE i \in OwnSelected(p) : TRUE, text)>>

\* Mutants: the label is kept, or the others are not told that it is lost.
MapsUnselectedLabelled(p) == NothingSelected(beacons[p])
SentUnselectingNothing(p) == <<>>

(* Unselect_All ends the typing of a label, which is lost.                     *)
MapsUnselected(p) == NothingSelected(IF editing[p] THEN WithText(p, NoText) ELSE beacons[p])
SentUnselecting(p) == IF editing[p] THEN TextMessages(p, NoText) ELSE <<>>
LineUnselected(p) == IF editing[p] THEN "none" ELSE line[p]

-----------------------------------------------------------------------------
Init ==
    /\ frame = [p \in Houses |-> 0]
    /\ doom \in [Houses -> 1 .. MaxFrame + 1]
    /\ beacons = [p \in Houses |-> [h \in Houses |-> [i \in Ids |-> Absent]]]
    /\ evicted = [p \in Houses |-> {}]
    /\ channel = [p \in Houses |-> [q \in Houses |-> <<>>]]
    /\ placing = [p \in Houses |-> FALSE]
    /\ editing = [p \in Houses |-> FALSE]
    /\ line = [p \in Houses |-> "none"]
    /\ resent = 0

(* A machine simulates its next frame.  A player who is defeated in it loses   *)
(* his beacons on his own machine, where the game makes him an observer.       *)
NextFrame(p) ==
    /\ Running(p)
    /\ frame[p] < MaxFrame
    /\ \A q \in Houses : frame[p] - frame[q] < MaxAhead
    /\ frame' = [frame EXCEPT ![p] = @ + 1]
    /\ beacons' = [beacons EXCEPT ![p] =
                     [h \in Houses |-> IF h = p /\ doom[h] = frame[p] + 1
                                       THEN [i \in Ids |-> Absent]
                                       ELSE @[h]]]
    /\ UNCHANGED <<resent, doom, evicted, channel, screen>>

(* The player enters or leaves the mode in which he places a beacon.           *)
ModeOn(p) ==
    /\ Running(p) /\ HasRoom(p)
    /\ ~placing[p]
    /\ placing' = [placing EXCEPT ![p] = TRUE]
    /\ beacons' = [beacons EXCEPT ![p] = MapsUnselected(p)]
    /\ channel' = Sent(p, SentUnselecting(p))
    /\ editing' = [editing EXCEPT ![p] = FALSE]
    /\ line' = [line EXCEPT ![p] = LineUnselected(p)]
    /\ UNCHANGED <<resent, frame, doom, evicted>>

ModeOff(p) ==
    /\ Running(p)
    /\ placing[p]
    /\ placing' = [placing EXCEPT ![p] = FALSE]
    /\ UNCHANGED <<resent, frame, doom, beacons, evicted, channel, editing, line>>

(* The player clicks where nothing is, or enters the sell, power or repair     *)
(* mode, which ends the placing of a beacon.                                   *)
UnselectAll(p) ==
    /\ Running(p) /\ HasRoom(p)
    /\ beacons' = [beacons EXCEPT ![p] = MapsUnselected(p)]
    /\ channel' = Sent(p, SentUnselecting(p))
    /\ placing' = [placing EXCEPT ![p] = FALSE]
    /\ editing' = [editing EXCEPT ![p] = FALSE]
    /\ line' = [line EXCEPT ![p] = LineUnselected(p)]
    /\ UNCHANGED <<resent, frame, doom, evicted>>

\* the beacon that makes room for another: begin() of the map
Oldest(ids) == CHOOSE i \in ids : \A j \in ids : i <= j
Crowded(p) ==
    IF MaxBeacons > 0 /\ Cardinality(Live(p, p)) >= MaxBeacons THEN {Oldest(Live(p, p))} ELSE {}

(* The player places a beacon, with a label if he holds a key.  At the limit   *)
(* his oldest beacon goes, without a message.  That he places one at most in   *)
(* a frame is assumed.                                                         *)
PlaceBeacon(p, text) ==
    /\ Running(p) /\ HasRoom(p)
    /\ placing[p]
    /\ ~IsDefeated(p, p)
    /\ beacons[p][p][frame[p]] = Absent
    /\ evicted' = [evicted EXCEPT ![p] = @ \cup Crowded(p)]
    /\ beacons' = [beacons EXCEPT ![p][p] =
                     [i \in Ids |-> IF i = frame[p] THEN NewBeacon(text)
                                    ELSE IF i \in Crowded(p) THEN Absent ELSE @[i]]]
    /\ channel' = Sent(p, PlaceMessages(frame[p], text))
    /\ placing' = [placing EXCEPT ![p] = FALSE]
    /\ UNCHANGED <<resent, frame, doom, editing, line>>

(* A defeated player's click only ends the mode.                               *)
PlaceNothing(p) ==
    /\ Running(p)
    /\ placing[p]
    /\ IsDefeated(p, p)
    /\ placing' = [placing EXCEPT ![p] = FALSE]
    /\ UNCHANGED <<resent, frame, doom, beacons, evicted, channel, editing, line>>

\* Mutant: other beacons stay selected.
SelectAnother(p, h, i) ==
    /\ Running(p) /\ HasRoom(p)
    /\ ~placing[p]
    /\ IsVisibleToPlayer(p, h, i)
    /\ beacons' = [beacons EXCEPT ![p][h][i].selected = TRUE]
    /\ UNCHANGED <<resent, frame, doom, evicted, channel, screen>>

(* The player clicks on a beacon he sees.                                      *)
SelectBeacon(p, h, i) ==
    /\ Running(p) /\ HasRoom(p)
    /\ ~placing[p]
    /\ IsVisibleToPlayer(p, h, i)
    /\ beacons' = [beacons EXCEPT ![p] = [MapsUnselected(p) EXCEPT ![h][i].selected = TRUE]]
    /\ channel' = Sent(p, SentUnselecting(p))
    /\ editing' = [editing EXCEPT ![p] = FALSE]
    /\ line' = [line EXCEPT ![p] = LineUnselected(p)]
    /\ UNCHANGED <<resent, frame, doom, evicted, placing>>

(* The delete command deletes the player's own beacon everywhere, and hides    *)
(* another's from him alone.                                                   *)
DeleteBeacon(p) ==
    /\ Running(p) /\ HasRoom(p)
    /\ \E b \in Selected(p) :
         IF b[1] = p
         THEN /\ beacons' = [beacons EXCEPT ![p] = With(p, p, b[2], Absent)]
              /\ channel' = Sent(p, <<DeleteMessage(b[2])>>)
         ELSE /\ beacons' = [beacons EXCEPT ![p] =
                    With(p, b[1], b[2],
                         [beacons[p][b[1]][b[2]] EXCEPT !.visible = FALSE, !.selected = FALSE])]
              /\ UNCHANGED channel
    /\ UNCHANGED <<resent, frame, doom, evicted, screen>>

\* Mutant: the underscore is sent to the others.
BeginLabelSent(p) ==
    /\ Running(p) /\ HasRoom(p)
    /\ line[p] = "none"
    /\ OwnSelected(p) # {}
    /\ line' = [line EXCEPT ![p] = "label"]
    /\ beacons' = [beacons EXCEPT ![p] = WithText(p, Typing)]
    /\ channel' = Sent(p, TextMessages(p, Typing))
    /\ editing' = [editing EXCEPT ![p] = TRUE]
    /\ UNCHANGED <<resent, frame, doom, evicted, placing>>

(* A chat key opens an edit line: for the label of his own selected beacon if  *)
(* there is one, and else for a message to the players.                        *)
BeginLabel(p) ==
    /\ Running(p)
    /\ line[p] = "none"
    /\ OwnSelected(p) # {}
    /\ line' = [line EXCEPT ![p] = "label"]
    /\ beacons' = [beacons EXCEPT ![p] = WithText(p, Typing)]
    /\ editing' = [editing EXCEPT ![p] = TRUE]
    /\ UNCHANGED <<resent, frame, doom, evicted, channel, placing>>

BeginChat(p) ==
    /\ Running(p)
    /\ line[p] = "none"
    /\ OwnSelected(p) = {}
    /\ line' = [line EXCEPT ![p] = "chat"]
    /\ UNCHANGED <<resent, frame, doom, beacons, evicted, channel, placing, editing>>

(* Escape (an empty label) and Return close the edit line.  The line is taken  *)
(* for a label while IsEditingBeaconText is set, and that is reset only if     *)
(* there is a beacon to label.                                                 *)
EndLine(p, text) ==
    /\ Running(p) /\ HasRoom(p)
    /\ line[p] # "none"
    /\ line' = [line EXCEPT ![p] = "none"]
    /\ IF editing[p] /\ OwnSelected(p) # {}
       THEN /\ beacons' = [beacons EXCEPT ![p] = NothingSelected(WithText(p, text))]
            /\ channel' = Sent(p, TextMessages(p, text))
            /\ editing' = [editing EXCEPT ![p] = FALSE]
       ELSE UNCHANGED <<beacons, channel, editing>>
    /\ UNCHANGED <<resent, frame, doom, evicted, placing>>

-----------------------------------------------------------------------------
(* The machine of p handles the next message of q, in IPX_Call_Back.  Looking  *)
(* a beacon up makes an entry for it if there is none.                         *)
Arrive(p, q, e) ==
    /\ Running(p)
    /\ channel[q][p] # <<>>
    /\ channel' = [channel EXCEPT ![q][p] = Tail(@)]
    /\ beacons' = [beacons EXCEPT ![p] = With(p, q, Head(channel[q][p]).id, e)]
    /\ UNCHANGED <<resent, frame, doom, evicted, screen>>

First(p, q) == Head(channel[q][p])
Found(p, q) == beacons[p][q][First(p, q).id]

ReceivePlace(p, q) ==
    /\ channel[q][p] # <<>> /\ First(p, q).kind = "place"
    /\ Arrive(p, q, NewBeacon(NoText))

ReceiveDelete(p, q) ==
    /\ channel[q][p] # <<>> /\ First(p, q).kind = "delete"
    /\ Arrive(p, q, IF Found(p, q) \in Beacon THEN Absent ELSE Null)

ReceiveText(p, q) ==
    /\ channel[q][p] # <<>> /\ First(p, q).kind = "text"
    /\ Arrive(p, q, IF Found(p, q) \in Beacon THEN Labelled(Found(p, q), First(p, q).text) ELSE Null)

(* A message from q to p, or its acknowledgement, is lost and sent again: the  *)
(* message comes after the others that are under way, or twice.                *)
Resend(p, q) ==
    /\ resent < MaxResent
    /\ channel[q][p] # <<>>
    /\ \E others \in {channel[q][p], Tail(channel[q][p])} :
         /\ Len(others) <= MaxInFlight
         /\ channel' = [channel EXCEPT ![q][p] = Append(others, Head(channel[q][p]))]
    /\ resent' = resent + 1
    /\ UNCHANGED <<frame, doom, beacons, evicted, screen>>

-----------------------------------------------------------------------------
Input(p) ==
    \/ ModeOn(p) \/ ModeOff(p) \/ UnselectAll(p)
    \/ PlaceNothing(p) \/ \E t \in Labels : PlaceBeacon(p, t)
    \/ \E h \in Houses, i \in Ids : SelectBeacon(p, h, i)
    \/ DeleteBeacon(p)
    \/ BeginLabel(p) \/ BeginChat(p) \/ \E t \in Labels : EndLine(p, t)

Receive(p, q) == ReceivePlace(p, q) \/ ReceiveDelete(p, q) \/ ReceiveText(p, q)

Next ==
    \E p \in Houses :
        NextFrame(p) \/ Input(p) \/ \E q \in Houses : Receive(p, q) \/ Resend(p, q)

Spec == Init /\ [][Next]_vars

-----------------------------------------------------------------------------
(* Every variable keeps its type.  In particular no message carries a label    *)
(* that is still being typed (Set_Beacon_Text with send only when it is done). *)
TypeOK ==
    /\ frame \in [Houses -> Ids]
    /\ doom \in [Houses -> 1 .. MaxFrame + 1]
    /\ beacons \in [Houses -> [Houses -> [Ids -> Entry]]]
    /\ evicted \in [Houses -> SUBSET Ids]
    /\ channel \in [Houses -> [Houses -> Seq(Messages)]]
    /\ placing \in [Houses -> BOOLEAN]
    /\ editing \in [Houses -> BOOLEAN]
    /\ line \in [Houses -> {"none", "label", "chat"}]
    /\ resent \in Nat

(* Select_Beacon, the delete command, the messages of others and the modes     *)
(* never leave two beacons selected on a machine: Find_Selected_Beacon, which  *)
(* takes the first it finds, would label or delete the wrong one.              *)
OneSelected == \A p \in Houses : \A b, c \in Selected(p) : b = c

(* A label with the underscore is seen only by the player who types it, and    *)
(* only as long as his keys go to it: however the typing ends (Return, Escape, *)
(* a click, another mode, another beacon), no beacon keeps a half-typed label. *)
TypingEnds ==
    \A p, h \in Houses : \A i \in Live(p, h) :
        beacons[p][h][i].text = Typing =>
            p = h /\ editing[p] /\ line[p] = "label" /\ beacons[p][h][i].selected

(* No machine has an entry without a beacon, which Draw would follow, as long  *)
(* as no message came late or twice: deletions and labels then never overtake  *)
(* the beacon they are about, nor come after its end, whoever deletes, hides,  *)
(* labels or evicts it, or is defeated meanwhile.                              *)
NoEmptyEntry == resent = 0 => \A p \in Houses : Running(p)

(* When a player who has not seen his own defeat has no message under way to   *)
(* another, that one has his beacons, with their labels, and no others but     *)
(* those lost to MaxBeacons, if no message came late or twice.  The label      *)
(* being typed is not shared yet.                                              *)
Shared ==
    \A h, p \in Houses :
        (resent = 0 /\ channel[h][p] = <<>> /\ ~IsDefeated(h, h)) =>
            /\ Live(p, h) \ evicted[h] = Live(h, h)
            /\ \A i \in Live(h, h) :
                 beacons[h][h][i].text \in {Typing, beacons[p][h][i].text}

(* The documentation of MaxBeacons: "maximum beacons per player.  When the cap *)
(* is reached, the oldest beacon will be deleted when a new beacon is placed." *)
LimitKept ==
    MaxBeacons > 0 => \A p, h \in Houses : Cardinality(Live(p, h)) <= MaxBeacons
=============================================================================
