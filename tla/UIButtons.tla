----------------------------- MODULE UIButtons -----------------------------
(***************************************************************************)
(* The buttons of the front panel (CUIButton, CUIButtons) and the word     *)
(* that tells the emulated machine which of its keys is down.  The main    *)
(* loop reads one pin after the other and makes a click, a double click, a *)
(* long press or a release of what it sees; the rotary encoder, whose      *)
(* switch shares the pin of Enter, and MIDI controllers come in between.   *)
(* The encoder does so from an interrupt, which comes between two reads or *)
(* within one.  Time is counted in reads: a button is read once in an      *)
(* update.                                                                 *)
(***************************************************************************)
EXTENDS Integers, Sequences

CONSTANTS
  N,              \* the number of buttons, numbered as in m_buttons
  Wiring,         \* pins, triggers and events, in the order of Initialize
  Enter,          \* the button on the pin of the encoder's switch
  Keys,           \* the events that are keys of the emulated machine
  MidiEvents,     \* the events that MIDI controllers stand for
  DEBOUNCE_TIME,
  Timeouts        \* pairs: DoubleClickTimeout and LongPressTimeout

Buttons == 1 .. N
Triggers == {"Click", "DoubleClick", "LongPress"}

\* A configured LongPressTimeout of more than 6553 ms does not fit m_timer.
ASSUME WiringAssumption ==
  /\ N \in Nat /\ Enter \in Buttons
  /\ Wiring \in Seq([pin : 0 .. N, trigger : Triggers \cup {"None"}, event : STRING])
  /\ MidiEvents \subseteq STRING
ASSUME TimeAssumption ==
  /\ DEBOUNCE_TIME \in Nat
  /\ \A t \in Timeouts : t.double \in Nat /\ t.long \in Nat \ {0} /\ t.long < 65536

VARIABLES
  dct, lpt,       \* m_doubleClickTimeout, m_longPressTimeout
  pins,           \* what is on the pins: 0 while a button is held
  button,         \* the state of each CUIButton
  turn,           \* the button that the update reads next
  switchPressed,  \* m_bSwitchPressed
  word,           \* mcu_button_pressed, the set of the keys that are down
  gesture,        \* history: what each button has been through and when
  rotated,        \* history: the encoder has been turned since Enter was seen going down
  torn,           \* history: a turn came within a read of Enter and left something behind
  told            \* what the last read came to, and after which gesture

vars == <<dct, lpt, pins, button, turn, switchPressed, word, gesture, rotated, torn, told>>

-----------------------------------------------------------------------------
(* What is wired to what.  Of two events on one pin and trigger the later  *)
(* one is bound; a trigger that is none binds nothing.                     *)
EventOf(b, trigger) ==
  LET bound == {i \in DOMAIN Wiring : Wiring[i].pin = b /\ Wiring[i].trigger = trigger}
  IN IF bound = {} \/ trigger = "None" THEN "None" ELSE Wiring[CHOOSE i \in bound : \A j \in bound : j <= i].event

HasDouble(b) == EventOf(b, "DoubleClick") # "None"
-----------------------------------------------------------------------------
(* One read of one button.                                                 *)
Reset(s) == [s EXCEPT !.timer = lpt, !.clicks = 0, !.released = FALSE]

Outcome(s, trigger) == [state |-> s, trigger |-> trigger]

\* Mutant: every press starts the timer.
GoesDownRestarts(s) ==
  [s EXCEPT !.last = 0, !.debounce = 0, !.timer = 0, !.clicks = IF @ < 2 THEN @ + 1 ELSE @]

GoesDown(s) ==
  [s EXCEPT !.last = 0, !.debounce = 0,
            !.timer = IF s.clicks = 0 THEN 0 ELSE @,
            !.clicks = IF @ < 2 THEN @ + 1 ELSE @]

\* Mutant: a click without waiting for a second one.
ComesUpAtOnce(b, s) ==
  LET up == [s EXCEPT !.last = 1, !.debounce = 0]
  IN IF s.clicks = 1
     THEN Outcome(Reset(up), "Click")
     ELSE IF s.clicks = 2
     THEN Outcome(Reset(up), "DoubleClick")
     ELSE Outcome(up, "None")

\* Mutant: the release after the first click is not noted.
ComesUpUnnoted(b, s) ==
  LET up == [s EXCEPT !.last = 1, !.debounce = 0]
  IN IF s.clicks = 1 /\ (~ HasDouble(b) \/ s.timer \in dct .. lpt - 1)
     THEN Outcome(Reset(up), "Click")
     ELSE IF s.clicks = 2
     THEN Outcome(Reset(up), "DoubleClick")
     ELSE Outcome(up, "None")

ComesUp(b, s) ==
  LET up == [s EXCEPT !.last = 1, !.debounce = 0]
  IN IF s.clicks = 1 /\ (~ HasDouble(b) \/ s.timer \in dct .. lpt - 1)
     THEN Outcome(Reset(up), "Click")
     ELSE IF s.clicks = 2
     THEN Outcome(Reset(up), "DoubleClick")
     ELSE Outcome([up EXCEPT !.released = @ \/ (s.clicks = 1 /\ s.timer < dct)], "None")

\* What is left to do when the timer has not decided.
Sampled(b, s, pin) ==
  IF s.released /\ s.timer >= dct
  THEN Outcome(Reset(s), "Release")
  ELSE IF s.debounce < DEBOUNCE_TIME
  THEN Outcome([s EXCEPT !.debounce = @ + 1], "None")
  ELSE IF pin = s.last
  THEN Outcome(s, "None")
  ELSE IF pin = 0 THEN Outcome(GoesDown(s), "None") ELSE ComesUp(b, s)

ReadTrigger(b, old, pin) ==
  LET counts == old.timer < lpt
      s == IF counts THEN [old EXCEPT !.timer = @ + 1] ELSE old
  IN IF counts /\ s.timer = dct /\ s.last = 1 /\ s.clicks = 1
     THEN Outcome(Reset(s), "Click")
     ELSE IF counts /\ s.timer = lpt /\ s.last = 0 /\ s.clicks = 1
     THEN Outcome(Reset(s), "LongPress")
     ELSE Sampled(b, IF counts /\ s.timer = lpt THEN Reset(s) ELSE s, pin)
-----------------------------------------------------------------------------
(* The encoder's interrupt within a read.  Nothing orders what the read    *)
(* and the reset do with the three fields that the reset writes: the read   *)
(* finds each as it was or as reset, and each is left as the one or the     *)
(* other writes it last.                                                   *)
Mixes(s) == {[s EXCEPT !.timer = x.timer, !.clicks = y.clicks, !.released = z.released] :
               x \in {s, Reset(s)}, y \in {s, Reset(s)}, z \in {s, Reset(s)}}

TornReads(b, old, pin) ==
  UNION {LET r == ReadTrigger(b, found, pin)
         IN {Outcome(s, r.trigger) : s \in Mixes(r.state)} : found \in Mixes(old)}

\* Nothing is left behind of a press.
Idle(s) == s.clicks = 0 /\ ~ s.released
-----------------------------------------------------------------------------
Unpressed == [timer |-> lpt, debounce |-> DEBOUNCE_TIME, last |-> 1, clicks |-> 0, released |-> FALSE]

NoGesture == [edges |-> <<>>, age |-> 0]

Quiet == [button |-> 0, trigger |-> "None", edges |-> <<>>, age |-> 0,
          rotated |-> FALSE, torn |-> FALSE]

\* A long press is never shorter than a double click.
Init ==
  /\ \E t \in Timeouts :
       dct = t.double /\ lpt = (IF t.long < t.double THEN t.double ELSE t.long)
  /\ pins = [b \in Buttons |-> 1]
  /\ button = [b \in Buttons |-> Unpressed]
  /\ turn = 1 /\ switchPressed = FALSE /\ word = {}
  /\ gesture = [b \in Buttons |-> NoGesture] /\ rotated = FALSE /\ torn = FALSE /\ told = Quiet

\* A finger.
Push(b) ==
  /\ pins' = [pins EXCEPT ![b] = 1 - @]
  /\ UNCHANGED <<dct, lpt, button, turn, switchPressed, word, gesture, rotated, torn, told>>

\* The word holds the key of the latest event, and no key after any other event.
UIButtonsEventHandler(event) == word' = {event} \cap Keys

\* The history goes on for as long as the button remembers the gesture.
Lived(g, old, new) ==
  IF g.edges # <<>>
  THEN [edges |-> IF new.last # old.last THEN Append(g.edges, g.age + 1) ELSE g.edges,
        age |-> g.age + 1]
  ELSE IF new.last < old.last THEN [edges |-> <<0>>, age |-> 0] ELSE NoGesture

\* What the update makes of an outcome.
Dispatch(b, outcome) ==
  LET event == IF outcome.trigger = "Release" THEN "Release" ELSE EventOf(b, outcome.trigger)
  IN /\ button' = [button EXCEPT ![b] = outcome.state]
     /\ IF event = "None" THEN UNCHANGED word ELSE UIButtonsEventHandler(event)
     /\ turn' = (b % N) + 1
     /\ UNCHANGED <<dct, lpt, pins, switchPressed>>

Read ==
  LET old == button[turn]
      outcome == ReadTrigger(turn, old, pins[turn])
      new == outcome.state
      g == Lived(gesture[turn], old, new)
      again == turn = Enter /\ new.last < old.last
      broken == torn /\ turn = Enter
  IN /\ Dispatch(turn, outcome)
     /\ gesture' = [gesture EXCEPT ![turn] = IF new.clicks = 0 \/ broken THEN NoGesture ELSE g]
     /\ told' = (IF outcome.trigger # "None" \/ (old.clicks > 0 /\ new.clicks = 0)
                 THEN [button |-> turn, trigger |-> outcome.trigger, edges |-> g.edges,
                       age |-> g.age, rotated |-> rotated /\ turn = Enter, torn |-> broken]
                 ELSE Quiet)
     /\ rotated' = (rotated /\ ~ again)
     /\ torn' = (torn /\ ~ (turn = Enter /\ Idle(new)))

\* A read of Enter with a turn in it: what is told is told after the turn.
TurnWithinRead ==
  /\ switchPressed /\ turn = Enter
  /\ \E outcome \in TornReads(Enter, button[Enter], pins[Enter]) :
       /\ Dispatch(Enter, outcome)
       /\ told' = (IF outcome.trigger # "None"
                   THEN [Quiet EXCEPT !.button = Enter, !.trigger = outcome.trigger,
                                      !.rotated = TRUE, !.torn = TRUE]
                   ELSE Quiet)
       /\ rotated' = (rotated \/ 0 \in {button[Enter].last, outcome.state.last})
       /\ torn' = ~ Idle(outcome.state)
  /\ gesture' = [gesture EXCEPT ![Enter] = NoGesture]

\* The encoder's driver tells of its switch, some time after the pin.
EncoderSwitch ==
  /\ switchPressed' = (pins[Enter] = 0)
  /\ UNCHANGED <<dct, lpt, pins, button, turn, word, gesture, rotated, torn, told>>

\* Mutant: only the timer is reset.
ResetButtonTimer(b) ==
  /\ button' = [button EXCEPT ![b].timer = lpt]
  /\ gesture' = [gesture EXCEPT ![b] = NoGesture]

ResetButton(b) ==
  /\ button' = [button EXCEPT ![b] = Reset(@)]
  /\ gesture' = [gesture EXCEPT ![b] = NoGesture]

\* Turning with the switch down; otherwise the turn goes to the emulated encoder.
EncoderTurn ==
  /\ switchPressed
  /\ ResetButton(Enter)
  /\ rotated' = (rotated \/ button[Enter].last = 0)
  /\ torn' = FALSE
  /\ UNCHANGED <<dct, lpt, pins, turn, switchPressed, word, told>>

\* A controller goes down or is let go, whichever the buttons do.
MidiButton ==
  /\ \E event \in MidiEvents \cup {"Release"} : UIButtonsEventHandler(event)
  /\ UNCHANGED <<dct, lpt, pins, button, turn, switchPressed, gesture, rotated, torn, told>>

Next ==
  \/ \E b \in Buttons : Push(b)
  \/ Read \/ TurnWithinRead
  \/ EncoderSwitch \/ EncoderTurn \/ MidiButton

Spec == Init /\ [][Next]_vars
-----------------------------------------------------------------------------
(* Types, and the bounds of the counters.                                  *)
TypeOK ==
  /\ dct \in Nat /\ lpt \in Nat /\ dct <= lpt
  /\ pins \in [Buttons -> 0 .. 1]
  /\ button \in [Buttons -> [timer : 0 .. lpt, debounce : 0 .. DEBOUNCE_TIME, last : 0 .. 1,
                            clicks : 0 .. 2, released : BOOLEAN]]
  /\ turn \in Buttons /\ switchPressed \in BOOLEAN /\ word \subseteq Keys
  /\ rotated \in BOOLEAN /\ torn \in BOOLEAN

(* What is told is what has happened: a click is one press and one         *)
(* release, told at once if no double click is wired and after its timeout *)
(* if one is; a double click is two presses and releases before the        *)
(* timeout; a long press has not been let go; and BtnTriggerRelease means  *)
(* that the button is held, by the second press of what might have become  *)
(* a double click, and neither of the two presses is told in any other way *)
(* (uibuttons.cpp:101-198).  Nothing is claimed of what a turn within a     *)
(* read leaves behind.                                                     *)
TriggerFitsGesture ==
  LET times == told.edges
  IN ~ told.torn =>
     CASE told.trigger = "Click" ->
            /\ Len(times) = 2 /\ told.age <= lpt
            /\ IF HasDouble(told.button) THEN told.age >= dct ELSE told.age = times[2]
       [] told.trigger = "DoubleClick" ->
            Len(times) = 4 /\ HasDouble(told.button) /\ told.age = times[4] /\ told.age < dct
       [] told.trigger = "LongPress" -> Len(times) = 1 /\ told.age = lpt
       [] told.trigger = "Release" ->
            Len(times) = 3 /\ HasDouble(told.button) /\ told.age = dct /\ dct < lpt
       [] told.trigger = "None" -> TRUE

(* No gesture is in the making for longer than a long press takes, counted *)
(* from its first press: a button cannot get stuck (uibuttons.cpp:112-132, *)
(* 146-164).                                                               *)
AnsweredInTime == \A b \in Buttons : gesture[b].edges # <<>> => gesture[b].age < lpt

(* A gesture that is over without having been told, and not because the    *)
(* encoder was turned, is a second press that is not let go before the two *)
(* timeouts, being equal, run out together (uibuttons.cpp:120-132).        *)
NothingLost ==
  told.button # 0 /\ told.trigger = "None" /\ ~ told.torn =>
    /\ told.age = lpt /\ dct = lpt
    /\ Len(told.edges) = 3 \/ (Len(told.edges) = 4 /\ told.edges[4] = lpt)

(* Once the encoder is turned with its switch down, the button of that     *)
(* switch tells nothing until it is pressed again, if the main loop had    *)
(* seen it going down by then (userinterface.cpp:335-339): unless the turn *)
(* comes within a read of the button.  Then the button may tell one thing,  *)
(* at once or of what is left behind, and nothing is left behind by that.  *)
RotationSilences ==
  [][(Read \/ TurnWithinRead) /\ told'.trigger # "None" /\ told'.rotated =>
       told'.torn /\ ~ torn']_vars
=============================================================================
