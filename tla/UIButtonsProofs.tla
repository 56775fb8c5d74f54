-------------------------- MODULE UIButtonsProofs --------------------------
(***************************************************************************)
(* For every wiring and every pair of timeouts: a button's counters stay   *)
(* in their bounds, and no gesture is in the making for longer than a long *)
(* press takes.                                                            *)
(***************************************************************************)
EXTENDS UIButtons, SequenceTheorems, TLAPS

States == [timer : 0 .. lpt, debounce : 0 .. DEBOUNCE_TIME, last : 0 .. 1,
           clicks : 0 .. 2, released : BOOLEAN]

TimesOK == dct \in Nat /\ lpt \in Nat \ {0} /\ dct <= lpt

\* The timer runs while clicks are counted; a button that is up has been
\* pressed at most once, and the time for a second press is not over.  (With no
\* click counted it may still run, after a turn of the encoder within a read.)
Steady(s) ==
  /\ s.clicks > 0 => s.timer < lpt
  /\ s.clicks = 0 => s.released = FALSE
  /\ s.clicks > 0 /\ s.last = 1 => s.clicks = 1 /\ s.timer < dct

\* What one read makes of a button.
Follows(s, new) ==
  /\ new \in States /\ Steady(new)
  /\ new.clicks > 0 /\ s.clicks > 0 => new.timer = s.timer + 1
  /\ new.clicks > 0 /\ s.clicks = 0 => new.timer = 0 /\ new.last < s.last

(* The bound of the debouncing counter is a number.                        *)
LEMMA DebounceNat == DEBOUNCE_TIME \in Nat
BY TimeAssumption

(* Reset leaves a button steady, with no click counted.                    *)
LEMMA ResetSteady ==
  ASSUME TimesOK, NEW s \in States
  PROVE  Reset(s) \in States /\ Steady(Reset(s)) /\ Reset(s).clicks = 0
<1> DEFINE a == [s EXCEPT !.timer = lpt]
           b == [a EXCEPT !.clicks = 0]
           c == [b EXCEPT !.released = FALSE]
<1>0. Reset(s) = c
  BY DEF States, Reset
<1>1. a \in States /\ a.timer = lpt
  BY DEF TimesOK, States
<1> HIDE DEF a
<1>2. b \in States /\ b.timer = lpt /\ b.clicks = 0
  BY <1>1 DEF States
<1> HIDE DEF b
<1>3. c \in States /\ c.timer = lpt /\ c.clicks = 0 /\ c.released = FALSE
  BY <1>2 DEF States
<1> HIDE DEF c
<1> QED BY <1>0, <1>3 DEF Steady

(* A press counts, and starts the timer if it is the first                 *)
(* (uibuttons.cpp:146-164).                                                *)
LEMMA GoesDownFields ==
  ASSUME TimesOK, NEW s \in States
  PROVE  /\ GoesDown(s) \in States /\ GoesDown(s).last = 0 /\ GoesDown(s).clicks > 0
         /\ GoesDown(s).clicks = (IF s.clicks < 2 THEN s.clicks + 1 ELSE s.clicks)
         /\ GoesDown(s).released = s.released
         /\ GoesDown(s).timer = (IF s.clicks = 0 THEN 0 ELSE s.timer)
<1> DEFINE a == [s EXCEPT !.last = 0]
           b == [a EXCEPT !.debounce = 0]
           c == [b EXCEPT !.timer = IF s.clicks = 0 THEN 0 ELSE @]
           d == [c EXCEPT !.clicks = IF @ < 2 THEN @ + 1 ELSE @]
<1>0. GoesDown(s) = d
  BY DEF States, GoesDown
<1>1. a \in States /\ a.last = 0 /\ a.clicks = s.clicks /\ a.timer = s.timer /\ a.released = s.released
  BY DEF States
<1> HIDE DEF a
<1>2. b \in States /\ b.last = 0 /\ b.clicks = s.clicks /\ b.timer = s.timer /\ b.released = s.released
  BY <1>1, DebounceNat DEF States
<1> HIDE DEF b
<1>3. c \in States /\ c.last = 0 /\ c.clicks = s.clicks /\ c.released = s.released
      /\ c.timer = (IF s.clicks = 0 THEN 0 ELSE s.timer)
  BY <1>2 DEF TimesOK, States
<1> HIDE DEF c
<1>4. d \in States /\ d.last = 0 /\ d.clicks > 0
      /\ d.clicks = (IF s.clicks < 2 THEN s.clicks + 1 ELSE s.clicks) /\ d.released = s.released /\ d.timer = c.timer
  BY <1>3 DEF States
<1> HIDE DEF d
<1> QED BY <1>0, <1>3, <1>4

(* ReadTrigger, from the tick of the timer to the edges of the pin         *)
(* (uibuttons.cpp:101-198), keeps a button steady and its timer in step.   *)
LEMMA ReadFollows ==
  ASSUME TimesOK, NEW b, NEW s \in States, Steady(s), NEW pin \in 0 .. 1
  PROVE  Follows(s, ReadTrigger(b, s, pin).state)
<1> DEFINE counts == s.timer < lpt
           t == IF counts THEN [s EXCEPT !.timer = @ + 1] ELSE s
           new == ReadTrigger(b, s, pin).state
<1>1. t \in States /\ t.last = s.last /\ t.clicks = s.clicks /\ t.released = s.released
      /\ t.debounce = s.debounce /\ (s.clicks > 0 => counts)
      /\ (counts => t.timer = s.timer + 1) /\ (~ counts => t = s)
  BY DEF TimesOK, States, Steady
<1>2. \A u \in States : Follows(s, Reset(u))
  BY ResetSteady DEF Follows
<1>3. CASE counts /\ t.timer = dct /\ t.last = 1 /\ t.clicks = 1
  <2>1. new = Reset(t)
    BY <1>3 DEF ReadTrigger, Outcome
  <2> QED BY <2>1, <1>1, <1>2
<1>4. CASE ~ (counts /\ t.timer = dct /\ t.last = 1 /\ t.clicks = 1)
           /\ counts /\ t.timer = lpt /\ t.last = 0 /\ t.clicks = 1
  <2>1. new = Reset(t)
    BY <1>4 DEF ReadTrigger, Outcome
  <2> QED BY <2>1, <1>1, <1>2
<1>5. CASE ~ (counts /\ t.timer = dct /\ t.last = 1 /\ t.clicks = 1)
           /\ ~ (counts /\ t.timer = lpt /\ t.last = 0 /\ t.clicks = 1)
  <2> DEFINE u == IF counts /\ t.timer = lpt THEN Reset(t) ELSE t
  <2>1. new = Sampled(b, u, pin).state
    BY <1>5 DEF ReadTrigger
  <2>2. u \in States /\ u.last = s.last /\ Steady(u)
        /\ (u.clicks > 0 => s.clicks > 0 /\ u.timer = s.timer + 1)
        /\ (u.clicks = 0 => s.clicks = 0 \/ s.last = 0)
    <3>1. CASE counts /\ t.timer = lpt
      <4>1. s.clicks = 0 \/ s.last = 0
        BY <1>1, <1>5, <3>1 DEF TimesOK, States, Steady
      <4>2. u = Reset(t)
        BY <3>1
      <4>3. Reset(t) \in States /\ Reset(t).last = t.last /\ Reset(t).clicks = 0 /\ Steady(Reset(t))
        <5>1. t \in States
          BY <1>1
        <5> HIDE DEF t
        <5>2. Reset(t) \in States /\ Reset(t).clicks = 0 /\ Steady(Reset(t))
          BY <5>1, ResetSteady
        <5>3. Reset(t).last = t.last
          BY <5>1 DEF Reset, States
        <5> QED BY <5>2, <5>3
      <4> HIDE DEF u, t
      <4> QED BY <1>1, <4>1, <4>2, <4>3
    <3>2. CASE ~ (counts /\ t.timer = lpt)
      <4>1. u = t
        BY <3>2
      <4>2. Steady(t)
        BY <1>1, <1>5, <3>2 DEF TimesOK, States, Steady
      <4>3. /\ t.clicks > 0 => s.clicks > 0 /\ t.timer = s.timer + 1
            /\ t.clicks = 0 => s.clicks = 0
        BY <1>1 DEF States
      <4> HIDE DEF u, t
      <4> QED BY <1>1, <4>1, <4>2, <4>3
    <3> QED BY <3>1, <3>2
  <2> HIDE DEF u
  <2>3. CASE u.released /\ u.timer >= dct
    <3>1. new = Reset(u)
      BY <2>1, <2>3 DEF Sampled, Outcome
    <3> QED BY <3>1, <1>2, <2>2
  <2>4. CASE ~ (u.released /\ u.timer >= dct) /\ u.debounce < DEBOUNCE_TIME
    <3>1. new = [u EXCEPT !.debounce = @ + 1]
      BY <2>1, <2>4 DEF Sampled, Outcome
    <3>2. new \in States /\ new.timer = u.timer /\ new.clicks = u.clicks /\ new.last = u.last
          /\ new.released = u.released
      <4>1. u \in States /\ u.debounce + 1 \in 0 .. DEBOUNCE_TIME
        BY <2>2, <2>4, DebounceNat DEF States
      <4> QED BY <3>1, <4>1 DEF States
    <3> QED BY <3>2, <2>2 DEF Follows, States, Steady
  <2>5. CASE ~ (u.released /\ u.timer >= dct) /\ ~ (u.debounce < DEBOUNCE_TIME) /\ pin = u.last
    <3>1. new = u
      BY <2>1, <2>5 DEF Sampled, Outcome
    <3> QED BY <3>1, <2>2 DEF Follows, States, Steady
  <2>6. CASE ~ (u.released /\ u.timer >= dct) /\ ~ (u.debounce < DEBOUNCE_TIME) /\ pin # u.last /\ pin = 0
    <3>1. new = GoesDown(u)
      BY <2>1, <2>6 DEF Sampled, Outcome
    <3>2. new \in States /\ new.last = 0 /\ new.clicks > 0
          /\ new.timer = (IF u.clicks = 0 THEN 0 ELSE u.timer)
      BY <3>1, <2>2, GoesDownFields
    <3>4. new.timer < lpt
      BY <3>2, <2>2 DEF TimesOK, States, Steady
    <3>3. s.clicks > 0 => u.clicks > 0
      BY <2>2, <2>6 DEF States
    <3> QED BY <3>2, <3>3, <3>4, <2>2, <2>6 DEF Follows, States, Steady
  <2>7. CASE ~ (u.released /\ u.timer >= dct) /\ ~ (u.debounce < DEBOUNCE_TIME) /\ pin # u.last /\ pin # 0
    <3> DEFINE a == [u EXCEPT !.last = 1]
               up == [a EXCEPT !.debounce = 0]
               quiet == [up EXCEPT !.released = @ \/ (u.clicks = 1 /\ u.timer < dct)]
    <3>1. up \in States /\ up.last = 1 /\ up.clicks = u.clicks /\ up.timer = u.timer
          /\ up.released = u.released
      <4>1. a \in States /\ a.last = 1 /\ a.clicks = u.clicks /\ a.timer = u.timer
            /\ a.released = u.released
        BY <2>2 DEF States
      <4> HIDE DEF a
      <4> QED BY <4>1, DebounceNat DEF States
    <3>2. CASE new = Reset(up)
      BY <3>1, <3>2, <1>2
    <3>3. CASE new = quiet /\ u.clicks # 2 /\ ~ (u.clicks = 1 /\ u.timer \in dct .. lpt - 1)
      <4>1. quiet \in States /\ quiet.timer = u.timer /\ quiet.clicks = u.clicks /\ quiet.last = 1
            /\ (u.clicks = 0 => quiet.released = FALSE)
        <5> DEFINE noted == up.released \/ (u.clicks = 1 /\ u.timer < dct)
        <5>1. noted \in BOOLEAN /\ (u.clicks = 0 => noted = FALSE)
          BY <2>2, <3>1 DEF States, Steady
        <5>2. quiet = [up EXCEPT !.released = noted]
          OBVIOUS
        <5> HIDE DEF noted, up, quiet
        <5> QED BY <5>1, <5>2, <3>1 DEF States
      <4>2. Steady(quiet)
        BY <4>1, <3>3, <2>2 DEF TimesOK, States, Steady
      <4> QED BY <4>1, <4>2, <3>3, <2>2 DEF Follows, States
    <3>4. new = Reset(up) \/ (new = quiet /\ u.clicks # 2 /\ ~ (u.clicks = 1 /\ u.timer \in dct .. lpt - 1))
      <4>1. up = [u EXCEPT !.last = 1, !.debounce = 0]
        BY <2>2 DEF States
      <4>2. new = ComesUp(b, u).state
        BY <2>1, <2>7 DEF Sampled
      <4> HIDE DEF up
      <4> QED BY <4>1, <4>2 DEF ComesUp, Outcome
    <3> QED BY <3>2, <3>3, <3>4
  <2> QED BY <2>3, <2>4, <2>5, <2>6, <2>7
<1> QED BY <1>3, <1>4, <1>5

(* The fields of the state in which ComesUp leaves the button.             *)
LEMMA UpFields ==
  ASSUME NEW s \in States
  PROVE  LET up == [s EXCEPT !.last = 1, !.debounce = 0]
         IN /\ up \in States /\ up.last = 1 /\ up.clicks = s.clicks /\ up.timer = s.timer
            /\ up.released = s.released
<1> DEFINE a == [s EXCEPT !.last = 1]
<1>1. a \in States /\ a.last = 1 /\ a.clicks = s.clicks /\ a.timer = s.timer
      /\ a.released = s.released
  BY DEF States
<1>2. [s EXCEPT !.last = 1, !.debounce = 0] = [a EXCEPT !.debounce = 0]
  BY DEF States
<1> HIDE DEF a
<1> QED BY <1>1, <1>2, DebounceNat DEF States

(* What Reset leaves of a state.                                           *)
LEMMA ResetFields ==
  ASSUME TimesOK, NEW s \in States
  PROVE  Reset(s).clicks = 0 /\ Reset(s).last = s.last /\ Reset(s).released = FALSE
<1>1. Reset(s) = [s EXCEPT !.timer = lpt, !.clicks = 0, !.released = FALSE]
  BY DEF Reset
<1>2. Reset(s) = [timer |-> lpt, debounce |-> s.debounce, last |-> s.last, clicks |-> 0,
                  released |-> FALSE]
  BY <1>1 DEF States
<1> QED BY <1>2

(* With no click counted, the sampling of the pin tells nothing, and begins  *)
(* a gesture only by the press that is its first edge.                     *)
LEMMA SampledIdle ==
  ASSUME TimesOK, NEW b, NEW s \in States, s.clicks = 0, s.released = FALSE, NEW pin \in 0 .. 1,
         NEW out, out = Sampled(b, s, pin)
  PROVE  /\ out.trigger = "None"
         /\ out.state.clicks > 0 =>
              out.state.clicks = 1 /\ out.state.last = 0 /\ out.state.released = FALSE
<1> DEFINE new == out.state
<1>3. CASE s.debounce < DEBOUNCE_TIME
  <2>1. new = [s EXCEPT !.debounce = @ + 1] /\ out.trigger = "None"
    BY <1>3 DEF Sampled, Outcome
  <2> QED BY <2>1 DEF States
<1>4. CASE ~ (s.debounce < DEBOUNCE_TIME) /\ pin = s.last
  BY <1>4 DEF Sampled, Outcome
<1>5. CASE ~ (s.debounce < DEBOUNCE_TIME) /\ pin # s.last /\ pin = 0
  <2>1. new = GoesDown(s) /\ out.trigger = "None"
    BY <1>5 DEF Sampled, Outcome
  <2> QED BY <2>1, GoesDownFields
<1>6. CASE ~ (s.debounce < DEBOUNCE_TIME) /\ pin # s.last /\ pin # 0
  <2> DEFINE up == [s EXCEPT !.last = 1, !.debounce = 0]
             noted == up.released \/ (s.clicks = 1 /\ s.timer < dct)
  <2>1. out = ComesUp(b, s)
    BY <1>6 DEF Sampled
  <2>2. up \in States /\ up.clicks = 0
    BY UpFields
  <2>3. new = [up EXCEPT !.released = noted] /\ out.trigger = "None"
    BY <2>1 DEF ComesUp, Outcome
  <2> HIDE DEF up, noted
  <2> QED BY <2>2, <2>3 DEF States
<1> QED BY <1>3, <1>4, <1>5, <1>6

(* The same of the whole read, whether the timer runs or not.              *)
LEMMA IdleRead ==
  ASSUME TimesOK, NEW b, NEW s \in States, Steady(s), s.clicks = 0, NEW pin \in 0 .. 1,
         NEW out, out = ReadTrigger(b, s, pin)
  PROVE  /\ out.trigger = "None"
         /\ out.state.clicks > 0 =>
              out.state.clicks = 1 /\ out.state.last = 0 /\ out.state.released = FALSE
<1> DEFINE counts == s.timer < lpt
           t == IF counts THEN [s EXCEPT !.timer = @ + 1] ELSE s
           u == IF counts /\ t.timer = lpt THEN Reset(t) ELSE t
<1>1. t \in States /\ t.clicks = 0 /\ t.released = FALSE
  BY DEF TimesOK, States, Steady
<1>2. out = Sampled(b, u, pin)
  BY <1>1 DEF ReadTrigger
<1>3. u \in States /\ u.clicks = 0 /\ u.released = FALSE
  <2> HIDE DEF t
  <2>1. Reset(t) \in States /\ Reset(t).clicks = 0 /\ Reset(t).released = FALSE
    BY <1>1, ResetSteady, ResetFields
  <2> QED BY <1>1, <2>1
<1> HIDE DEF u
<1> QED BY <1>2, <1>3, SampledIdle
-----------------------------------------------------------------------------
(* What a button tells.  Its state says which part of a gesture it is in,  *)
(* so that the number of edges that led there is known.                    *)

\* After n edges: held for the first time, let go in time for a second press,
\* held by the second press.
Shape(b, s, n) ==
  \/ s.clicks = 1 /\ s.last = 0 /\ n = 1 /\ s.released = FALSE
  \/ /\ s.clicks = 1 /\ s.last = 1 /\ n = 2
     /\ s.released = TRUE /\ HasDouble(b) /\ s.timer < dct
  \/ /\ s.clicks = 2 /\ s.last = 0 /\ n = 3
     /\ s.released = TRUE /\ HasDouble(b) /\ s.timer < dct

\* What a read may tell, at the given age and after n edges, one of which the
\* read itself has seen (edge = 1) or not (0).
Tells(b, trigger, clicks, age, n, edge) ==
  /\ trigger \in {"Click", "DoubleClick", "LongPress", "Release", "None"}
  /\ trigger = "Click" =>
       n = 2 /\ age <= lpt /\ (IF HasDouble(b) THEN age >= dct ELSE edge = 1)
  /\ trigger = "DoubleClick" => n = 4 /\ edge = 1 /\ HasDouble(b) /\ age < dct
  /\ trigger = "LongPress" => n = 1 /\ age = lpt
  /\ trigger = "Release" => n = 3 /\ HasDouble(b) /\ age = dct /\ dct < lpt
  /\ trigger = "None" /\ clicks = 0 => age = lpt /\ dct = lpt /\ (n = 3 \/ (n = 4 /\ edge = 1))

(* Sampled, of a state in which the timer has not decided: what it tells   *)
(* fits the gesture, and the gesture goes on if it is not over.            *)
LEMMA SampledTells ==
  ASSUME TimesOK, NEW b, NEW s \in States, NEW n \in Nat, NEW pin \in 0 .. 1,
         s.clicks > 0, s.timer < lpt,
         \/ s.clicks = 1 /\ s.last = 0 /\ n = 1 /\ s.released = FALSE
         \/ /\ s.clicks = 1 /\ s.last = 1 /\ n = 2 /\ s.released = TRUE /\ HasDouble(b)
            /\ s.timer < dct
         \/ /\ s.clicks = 2 /\ s.last = 0 /\ n = 3 /\ s.released = TRUE /\ HasDouble(b)
            /\ s.timer <= dct,
         NEW out, out = Sampled(b, s, pin),
         NEW edge, edge = (IF out.state.last # s.last THEN 1 ELSE 0),
         NEW k, k = n + edge
  PROVE  /\ out.state.clicks > 0 => Shape(b, out.state, k)
         /\ Tells(b, out.trigger, out.state.clicks, s.timer, k, edge)
<1>1. CASE s.released /\ s.timer >= dct
  <2>1. out.state = Reset(s) /\ out.trigger = "Release"
    BY <1>1 DEF Sampled, Outcome
  <2>2. s.clicks = 2 /\ n = 3 /\ HasDouble(b) /\ s.timer = dct /\ dct < lpt
    BY <1>1 DEF TimesOK, States
  <2>3. k = n /\ out.state.clicks = 0
    <3>1. out.state.last = s.last /\ out.state.clicks = 0
      BY <2>1, ResetFields
    <3>2. edge = 0
      BY <3>1
    <3> QED BY <3>1, <3>2
  <2> QED BY <2>1, <2>2, <2>3 DEF Tells
<1>2. CASE ~ (s.released /\ s.timer >= dct)
  <2>0. Shape(b, s, n)
    BY <1>2 DEF Shape, TimesOK, States
  <2>1. CASE s.debounce < DEBOUNCE_TIME
    <3>1. out.state = [s EXCEPT !.debounce = @ + 1] /\ out.trigger = "None"
      BY <1>2, <2>1 DEF Sampled, Outcome
    <3>2. /\ out.state.last = s.last /\ out.state.clicks = s.clicks
          /\ out.state.timer = s.timer /\ out.state.released = s.released
      BY <3>1 DEF States
    <3> QED BY <2>0, <3>1, <3>2 DEF Shape, Tells
  <2>2. CASE ~ (s.debounce < DEBOUNCE_TIME) /\ pin = s.last
    <3>1. out.state = s /\ out.trigger = "None"
      BY <1>2, <2>2 DEF Sampled, Outcome
    <3> QED BY <2>0, <3>1 DEF Tells
  <2>3. CASE ~ (s.debounce < DEBOUNCE_TIME) /\ pin # s.last /\ pin = 0
    <3>1. out.state = GoesDown(s) /\ out.trigger = "None"
      BY <1>2, <2>3 DEF Sampled, Outcome
    <3>2. s.last = 1 /\ s.clicks = 1 /\ n = 2 /\ s.released = TRUE /\ HasDouble(b) /\ s.timer < dct
      BY <2>0, <2>3 DEF Shape
    <3>3. /\ GoesDown(s).last = 0 /\ GoesDown(s).released = TRUE /\ GoesDown(s).timer = s.timer
      BY <3>2, GoesDownFields
    <3>4. GoesDown(s).clicks = 2
      BY <3>2, GoesDownFields
    <3>5. edge = 1 /\ k = 3
      BY <3>1, <3>2, <3>3
    <3> QED BY <3>1, <3>2, <3>3, <3>4, <3>5 DEF Shape, Tells
  <2>4. CASE ~ (s.debounce < DEBOUNCE_TIME) /\ pin # s.last /\ pin # 0
    <3> DEFINE up == [s EXCEPT !.last = 1, !.debounce = 0]
    <3>1. out = ComesUp(b, s)
      BY <1>2, <2>4 DEF Sampled
    <3>2. up \in States /\ up.last = 1 /\ up.clicks = s.clicks /\ up.timer = s.timer
          /\ up.released = s.released
      BY UpFields
    <3>3. s.last = 0
      BY <2>4 DEF States
    <3>4. CASE s.clicks = 1 /\ (~ HasDouble(b) \/ s.timer \in dct .. lpt - 1)
      <4>1. out.state = Reset(up) /\ out.trigger = "Click"
        BY <3>1, <3>4 DEF ComesUp, Outcome
      <4> HIDE DEF up
      <4>2. out.state.clicks = 0 /\ out.state.last = 1
        BY <4>1, <3>2, ResetFields
      <4>3. edge = 1 /\ k = 2
        BY <4>2, <3>3, <3>4, <2>0 DEF Shape
      <4> QED BY <4>1, <4>2, <4>3, <3>4 DEF Tells, TimesOK, States
    <3>5. CASE s.clicks = 2
      <4>1. out.state = Reset(up) /\ out.trigger = "DoubleClick"
        BY <3>1, <3>5 DEF ComesUp, Outcome
      <4> HIDE DEF up
      <4>2. out.state.clicks = 0 /\ out.state.last = 1
        BY <4>1, <3>2, ResetFields
      <4>3. edge = 1 /\ k = 4 /\ HasDouble(b) /\ s.timer < dct
        BY <4>2, <3>3, <3>5, <2>0 DEF Shape
      <4> QED BY <4>1, <4>2, <4>3 DEF Tells
    <3>6. CASE s.clicks = 1 /\ HasDouble(b) /\ ~ (s.timer \in dct .. lpt - 1)
      <4>1. s.timer < dct
        BY <3>6 DEF TimesOK, States
      <4> DEFINE noted == up.released \/ (s.clicks = 1 /\ s.timer < dct)
      <4>2. out.state = [up EXCEPT !.released = noted] /\ out.trigger = "None"
        BY <3>1, <3>6 DEF ComesUp, Outcome
      <4>3. noted = TRUE
        BY <3>6, <4>1, <3>2 DEF States
      <4> HIDE DEF up, noted
      <4>4. /\ out.state.last = 1 /\ out.state.clicks = 1 /\ out.state.timer = s.timer
            /\ out.state.released = TRUE
        BY <4>2, <4>3, <3>2, <3>6 DEF States
      <4>5. edge = 1 /\ k = 2
        BY <4>4, <3>3, <3>6, <2>0 DEF Shape
      <4> QED BY <4>1, <4>2, <4>4, <4>5, <3>6 DEF Shape, Tells
    <3> QED BY <3>4, <3>5, <3>6, <2>0 DEF Shape
  <2> QED BY <2>1, <2>2, <2>3, <2>4
<1> QED BY <1>1, <1>2

(* The whole of a read of a button that is within a gesture.               *)
LEMMA ReadTells ==
  ASSUME TimesOK, NEW b, NEW s \in States, Steady(s), s.clicks > 0,
         NEW n \in Nat, Shape(b, s, n), NEW pin \in 0 .. 1,
         NEW out, out = ReadTrigger(b, s, pin),
         NEW edge, edge = (IF out.state.last # s.last THEN 1 ELSE 0),
         NEW k, k = n + edge
  PROVE  /\ out.state.clicks > 0 => Shape(b, out.state, k)
         /\ Tells(b, out.trigger, out.state.clicks, s.timer + 1, k, edge)
<1> DEFINE t == [s EXCEPT !.timer = @ + 1]
<1>1. s.timer < lpt
  BY DEF TimesOK, States, Steady
<1>2. t \in States /\ t.last = s.last /\ t.clicks = s.clicks /\ t.released = s.released
      /\ t.debounce = s.debounce /\ t.timer = s.timer + 1
  BY <1>1 DEF TimesOK, States
<1>3. out = IF t.timer = dct /\ t.last = 1 /\ t.clicks = 1
            THEN Outcome(Reset(t), "Click")
            ELSE IF t.timer = lpt /\ t.last = 0 /\ t.clicks = 1
            THEN Outcome(Reset(t), "LongPress")
            ELSE Sampled(b, IF t.timer = lpt THEN Reset(t) ELSE t, pin)
  BY <1>1 DEF ReadTrigger
<1> HIDE DEF t
<1>4. CASE t.timer = dct /\ t.last = 1 /\ t.clicks = 1
  <2>1. out.state = Reset(t) /\ out.trigger = "Click"
    BY <1>3, <1>4 DEF Outcome
  <2>2. out.state.clicks = 0 /\ out.state.last = s.last
    BY <2>1, <1>2, ResetFields
  <2>3. k = 2 /\ HasDouble(b)
    BY <2>2, <1>2, <1>4 DEF Shape
  <2> QED BY <2>1, <2>2, <2>3, <1>2, <1>4 DEF Tells, TimesOK
<1>5. CASE t.timer = lpt /\ t.last = 0 /\ t.clicks = 1
  <2>1. out.state = Reset(t) /\ out.trigger = "LongPress"
    BY <1>3, <1>5 DEF Outcome
  <2>2. out.state.clicks = 0 /\ out.state.last = s.last
    BY <2>1, <1>2, ResetFields
  <2>3. k = 1
    BY <2>2, <1>2, <1>5 DEF Shape
  <2> QED BY <2>1, <2>2, <2>3, <1>2, <1>5 DEF Tells
<1>6. CASE /\ ~ (t.timer = dct /\ t.last = 1 /\ t.clicks = 1)
           /\ ~ (t.timer = lpt /\ t.last = 0 /\ t.clicks = 1)
           /\ t.timer = lpt
  <2> DEFINE u == Reset(t)
  <2>1. s.clicks = 2 /\ s.last = 0 /\ n = 3 /\ dct = lpt
    BY <1>2, <1>6 DEF Shape, TimesOK, States
  <2>2. u \in States /\ u.clicks = 0 /\ u.last = 0 /\ u.released = FALSE
    BY <1>2, <2>1, ResetSteady, ResetFields
  <2>3. out = Sampled(b, u, pin)
    BY <1>3, <1>6
  <2> HIDE DEF u
  <2>4. out.trigger = "None" /\ out.state.clicks = 0
    <3>1. CASE u.debounce < DEBOUNCE_TIME
      <4>1. out.trigger = "None" /\ out.state = [u EXCEPT !.debounce = @ + 1]
        BY <3>1, <2>2, <2>3 DEF Sampled, Outcome
      <4> QED BY <4>1, <2>2 DEF States
    <3>2. CASE ~ (u.debounce < DEBOUNCE_TIME) /\ pin = u.last
      BY <3>2, <2>2, <2>3 DEF Sampled, Outcome
    <3>3. CASE ~ (u.debounce < DEBOUNCE_TIME) /\ pin # u.last
      <4> DEFINE up == [u EXCEPT !.last = 1, !.debounce = 0]
                 noted == up.released \/ (u.clicks = 1 /\ u.timer < dct)
      <4>1. out = ComesUp(b, u)
        BY <3>3, <2>2, <2>3 DEF Sampled
      <4>2. up \in States /\ up.clicks = 0
        BY <2>2, UpFields
      <4>3. out.trigger = "None" /\ out.state = [up EXCEPT !.released = noted]
        BY <4>1, <2>2 DEF ComesUp, Outcome
      <4> HIDE DEF up, noted
      <4> QED BY <4>2, <4>3 DEF States
    <3> QED BY <3>1, <3>2, <3>3
  <2>5. k = 3 \/ (k = 4 /\ edge = 1)
    BY <2>1
  <2> QED BY <2>1, <2>4, <2>5, <1>2, <1>6 DEF Tells
<1>7. CASE /\ ~ (t.timer = dct /\ t.last = 1 /\ t.clicks = 1)
           /\ ~ (t.timer = lpt /\ t.last = 0 /\ t.clicks = 1)
           /\ t.timer # lpt
  <2>1. out = Sampled(b, t, pin)
    BY <1>3, <1>7
  <2>2. t.clicks > 0 /\ t.timer < lpt
    BY <1>2, <1>7 DEF States, TimesOK
  <2>3. \/ t.clicks = 1 /\ t.last = 0 /\ n = 1 /\ t.released = FALSE
        \/ /\ t.clicks = 1 /\ t.last = 1 /\ n = 2 /\ t.released = TRUE /\ HasDouble(b)
           /\ t.timer < dct
        \/ /\ t.clicks = 2 /\ t.last = 0 /\ n = 3 /\ t.released = TRUE /\ HasDouble(b)
           /\ t.timer <= dct
    BY <1>2, <1>7 DEF Shape, TimesOK, States
  <2>4. edge = (IF out.state.last # t.last THEN 1 ELSE 0)
    BY <1>2
  <2>5. /\ out.state.clicks > 0 => Shape(b, out.state, k)
        /\ Tells(b, out.trigger, out.state.clicks, t.timer, k, edge)
    BY <2>1, <2>2, <2>3, <2>4, <1>2, SampledTells
  <2> QED BY <2>5, <1>2
<1> QED BY <1>4, <1>5, <1>6, <1>7
-----------------------------------------------------------------------------
(* A turn within a read can leave any mixture of the button's fields.  They *)
(* are in their bounds, and a later read keeps them there.                 *)
LEMMA MixesTyped ==
  ASSUME TimesOK, NEW s \in States, NEW m \in Mixes(s)
  PROVE  m \in States /\ m.last = s.last
<1>1. PICK x \in {s, Reset(s)}, y \in {s, Reset(s)}, z \in {s, Reset(s)} :
        m = [s EXCEPT !.timer = x.timer, !.clicks = y.clicks, !.released = z.released]
  BY DEF Mixes
<1>2. Reset(s) \in States
  BY ResetSteady
<1>3. x \in States /\ y \in States /\ z \in States
  BY <1>2
<1>4. m = [timer |-> x.timer, debounce |-> s.debounce, last |-> s.last, clicks |-> y.clicks,
           released |-> z.released]
  BY <1>1 DEF States
<1> QED BY <1>3, <1>4 DEF States

LEMMA SampledTyped ==
  ASSUME TimesOK, NEW b, NEW s \in States, NEW pin \in 0 .. 1
  PROVE  Sampled(b, s, pin).state \in States
<1> DEFINE new == Sampled(b, s, pin).state
<1>1. CASE s.released /\ s.timer >= dct
  <2>1. new = Reset(s)
    BY <1>1 DEF Sampled, Outcome
  <2> QED BY <2>1, ResetSteady
<1>2. CASE ~ (s.released /\ s.timer >= dct) /\ s.debounce < DEBOUNCE_TIME
  <2>1. new = [s EXCEPT !.debounce = @ + 1]
    BY <1>2 DEF Sampled, Outcome
  <2>2. s.debounce + 1 \in 0 .. DEBOUNCE_TIME
    BY <1>2, DebounceNat DEF States
  <2> QED BY <2>1, <2>2 DEF States
<1>3. CASE ~ (s.released /\ s.timer >= dct) /\ ~ (s.debounce < DEBOUNCE_TIME) /\ pin = s.last
  BY <1>3 DEF Sampled, Outcome
<1>4. CASE ~ (s.released /\ s.timer >= dct) /\ ~ (s.debounce < DEBOUNCE_TIME) /\ pin # s.last /\ pin = 0
  <2>1. new = GoesDown(s)
    BY <1>4 DEF Sampled, Outcome
  <2> QED BY <2>1, GoesDownFields
<1>5. CASE ~ (s.released /\ s.timer >= dct) /\ ~ (s.debounce < DEBOUNCE_TIME) /\ pin # s.last /\ pin # 0
  <2> DEFINE up == [s EXCEPT !.last = 1, !.debounce = 0]
             noted == up.released \/ (s.clicks = 1 /\ s.timer < dct)
  <2>1. new = ComesUp(b, s).state
    BY <1>5 DEF Sampled
  <2>2. new = Reset(up) \/ new = [up EXCEPT !.released = noted]
    BY <2>1 DEF ComesUp, Outcome
  <2>3. up \in States
    BY UpFields
  <2>4. noted \in BOOLEAN
    BY <2>3 DEF States
  <2> HIDE DEF up, noted
  <2>5. [up EXCEPT !.released = noted] \in States
    BY <2>3, <2>4 DEF States
  <2> QED BY <2>2, <2>3, <2>5, ResetSteady
<1> QED BY <1>1, <1>2, <1>3, <1>4, <1>5

LEMMA ReadTyped ==
  ASSUME TimesOK, NEW b, NEW s \in States, NEW pin \in 0 .. 1
  PROVE  ReadTrigger(b, s, pin).state \in States
<1> DEFINE counts == s.timer < lpt
           t == IF counts THEN [s EXCEPT !.timer = @ + 1] ELSE s
           u == IF counts /\ t.timer = lpt THEN Reset(t) ELSE t
           new == ReadTrigger(b, s, pin).state
<1>1. t \in States
  BY DEF TimesOK, States
<1>2. new = Reset(t) \/ new = Sampled(b, u, pin).state
  BY DEF ReadTrigger, Outcome
<1> HIDE DEF t, new
<1>3. Reset(t) \in States /\ u \in States
  BY <1>1, ResetSteady
<1> HIDE DEF u
<1>4. Sampled(b, u, pin).state \in States
  BY <1>3, SampledTyped
<1>5. new \in States
  BY <1>2, <1>3, <1>4
<1> QED BY <1>5 DEF new

LEMMA TornReadsTyped ==
  ASSUME TimesOK, NEW b, NEW s \in States, NEW pin \in 0 .. 1, NEW out \in TornReads(b, s, pin)
  PROVE  out.state \in States
<1>1. PICK found \in Mixes(s) :
        \E m \in Mixes(ReadTrigger(b, found, pin).state) :
          out = Outcome(m, ReadTrigger(b, found, pin).trigger)
  BY DEF TornReads
<1>2. PICK m \in Mixes(ReadTrigger(b, found, pin).state) :
        out = Outcome(m, ReadTrigger(b, found, pin).trigger)
  BY <1>1
<1>3. found \in States
  BY MixesTyped
<1>4. ReadTrigger(b, found, pin).state \in States
  BY <1>3, ReadTyped
<1>5. m \in States
  BY <1>4, MixesTyped
<1> QED BY <1>2, <1>5 DEF Outcome

(* Whatever a read tells, it leaves the button idle.                       *)
LEMMA ToldIsIdle ==
  ASSUME TimesOK, NEW b, NEW s \in States, NEW pin \in 0 .. 1,
         NEW out, out = ReadTrigger(b, s, pin), out.trigger # "None"
  PROVE  Idle(out.state)
<1> DEFINE t == IF s.timer < lpt THEN [s EXCEPT !.timer = @ + 1] ELSE s
           u == IF s.timer < lpt /\ t.timer = lpt THEN Reset(t) ELSE t
           up == [u EXCEPT !.last = 1, !.debounce = 0]
<1>1. t \in States
  BY DEF TimesOK, States
<1>2. out.state = Reset(t) \/ out = Sampled(b, u, pin)
  BY DEF ReadTrigger, Outcome
<1> HIDE DEF t
<1>3. u \in States
  BY <1>1, ResetSteady
<1> HIDE DEF u
<1>4. up \in States
  BY <1>3, UpFields
<1>5. out = Sampled(b, u, pin) => out.state = Reset(u) \/ out.state = Reset(up)
  <2> SUFFICES ASSUME out = Sampled(b, u, pin) PROVE out.state = Reset(u) \/ out.state = Reset(up)
    OBVIOUS
  <2>1. out.state = Reset(u) \/ out = ComesUp(b, u)
    BY DEF Sampled, Outcome
  <2>2. out = ComesUp(b, u) => out.state = Reset(up)
    BY DEF ComesUp, Outcome
  <2> QED BY <2>1, <2>2
<1> HIDE DEF up
<1>6. \A v \in States : Idle(Reset(v))
  BY ResetFields DEF Idle
<1> QED BY <1>1, <1>2, <1>3, <1>4, <1>5, <1>6

LEMMA MixesIdle ==
  ASSUME TimesOK, NEW s \in States, Idle(s), NEW m \in Mixes(s)
  PROVE  Idle(m)
<1>1. PICK x \in {s, Reset(s)}, y \in {s, Reset(s)}, z \in {s, Reset(s)} :
        m = [s EXCEPT !.timer = x.timer, !.clicks = y.clicks, !.released = z.released]
  BY DEF Mixes
<1>2. m.clicks = y.clicks /\ m.released = z.released
  BY <1>1 DEF States
<1>3. Reset(s).clicks = 0 /\ Reset(s).released = FALSE
  BY ResetFields
<1>4. y.clicks = 0 /\ ~ z.released
  BY <1>3 DEF Idle
<1> QED BY <1>2, <1>4 DEF Idle

LEMMA TornToldIsIdle ==
  ASSUME TimesOK, NEW b, NEW s \in States, NEW pin \in 0 .. 1,
         NEW out \in TornReads(b, s, pin), out.trigger # "None"
  PROVE  Idle(out.state)
<1>1. PICK found \in Mixes(s) :
        \E m \in Mixes(ReadTrigger(b, found, pin).state) :
          out = Outcome(m, ReadTrigger(b, found, pin).trigger)
  BY DEF TornReads
<1>2. PICK m \in Mixes(ReadTrigger(b, found, pin).state) :
        out = Outcome(m, ReadTrigger(b, found, pin).trigger)
  BY <1>1
<1>3. found \in States
  BY MixesTyped
<1>4. ReadTrigger(b, found, pin).state \in States
  BY <1>3, ReadTyped
<1>5. Idle(ReadTrigger(b, found, pin).state)
  BY <1>2, <1>3, ToldIsIdle DEF Outcome
<1>6. Idle(m)
  BY <1>4, <1>5, MixesIdle
<1> QED BY <1>2, <1>6 DEF Outcome
-----------------------------------------------------------------------------
(* The inductive invariant.  The history of a gesture is as old as the     *)
(* timer says, has the edges that the button's state stands for, and ends  *)
(* when the button forgets its clicks; a button whose encoder has been     *)
(* turned has none.  Of what a turn within a read has left in the button   *)
(* there is no history.                                                    *)
Whole(b) == torn = FALSE \/ b # Enter

InStep(b) ==
  /\ Steady(button[b])
  /\ button[b].clicks > 0 <=> gesture[b].edges # <<>>
  /\ button[b].clicks > 0 => gesture[b].age = button[b].timer
  /\ button[b].clicks = 0 => gesture[b] = NoGesture
  /\ button[b].clicks > 0 => Shape(b, button[b], Len(gesture[b].edges))

Gestures == [edges : Seq(Nat), age : Nat]

IInv ==
  /\ TimesOK
  /\ pins \in [Buttons -> 0 .. 1] /\ button \in [Buttons -> States]
  /\ turn \in Buttons /\ switchPressed \in BOOLEAN /\ word \subseteq Keys /\ rotated \in BOOLEAN
  /\ torn \in BOOLEAN
  /\ gesture \in [Buttons -> Gestures]
  /\ \A b \in Buttons : Whole(b) => InStep(b)
  /\ torn = TRUE => gesture[Enter] = NoGesture
  /\ rotated = TRUE /\ torn = FALSE => button[Enter].clicks = 0
  /\ TriggerFitsGesture /\ NothingLost

(* What was told stays right until the next read.                          *)
LEMMA ToldKeeps ==
  ASSUME TriggerFitsGesture, NothingLost, UNCHANGED <<dct, lpt, told>>
  PROVE  TriggerFitsGesture' /\ NothingLost'
<1>1. TriggerFitsGesture'
  BY DEF TriggerFitsGesture
<1>2. NothingLost'
  BY DEF NothingLost
<1> QED BY <1>1, <1>2

LEMMA QuietFits ==
  ASSUME told = Quiet
  PROVE  TriggerFitsGesture /\ NothingLost
<1>1. told.trigger = "None" /\ told.button = 0
  BY DEF Quiet
<1> QED BY <1>1 DEF TriggerFitsGesture, NothingLost

(* An edge makes the history longer by its time.                           *)
LEMMA LivedEdges ==
  ASSUME NEW g \in Gestures, g.edges # <<>>, NEW old, NEW new
  PROVE  /\ Lived(g, old, new).age = g.age + 1
         /\ new.last = old.last => Lived(g, old, new).edges = g.edges
         /\ new.last # old.last =>
              /\ Len(Lived(g, old, new).edges) = Len(g.edges) + 1
              /\ Lived(g, old, new).edges[Len(g.edges) + 1] = g.age + 1
<1>1. g.edges \in Seq(Nat) /\ g.age + 1 \in Nat
  BY DEF Gestures
<1>2. /\ Len(Append(g.edges, g.age + 1)) = Len(g.edges) + 1
      /\ Append(g.edges, g.age + 1)[Len(g.edges) + 1] = g.age + 1
  BY <1>1, AppendProperties
<1> QED BY <1>2 DEF Lived

LEMMA InitIInv == Init => IInv
<1> SUFFICES ASSUME Init PROVE IInv
  OBVIOUS
<1>1. TimesOK
  <2>1. PICK t \in Timeouts : dct = t.double /\ lpt = (IF t.long < t.double THEN t.double ELSE t.long)
    BY DEF Init
  <2>2. t.double \in Nat /\ t.long \in Nat \ {0}
    BY TimeAssumption
  <2> QED BY <2>1, <2>2 DEF TimesOK
<1>2. Unpressed \in States /\ Steady(Unpressed) /\ Unpressed.clicks = 0
  BY <1>1, DebounceNat DEF Unpressed, States, Steady, TimesOK
<1>3. NoGesture \in Gestures /\ NoGesture.edges = <<>>
  BY DEF NoGesture, Gestures
<1>4. \A b \in Buttons : InStep(b)
  BY <1>2, <1>3 DEF Init, InStep, NoGesture
<1>6. turn \in Buttons /\ Enter \in Buttons
  BY WiringAssumption DEF Init, Buttons
<1>7. pins \in [Buttons -> 0 .. 1] /\ button \in [Buttons -> States] /\ gesture \in [Buttons -> Gestures]
  BY <1>2, <1>3 DEF Init
<1>8. TriggerFitsGesture /\ NothingLost
  BY QuietFits DEF Init
<1> QED BY <1>1, <1>4, <1>6, <1>7, <1>8 DEF Init, IInv

(* Whatever a turn has left of a read, now or in an earlier one.           *)
LEMMA TornStep ==
  ASSUME IInv, NEW new \in States,
         UNCHANGED <<dct, lpt, pins, switchPressed>>,
         button' = [button EXCEPT ![Enter] = new],
         gesture' = [gesture EXCEPT ![Enter] = NoGesture],
         turn' \in Buttons, word' \subseteq Keys, rotated' \in BOOLEAN,
         torn' = TRUE \/ (torn' = FALSE /\ Idle(new)),
         told' = Quiet \/ told'.torn = TRUE
  PROVE  IInv'
<1> USE DEF IInv
<1>e. Enter \in Buttons
  BY WiringAssumption
<1>1. NoGesture \in Gestures /\ NoGesture.edges = <<>>
  BY DEF NoGesture, Gestures
<1>2. TimesOK' /\ (pins \in [Buttons -> 0 .. 1])' /\ (switchPressed \in BOOLEAN)'
  BY DEF TimesOK
<1>3. (button \in [Buttons -> States])'
  BY DEF States
<1>4. (gesture \in [Buttons -> Gestures])'
  BY <1>1 DEF Gestures
<1>5. ASSUME NEW b \in Buttons, Whole(b)' PROVE InStep(b)'
  <2>1. CASE b = Enter
    <3>1. new.clicks = 0 /\ new.released = FALSE
      BY <1>5, <2>1 DEF Whole, Idle, States
    <3>2. button'[b] = new /\ gesture'[b] = NoGesture
      BY <2>1, <1>e
    <3> QED BY <3>1, <3>2, <1>1 DEF InStep, Steady, NoGesture
  <2>2. CASE b # Enter
    <3>1. InStep(b) /\ button'[b] = button[b] /\ gesture'[b] = gesture[b]
      BY <2>2 DEF Whole
    <3> QED BY <3>1 DEF InStep, NoGesture, Steady, Shape
  <2> QED BY <2>1, <2>2
<1>6. (torn = TRUE => gesture[Enter] = NoGesture)'
  BY <1>e, Zenon DEF NoGesture
<1>7. (rotated = TRUE /\ torn = FALSE => button[Enter].clicks = 0)'
  BY <1>e DEF Idle
<1>8. TriggerFitsGesture' /\ NothingLost'
  <2>1. CASE told' = Quiet
    <3>1. told'.trigger = "None" /\ told'.button = 0
      BY <2>1 DEF Quiet
    <3> QED BY <3>1 DEF TriggerFitsGesture, NothingLost
  <2>2. CASE told'.torn = TRUE
    BY <2>2, Zenon DEF TriggerFitsGesture, NothingLost
  <2> QED BY <2>1, <2>2
<1>9. torn' \in BOOLEAN
  OBVIOUS
<1> HIDE DEF IInv
<1> QED BY <1>2, <1>3, <1>4, <1>5, <1>6, <1>7, <1>8, <1>9 DEF IInv

LEMMA StepIInv == IInv /\ [Next]_vars => IInv'
<1> SUFFICES ASSUME IInv, [Next]_vars PROVE IInv'
  OBVIOUS
<1> USE DEF IInv
<1>e. Enter \in Buttons
  BY WiringAssumption
<1>1. ASSUME NEW b \in Buttons, Push(b) PROVE IInv'
  <2>1. (pins \in [Buttons -> 0 .. 1])'
    BY <1>1 DEF Push
  <2>2. UNCHANGED <<dct, lpt, button, turn, switchPressed, word, gesture, rotated, torn, told>>
    BY <1>1 DEF Push
  <2> QED BY <2>1, <2>2, ToldKeeps DEF TimesOK, States, Steady, Whole, InStep, Shape, NoGesture, Gestures
<1>2. CASE Read /\ Whole(turn)
  <2> DEFINE old == button[turn]
             outcome == ReadTrigger(turn, old, pins[turn])
             new == outcome.state
             g == Lived(gesture[turn], old, new)
  <2>1. old \in States /\ InStep(turn) /\ pins[turn] \in 0 .. 1 /\ gesture[turn] \in Gestures
    BY <1>2
  <2>2. Follows(old, new)
    BY <2>1, ReadFollows DEF InStep
  <2>3. old.clicks = 0 => outcome.trigger = "None"
    BY <2>1, IdleRead DEF InStep
  <2>t. (torn /\ turn = Enter) = FALSE
    BY <1>2 DEF Whole
  <2>4. /\ UNCHANGED <<dct, lpt, pins, switchPressed>> /\ button' = [button EXCEPT ![turn] = new]
        /\ gesture' = [gesture EXCEPT ![turn] = IF new.clicks = 0 THEN NoGesture ELSE g]
        /\ turn' = (turn % N) + 1
        /\ rotated' = (rotated /\ ~ (turn = Enter /\ new.last < old.last))
        /\ told' = (IF outcome.trigger # "None" \/ (old.clicks > 0 /\ new.clicks = 0)
                    THEN [button |-> turn, trigger |-> outcome.trigger, edges |-> g.edges,
                          age |-> g.age, rotated |-> rotated /\ turn = Enter, torn |-> FALSE]
                    ELSE Quiet)
        /\ torn' = torn
    BY <1>2, <2>t DEF Read, Dispatch, Whole
  <2>5. word' \subseteq Keys
    BY <1>2 DEF Read, Dispatch, UIButtonsEventHandler
  <2> HIDE DEF outcome, new, g, old
  <2>6. TimesOK' /\ (pins \in [Buttons -> 0 .. 1])' /\ (switchPressed \in BOOLEAN)' /\ (rotated \in BOOLEAN)'
    BY <2>4 DEF TimesOK
  <2>7. (turn \in Buttons)'
    BY <2>4, WiringAssumption DEF Buttons
  <2>8. (button \in [Buttons -> States])'
    BY <2>2, <2>4 DEF Follows, States
  <2>9. g \in Gestures /\ (new.clicks > 0 => g.edges # <<>> /\ g.age = new.timer)
    <3>1. CASE gesture[turn].edges # <<>>
      <4>1. g = [edges |-> IF new.last # old.last THEN Append(gesture[turn].edges, gesture[turn].age + 1)
                           ELSE gesture[turn].edges, age |-> gesture[turn].age + 1]
        BY <3>1 DEF g, Lived
      <4>2. gesture[turn].age + 1 \in Nat /\ gesture[turn].edges \in Seq(Nat)
        BY <2>1 DEF Gestures
      <4>3. g.edges \in Seq(Nat) /\ g.edges # <<>>
        <5>1. PICK e \in Seq(Nat), a \in Nat : e = gesture[turn].edges /\ a = gesture[turn].age + 1
          BY <4>2
        <5>2. g.edges = IF new.last # old.last THEN Append(e, a) ELSE e
          BY <4>1, <5>1
        <5>3. Append(e, a) \in Seq(Nat) /\ Append(e, a) # <<>> /\ e # <<>>
          BY <3>1, <5>1
        <5> QED BY <5>1, <5>2, <5>3, Zenon
      <4>4. old.clicks > 0 /\ gesture[turn].age = old.timer
        BY <2>1, <3>1 DEF InStep, old
      <4> QED BY <4>1, <4>2, <4>3, <4>4, <2>2 DEF Follows, Gestures
    <3>2. CASE gesture[turn].edges = <<>>
      <4>1. old.clicks = 0
        BY <2>1, <3>2 DEF InStep, old, States
      <4>2. CASE new.last < old.last
        <5>1. g = [edges |-> <<0>>, age |-> 0]
          BY <3>2, <4>2 DEF g, Lived
        <5> QED BY <5>1, <4>1, <2>2 DEF Follows, Gestures
      <4>3. CASE ~ (new.last < old.last)
        <5>1. g = NoGesture
          BY <3>2, <4>3 DEF g, Lived
        <5> QED BY <5>1, <4>1, <4>3, <2>2 DEF Follows, Gestures, NoGesture, States
      <4> QED BY <4>2, <4>3
    <3> QED BY <3>1, <3>2
  <2>10. (gesture \in [Buttons -> Gestures])'
    BY <2>4, <2>9 DEF NoGesture, Gestures
  <2> DEFINE n == Len(gesture[turn].edges)
             edge == IF new.last # old.last THEN 1 ELSE 0
  <2>14. old.clicks > 0 =>
           /\ new.clicks > 0 => Shape(turn, new, Len(g.edges))
           /\ Tells(turn, outcome.trigger, new.clicks, g.age, Len(g.edges), edge)
           /\ edge = 1 => g.edges[Len(g.edges)] = g.age
    <3> SUFFICES ASSUME old.clicks > 0
                 PROVE  /\ new.clicks > 0 => Shape(turn, new, Len(g.edges))
                        /\ Tells(turn, outcome.trigger, new.clicks, g.age, Len(g.edges), edge)
                        /\ edge = 1 => g.edges[Len(g.edges)] = g.age
      OBVIOUS
    <3>1. /\ gesture[turn].edges # <<>> /\ gesture[turn].age = old.timer
          /\ Steady(old) /\ Shape(turn, old, n)
      BY <2>1 DEF InStep, old
    <3>2. gesture[turn].edges \in Seq(Nat) /\ old.timer + 1 \in Nat /\ n \in Nat
      BY <2>1, <3>1 DEF Gestures
    <3>4. Len(g.edges) = n + edge /\ (edge = 1 => g.edges[Len(g.edges)] = g.age) /\ g.age = old.timer + 1
      <4>1. gesture[turn] \in Gestures
        OBVIOUS
      <4>2. g = Lived(gesture[turn], old, new)
        BY DEF g
      <4>3. n \in Nat /\ Len(gesture[turn].edges) = n
        BY <3>2
      <4>4. /\ g.age = old.timer + 1
            /\ new.last = old.last => g.edges = gesture[turn].edges
            /\ new.last # old.last => Len(g.edges) = n + 1 /\ g.edges[n + 1] = old.timer + 1
        BY <3>1, <4>1, <4>2, LivedEdges
      <4> HIDE DEF n
      <4> QED BY <4>3, <4>4
    <3>5. outcome = ReadTrigger(turn, old, pins[turn]) /\ new = outcome.state
      BY DEF outcome, new
    <3> HIDE DEF n, edge
    <3>6. /\ new.clicks > 0 => Shape(turn, new, n + edge)
          /\ Tells(turn, outcome.trigger, new.clicks, old.timer + 1, n + edge, edge)
      BY <2>1, <3>1, <3>2, <3>5, ReadTells DEF edge
    <3> QED BY <3>4, <3>6
  <2>15. new.clicks > 0 => Shape(turn, new, Len(g.edges))
    <3>1. CASE old.clicks = 0 /\ new.clicks > 0
      <4>1. new.clicks = 1 /\ new.last = 0 /\ new.released = FALSE
        <5>1. Steady(old) /\ old \in States /\ pins[turn] \in 0 .. 1
          BY <2>1 DEF InStep, old
        <5>2. outcome = ReadTrigger(turn, old, pins[turn]) /\ new = outcome.state
          BY DEF outcome, new
        <5>3. TimesOK
          OBVIOUS
        <5> HIDE DEF IInv, n, edge
        <5>4. PICK pin \in 0 .. 1 : pin = pins[turn]
          BY <5>1
        <5>5. outcome = ReadTrigger(turn, old, pin)
          BY <5>2, <5>4
        <5>6. outcome.state.clicks > 0 =>
                outcome.state.clicks = 1 /\ outcome.state.last = 0 /\ outcome.state.released = FALSE
          BY <3>1, <5>1, <5>3, <5>5, IdleRead
        <5> QED BY <3>1, <5>2, <5>6
      <4>2. g.edges = <<0>>
        BY <3>1, <2>1, <2>2 DEF g, Lived, InStep, Follows, old
      <4> QED BY <4>1, <4>2 DEF Shape
    <3>2. CASE old.clicks > 0
      BY <3>2, <2>14
    <3> QED BY <3>1, <3>2, <2>1 DEF old, States
  <2>11. ASSUME NEW b \in Buttons, Whole(b)' PROVE InStep(b)'
    <3>1. CASE b = turn
      <4>1. button'[b] = new /\ gesture'[b] = (IF new.clicks = 0 THEN NoGesture ELSE g)
        BY <2>4, <3>1
      <4>2. Steady(new) /\ new.clicks \in 0 .. 2 /\ lpt' = lpt /\ dct' = dct
        BY <2>2, <2>4 DEF Follows, States
      <4>3. Steady(button[b])'
        BY <4>1, <4>2 DEF Steady
      <4>4. NoGesture.edges = <<>>
        BY DEF NoGesture
      <4>5. new.clicks > 0 => Shape(b, button[b], Len(gesture[b].edges))'
        BY <4>1, <4>2, <3>1, <2>15 DEF Shape
      <4> QED BY <4>1, <4>2, <4>3, <4>4, <4>5, <2>9 DEF InStep, NoGesture
    <3>2. CASE b # turn
      <4>1. button'[b] = button[b] /\ gesture'[b] = gesture[b] /\ InStep(b)
        BY <2>4, <2>11, <3>2 DEF Whole
      <4> QED BY <4>1, <2>4 DEF InStep, NoGesture, Steady, Shape
    <3> QED BY <3>1, <3>2
  <2>17. (torn = TRUE => gesture[Enter] = NoGesture)'
    BY <1>2, <2>4 DEF Whole, NoGesture
  <2>12. (rotated = TRUE /\ torn = FALSE => button[Enter].clicks = 0)'
    <3>1. CASE turn = Enter
      <4>1. rotated = TRUE => old.clicks = 0
        BY <1>2, <3>1 DEF old, Whole
      <4>2. new.clicks \in 0 .. 2 /\ button'[Enter] = new /\ (rotated' = TRUE => rotated = TRUE /\ ~ (new.last < old.last))
        BY <3>1, <2>2, <2>4 DEF Follows, States
      <4> QED BY <4>1, <4>2, <2>2 DEF Follows
    <3>2. CASE turn # Enter
      BY <3>2, <2>4, <1>e
    <3> QED BY <3>1, <3>2
  <2>16. TriggerFitsGesture' /\ NothingLost'
    <3>1. CASE told' = Quiet
      <4>1. told'.trigger = "None" /\ told'.button = 0
        BY <3>1 DEF Quiet
      <4>2. TriggerFitsGesture'
        BY <4>1 DEF TriggerFitsGesture
      <4>3. NothingLost'
        BY <4>1 DEF NothingLost
      <4> QED BY <4>2, <4>3
    <3>2. CASE told' # Quiet
      <4>1. /\ told'.trigger = outcome.trigger /\ told'.edges = g.edges /\ told'.age = g.age
            /\ told'.button = turn /\ old.clicks > 0
            /\ outcome.trigger = "None" => new.clicks = 0
        BY <3>2, <2>1, <2>3, <2>4 DEF old, States
      <4>2. Tells(turn, outcome.trigger, new.clicks, g.age, Len(g.edges), edge)
            /\ (edge = 1 => g.edges[Len(g.edges)] = g.age)
        BY <4>1, <2>14
      <4>3. TriggerFitsGesture'
        BY <4>1, <4>2, <2>4 DEF Tells, TriggerFitsGesture
      <4>4. NothingLost'
        BY <4>1, <4>2, <2>4 DEF Tells, NothingLost
      <4> QED BY <4>3, <4>4
    <3> QED BY <3>1, <3>2
  <2> QED BY <2>4, <2>5, <2>6, <2>7, <2>8, <2>10, <2>11, <2>12, <2>16, <2>17
<1>7. CASE Read /\ ~ Whole(turn)
  <2> DEFINE new == ReadTrigger(Enter, button[Enter], pins[Enter]).state
  <2>1. turn = Enter /\ torn = TRUE
    BY <1>7 DEF Whole
  <2>2. new \in States
    <3>1. button[Enter] \in States /\ pins[Enter] \in 0 .. 1 /\ TimesOK
      BY <1>e
    <3> HIDE DEF IInv
    <3> QED BY <3>1, ReadTyped
  <2>3. /\ UNCHANGED <<dct, lpt, pins, switchPressed>>
        /\ button' = [button EXCEPT ![Enter] = new]
        /\ gesture' = [gesture EXCEPT ![Enter] = NoGesture]
        /\ turn' = (turn % N) + 1 /\ rotated' \in BOOLEAN
        /\ torn' = ~ Idle(new)
        /\ told' = Quiet \/ told'.torn = TRUE
    BY <1>7, <2>1 DEF Read, Dispatch
  <2>4. word' \subseteq Keys
    BY <1>7 DEF Read, Dispatch, UIButtonsEventHandler
  <2>5. turn' \in Buttons
    BY <2>3, WiringAssumption DEF Buttons
  <2> HIDE DEF new, IInv
  <2>6. IInv
    OBVIOUS
  <2> QED BY <2>2, <2>3, <2>4, <2>5, <2>6, TornStep
<1>8. CASE TurnWithinRead
  <2>1. PICK outcome \in TornReads(Enter, button[Enter], pins[Enter]) :
          /\ Dispatch(Enter, outcome)
          /\ told' = (IF outcome.trigger # "None"
                      THEN [Quiet EXCEPT !.button = Enter, !.trigger = outcome.trigger,
                                         !.rotated = TRUE, !.torn = TRUE]
                      ELSE Quiet)
          /\ rotated' = (rotated \/ 0 \in {button[Enter].last, outcome.state.last})
          /\ torn' = ~ Idle(outcome.state)
    BY <1>8 DEF TurnWithinRead
  <2>2. outcome.state \in States
    <3>1. button[Enter] \in States /\ pins[Enter] \in 0 .. 1 /\ TimesOK
      BY <1>e
    <3> HIDE DEF IInv
    <3> QED BY <3>1, TornReadsTyped
  <2>3. /\ UNCHANGED <<dct, lpt, pins, switchPressed>>
        /\ button' = [button EXCEPT ![Enter] = outcome.state]
        /\ gesture' = [gesture EXCEPT ![Enter] = NoGesture]
        /\ turn' = (Enter % N) + 1 /\ rotated' \in BOOLEAN
    BY <1>8, <2>1 DEF TurnWithinRead, Dispatch
  <2>4. word' \subseteq Keys
    BY <2>1 DEF Dispatch, UIButtonsEventHandler
  <2>5. turn' \in Buttons
    BY <2>3, WiringAssumption DEF Buttons
  <2>7. told' = Quiet \/ told'.torn = TRUE
    BY <2>1 DEF Quiet
  <2> HIDE DEF IInv
  <2>6. IInv
    OBVIOUS
  <2> QED BY <2>1, <2>2, <2>3, <2>4, <2>5, <2>6, <2>7, TornStep
<1>3. CASE EncoderSwitch
  <2>1. switchPressed' \in BOOLEAN /\ UNCHANGED <<dct, lpt, pins, button, turn, word, gesture, rotated, torn, told>>
    BY <1>3 DEF EncoderSwitch
  <2> QED BY <2>1, ToldKeeps DEF TimesOK, States, Steady, Whole, InStep, Shape, NoGesture, Gestures
<1>4. CASE EncoderTurn
  <2>1. /\ UNCHANGED <<dct, lpt, pins, turn, switchPressed, word, told>>
        /\ button' = [button EXCEPT ![Enter] = Reset(button[Enter])]
        /\ gesture' = [gesture EXCEPT ![Enter] = NoGesture]
        /\ rotated' = (rotated \/ button[Enter].last = 0) /\ torn' = FALSE
    BY <1>4 DEF EncoderTurn, ResetButton
  <2>2. Reset(button[Enter]) \in States /\ Steady(Reset(button[Enter])) /\ Reset(button[Enter]).clicks = 0
    BY <1>e, ResetSteady
  <2>3. NoGesture \in Gestures /\ NoGesture.edges = <<>>
    BY DEF NoGesture, Gestures
  <2>4. (button \in [Buttons -> States])' /\ (gesture \in [Buttons -> Gestures])'
    BY <2>1, <2>2, <2>3 DEF States, Gestures
  <2>5. ASSUME NEW b \in Buttons, Whole(b)' PROVE InStep(b)'
    <3>1. CASE b = Enter
      <4>1. button'[b] = Reset(button[Enter]) /\ gesture'[b] = NoGesture
        BY <2>1, <3>1
      <4> QED BY <4>1, <2>1, <2>2, <2>3 DEF InStep, NoGesture, Steady
    <3>2. CASE b # Enter
      <4>1. button'[b] = button[b] /\ gesture'[b] = gesture[b] /\ InStep(b)
        BY <2>1, <3>2 DEF Whole
      <4> QED BY <4>1, <2>1 DEF InStep, NoGesture, Steady, Shape
    <3> QED BY <3>1, <3>2
  <2>6. (rotated = TRUE /\ torn = FALSE => button[Enter].clicks = 0)'
    BY <2>1, <2>2, <1>e
  <2> QED BY <2>1, <2>4, <2>5, <2>6, <1>e, ToldKeeps DEF TimesOK
<1>5. CASE MidiButton
  <2>1. word' \subseteq Keys /\ UNCHANGED <<dct, lpt, pins, button, turn, switchPressed, gesture, rotated, torn, told>>
    BY <1>5 DEF MidiButton, UIButtonsEventHandler
  <2> QED BY <2>1, ToldKeeps DEF TimesOK, States, Steady, Whole, InStep, Shape, NoGesture, Gestures
<1>6. CASE UNCHANGED vars
  BY <1>6, ToldKeeps DEF vars, TimesOK, States, Steady, Whole, InStep, Shape, NoGesture, Gestures
<1> QED BY <1>1, <1>2, <1>3, <1>4, <1>5, <1>6, <1>7, <1>8 DEF Next
-----------------------------------------------------------------------------
(* The types and the bounds of the counters, for every wiring and all      *)
(* timeouts.                                                               *)
THEOREM TypeCorrect == Spec => []TypeOK
<1>1. IInv => TypeOK
  BY DEF IInv, TimesOK, States, TypeOK
<1> QED BY <1>1, InitIInv, StepIInv, PTL DEF Spec

(* No gesture lives longer than a long press takes.                        *)
THEOREM Timely == Spec => []AnsweredInTime
<1>1. IInv => AnsweredInTime
  BY DEF IInv, Whole, InStep, NoGesture, Steady, States, TimesOK, AnsweredInTime
<1> QED BY <1>1, InitIInv, StepIInv, PTL DEF Spec

(* A turn of the encoder between two reads silences the press that came    *)
(* before it; one within a read lets at most one thing more be told, which *)
(* leaves nothing behind (userinterface.cpp:335-339, uibuttons.cpp:101-198). *)
THEOREM Silenced == Spec => RotationSilences
<1>1. ASSUME IInv, [Next]_vars
      PROVE  [(Read \/ TurnWithinRead) /\ told'.trigger # "None" /\ told'.rotated =>
                told'.torn /\ ~ torn']_vars
  <2>e. Enter \in Buttons
    BY WiringAssumption
  <2>0. TimesOK /\ button[Enter] \in States /\ pins[Enter] \in 0 .. 1 /\ torn \in BOOLEAN
    BY <1>1, <2>e DEF IInv
  <2>1. ASSUME Read, told'.trigger # "None", told'.rotated PROVE told'.torn /\ ~ torn'
    <3> DEFINE outcome == ReadTrigger(turn, button[turn], pins[turn])
    <3>1. told' # Quiet
      BY <2>1 DEF Quiet
    <3>2. /\ told'.trigger = outcome.trigger /\ told'.rotated = (rotated /\ turn = Enter)
          /\ told'.torn = (torn /\ turn = Enter)
          /\ torn' = (torn /\ ~ (turn = Enter /\ Idle(outcome.state)))
      BY <2>1, <3>1 DEF Read
    <3>3. turn = Enter /\ rotated = TRUE
      BY <2>1, <3>2, <1>1 DEF IInv
    <3>4. outcome = ReadTrigger(Enter, button[Enter], pins[Enter])
      BY <3>3
    <3> HIDE DEF outcome
    <3>5. Idle(outcome.state)
      BY <2>0, <2>1, <3>2, <3>4, ToldIsIdle
    <3>6. torn = TRUE
      <4>1. CASE torn = FALSE
        <5>1. button[Enter].clicks = 0 /\ Steady(button[Enter])
          BY <4>1, <1>1, <2>e, <3>3 DEF IInv, Whole, InStep
        <5>2. outcome.trigger = "None"
          BY <2>0, <3>4, <5>1, IdleRead
        <5> QED BY <2>1, <3>2, <5>2
      <4> QED BY <2>0, <4>1
    <3> QED BY <3>2, <3>3, <3>5, <3>6
  <2>2. ASSUME TurnWithinRead, told'.trigger # "None" PROVE told'.torn /\ ~ torn'
    <3>1. PICK outcome \in TornReads(Enter, button[Enter], pins[Enter]) :
            /\ told' = (IF outcome.trigger # "None"
                        THEN [Quiet EXCEPT !.button = Enter, !.trigger = outcome.trigger,
                                           !.rotated = TRUE, !.torn = TRUE]
                        ELSE Quiet)
            /\ torn' = ~ Idle(outcome.state)
      BY <2>2 DEF TurnWithinRead
    <3>2. outcome.trigger # "None" /\ told'.torn = TRUE
      BY <2>2, <3>1 DEF Quiet
    <3>3. Idle(outcome.state)
      BY <2>0, <3>2, TornToldIsIdle
    <3> QED BY <3>1, <3>2, <3>3
  <2> QED BY <2>1, <2>2
<1> QED BY <1>1, InitIInv, StepIInv, PTL DEF Spec, RotationSilences

(* What is told is what has happened (uibuttons.cpp:101-198).              *)
THEOREM AlwaysFits == Spec => []TriggerFitsGesture
<1>1. IInv => TriggerFitsGesture
  BY DEF IInv
<1> QED BY <1>1, InitIInv, StepIInv, PTL DEF Spec

(* A gesture ends untold in one way only (uibuttons.cpp:120-132).          *)
THEOREM NothingElseLost == Spec => []NothingLost
<1>1. IInv => NothingLost
  BY DEF IInv
<1> QED BY <1>1, InitIInv, StepIInv, PTL DEF Spec
=============================================================================
