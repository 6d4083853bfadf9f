---------------------------- MODULE DisplayProofs ----------------------------
(***************************************************************************)
(* Theorems about the display and the touch task, modules Display and      *)
(* Touch, for every number of inverters.                                   *)
(***************************************************************************)
EXTENDS Display, FiniteSetTheorems, TLAPS

Lasting == {<<"second", 0>>, <<"minute", 0>>, <<"invert_meter", 0>>, <<"configure", 0>>,
            <<"connect", 0>>, <<"pwd", 0>>}
Deletes(n) == {Delete(i) : i \in 1..n}
AnyButton == Lasting \cup Deletes(MaxInverters)
AnyPlace == AnyButton \cup Views \cup {Blank, None}

(* The buttons of each page. *)
LEMMA PageButtons ==
  ASSUME delete_buttons \in Nat
  PROVE  /\ Range(ButtonsOf(Overview)) = {}
         /\ Range(ButtonsOf(History)) = {<<"second", 0>>, <<"minute", 0>>}
         /\ Range(ButtonsOf(Emm)) = {<<"invert_meter", 0>>}
         /\ Range(ButtonsOf(Settings)) = Deletes(delete_buttons) \cup {<<"configure", 0>>}
         /\ Range(ButtonsOf(Wifi)) = {<<"connect", 0>>, <<"pwd", 0>>}
<1> USE DEF ButtonsOf, Overview, History, Emm, Settings, Wifi, Range
<1>1. Range(ButtonsOf(Overview)) = {}
  OBVIOUS
<1>2. Range(ButtonsOf(History)) = {<<"second", 0>>, <<"minute", 0>>}
  <2>1. DOMAIN << <<"second", 0>>, <<"minute", 0>> >> = {1, 2}
    OBVIOUS
  <2> QED BY <2>1
<1>3. Range(ButtonsOf(Emm)) = {<<"invert_meter", 0>>}
  <2>1. DOMAIN << <<"invert_meter", 0>> >> = {1}
    OBVIOUS
  <2> QED BY <2>1
<1>4. Range(ButtonsOf(Settings)) = Deletes(delete_buttons) \cup {<<"configure", 0>>}
  <2> DEFINE f == [i \in 1..delete_buttons |-> Delete(i)]
             g == << <<"configure", 0>> >>
  <2>1. ButtonsOf(Settings) = f \o g
    OBVIOUS
  <2>2. f \in Seq({Delete(i) : i \in Nat}) /\ Len(f) = delete_buttons
    OBVIOUS
  <2>3. g \in Seq({<<"configure", 0>>}) /\ Len(g) = 1 /\ g[1] = <<"configure", 0>>
    OBVIOUS
  <2>4. /\ DOMAIN (f \o g) = 1..(delete_buttons + 1)
        /\ \A i \in 1..delete_buttons : (f \o g)[i] = Delete(i)
        /\ (f \o g)[delete_buttons + 1] = <<"configure", 0>>
    BY <2>2, <2>3
  <2> HIDE DEF f, g
  <2>5. \A i \in 1..(delete_buttons + 1) : i \in 1..delete_buttons \/ i = delete_buttons + 1
    OBVIOUS
  <2>6. Range(f \o g) \subseteq Deletes(delete_buttons) \cup {<<"configure", 0>>}
    BY <2>4, <2>5 DEF Deletes
  <2>7. Deletes(delete_buttons) \cup {<<"configure", 0>>} \subseteq Range(f \o g)
    <3>1. ASSUME NEW i \in 1..delete_buttons PROVE Delete(i) \in Range(f \o g)
      <4>1. i \in 1..(delete_buttons + 1)
        OBVIOUS
      <4> HIDE DEF Delete
      <4> QED BY <2>4, <4>1
    <3>2. <<"configure", 0>> \in Range(f \o g)
      BY <2>4
    <3> QED BY <3>1, <3>2 DEF Deletes
  <2> HIDE DEF ButtonsOf, Range, Settings
  <2> QED BY <2>1, <2>6, <2>7
<1>5. Range(ButtonsOf(Wifi)) = {<<"connect", 0>>, <<"pwd", 0>>}
  <2>1. DOMAIN << <<"connect", 0>>, <<"pwd", 0>> >> = {1, 2}
    OBVIOUS
  <2> QED BY <2>1
<1> QED BY <1>1, <1>2, <1>3, <1>4, <1>5

LEMMA ButtonsAre ==
  ASSUME delete_buttons \in Nat
  PROVE  Buttons = Lasting \cup Deletes(delete_buttons)
<1>1. Buttons = Range(ButtonsOf(Overview)) \cup Range(ButtonsOf(History))
                  \cup Range(ButtonsOf(Emm)) \cup Range(ButtonsOf(Settings))
                  \cup Range(ButtonsOf(Wifi))
  <2>1. Pages = {Overview, History, Emm, Settings, Wifi}
    BY DEF Pages, Overview, History, Emm, Settings, Wifi
  <2> QED BY <2>1 DEF Buttons
<1> QED BY <1>1, PageButtons DEF Lasting

(* Which page a place is on, as far as it matters. *)
LEMMA PageOfPlace ==
  ASSUME delete_buttons \in Nat, NEW b \in Buttons \cup Views
  PROVE  PageOf(b) = Overview <=> b = <<"ig_view", 0>>
<1>1. b \in Lasting \cup Deletes(delete_buttons) \cup Views
  BY ButtonsAre
<1> USE DEF PageOf, Overview, History, Emm, Settings, Wifi
<1>2. CASE b \in Lasting
  BY <1>2 DEF Lasting
<1>3. CASE b \in Deletes(delete_buttons)
  BY <1>3 DEF Deletes, Delete
<1>4. CASE b \in Views
  BY <1>4 DEF Views
<1> QED BY <1>1, <1>2, <1>3, <1>4

-----------------------------------------------------------------------------
(* What a page leaves of the touch it is offered.                          *)
Infos == [last : AnyPlace, cur : AnyPlace, steep : BOOLEAN, handled : BOOLEAN,
          ig : BOOLEAN, history : BOOLEAN, wifi : BOOLEAN, pressed : SUBSET AnyButton]

(* The same touch, with one more press if the finger leaves a button.      *)
Goes(t, s, buttons) ==
  /\ s \in Infos /\ s.last = t.last /\ s.cur = t.cur
  /\ s.pressed \subseteq t.pressed \cup LiftedFrom(buttons, t)

LEMMA AskDoes ==
  ASSUME NEW t \in Infos, NEW buttons, Range(buttons) \subseteq AnyButton
  PROVE  LET s == Ask(buttons, t)
         IN /\ Goes(t, s, buttons)
            /\ s.ig = t.ig /\ s.history = t.history /\ s.wifi = t.wifi /\ s.steep = t.steep
            /\ s.handled <=> LiftedFrom(buttons, t) # {}
            /\ ~s.handled => s.pressed = t.pressed \ Range(buttons)
<1> DEFINE s == Ask(buttons, t)
           lifted == LiftedFrom(buttons, t)
           pressed1 == (t.pressed \ Asked(buttons, t)) \cup lifted
<1>1. lifted \subseteq AnyButton
  BY DEF LiftedFrom
<1>2. pressed1 \in SUBSET AnyButton
  BY <1>1 DEF Infos
<1>3. lifted = {} => Asked(buttons, t) = Range(buttons)
  BY DEF Asked, Range
<1>4. s = [t EXCEPT !.pressed = pressed1, !.handled = (lifted # {})]
  BY DEF Ask
<1> HIDE DEF lifted, pressed1, s
<1>5. /\ s \in Infos /\ s.last = t.last /\ s.cur = t.cur /\ s.pressed = pressed1
      /\ s.ig = t.ig /\ s.history = t.history /\ s.wifi = t.wifi /\ s.steep = t.steep
  BY <1>2, <1>4 DEF Infos
<1>6. s.handled <=> lifted # {}
  BY <1>4 DEF Infos
<1>7. s.pressed \subseteq t.pressed \cup lifted
  BY <1>5 DEF pressed1
<1>8. ~s.handled => s.pressed = t.pressed \ Range(buttons)
  BY <1>3, <1>5, <1>6 DEF pressed1
<1>9. Goes(t, s, buttons)
  BY <1>5, <1>7 DEF Goes, lifted
<1> QED BY <1>5, <1>6, <1>8, <1>9 DEF s, lifted


(* Until the finger leaves, no button is.                                  *)
LEMMA NotLifted ==
  ASSUME NEW t, ~Ended(t), NEW buttons
  PROVE  LiftedFrom(buttons, t) = {}
BY DEF LiftedFrom

LEMMA OverviewDoes ==
  ASSUME NEW t \in Infos, ~t.handled, Started(t) => ~Ended(t)
  PROVE  LET s == OverviewHandles(t)
         IN /\ Goes(t, s, ButtonsOf(Overview)) /\ s.history = t.history
            /\ s.pressed = t.pressed
            /\ Started(t) => /\ s.handled <=> t.cur = <<"ig_view", 0>>
                             /\ s.ig <=> t.ig \/ t.cur = <<"ig_view", 0>>
            /\ Moves(t) => s.ig = t.ig /\ (s.handled <=> t.ig)
            /\ Ended(t) => ~s.ig /\ ~s.handled
<1> DEFINE s == OverviewHandles(t)
<1>1. CASE Started(t) /\ t.cur = <<"ig_view", 0>>
  <2>1. s = [t EXCEPT !.ig = TRUE, !.handled = TRUE]
    BY <1>1 DEF OverviewHandles
  <2>2. ~Ended(t) /\ ~Moves(t)
    BY <1>1 DEF Moves
  <2> HIDE DEF s
  <2> QED BY <1>1, <2>1, <2>2 DEF Infos, Goes, s
<1>2. CASE ~(Started(t) /\ t.cur = <<"ig_view", 0>>) /\ Ended(t)
  <2>1. s = [t EXCEPT !.ig = FALSE]
    BY <1>2 DEF OverviewHandles
  <2>2. ~Started(t) /\ ~Moves(t)
    BY <1>2 DEF Moves
  <2> HIDE DEF s
  <2> QED BY <1>2, <2>1, <2>2 DEF Infos, Goes, s
<1>3. CASE ~(Started(t) /\ t.cur = <<"ig_view", 0>>) /\ ~Ended(t)
  <2>1. s = [t EXCEPT !.handled = (t.ig /\ Moves(t))]
    BY <1>3 DEF OverviewHandles
  <2>2. Moves(t) \in BOOLEAN /\ (Started(t) => ~Moves(t))
    BY DEF Moves
  <2> HIDE DEF s
  <2>3. s \in Infos
    BY <2>1, <2>2 DEF Infos
  <2> QED BY <1>3, <2>1, <2>2, <2>3 DEF Infos, Goes, s
<1> QED BY <1>1, <1>2, <1>3

LEMMA HistoryDoes ==
  ASSUME delete_buttons \in Nat, NEW t \in Infos, ~t.handled, Started(t) => ~Ended(t)
  PROVE  LET s == HistoryHandles(t)
         IN /\ Goes(t, s, ButtonsOf(History)) /\ s.ig = t.ig
            /\ ~s.handled => s.pressed = t.pressed \ Range(ButtonsOf(History))
            /\ Started(t) /\ ~t.history => (s.handled <=> s.history)
            /\ Moves(t) => s.history = t.history /\ (t.history => s.handled)
            /\ Ended(t) => ~s.history /\ (t.history => s.pressed = t.pressed)
<1> DEFINE s == HistoryHandles(t)
           a == Ask(ButtonsOf(History), t)
<1>1. CASE t.history /\ Ended(t)
  <2>1. s = [t EXCEPT !.history = FALSE, !.handled = TRUE]
    BY <1>1 DEF HistoryHandles
  <2>2. ~Moves(t) /\ ~Started(t)
    BY <1>1 DEF Moves
  <2> HIDE DEF s
  <2> QED BY <1>1, <2>1, <2>2 DEF Infos, Goes, s
<1>2. CASE t.history /\ Moves(t)
  <2>1. ~Ended(t) /\ ~Started(t)
    BY <1>2 DEF Moves
  <2>2. s = [t EXCEPT !.handled = TRUE]
    BY <1>2, <2>1 DEF HistoryHandles
  <2> HIDE DEF s
  <2> QED BY <1>2, <2>1, <2>2 DEF Infos, Goes, s
<1>3. CASE ~(t.history /\ Ended(t)) /\ ~(t.history /\ Moves(t))
  <2>1. Range(ButtonsOf(History)) \subseteq AnyButton
    BY PageButtons DEF AnyButton, Lasting
  <2>2. /\ Goes(t, a, ButtonsOf(History)) /\ a.ig = t.ig /\ a.history = t.history
        /\ a.handled <=> LiftedFrom(ButtonsOf(History), t) # {}
        /\ ~a.handled => a.pressed = t.pressed \ Range(ButtonsOf(History))
    BY <2>1, AskDoes
  <2>3. a \in Infos /\ a.last = t.last /\ a.cur = t.cur /\ (Started(a) <=> Started(t))
    BY <2>2 DEF Goes, Started
  <2>4. s = IF ~a.handled /\ Started(a) /\ a.cur = <<"plot", 0>>
            THEN [a EXCEPT !.history = TRUE, !.handled = TRUE] ELSE a
    BY <1>3 DEF HistoryHandles
  <2>5. Started(t) => ~a.handled
    BY <2>2, NotLifted
  <2> HIDE DEF s, a
  <2>6. CASE ~a.handled /\ Started(a) /\ a.cur = <<"plot", 0>>
    <3>1. s = [a EXCEPT !.history = TRUE, !.handled = TRUE]
      BY <2>4, <2>6
    <3>2. /\ s \in Infos /\ s.last = t.last /\ s.cur = t.cur /\ s.pressed = a.pressed
          /\ s.ig = t.ig /\ s.history = TRUE /\ s.handled = TRUE
      BY <2>2, <2>3, <3>1 DEF Infos
    <3>3. ~Ended(t) /\ ~Moves(t)
      BY <2>3, <2>6 DEF Moves
    <3> QED BY <2>2, <3>2, <3>3 DEF Goes, s
  <2>7. CASE ~(~a.handled /\ Started(a) /\ a.cur = <<"plot", 0>>)
    <3>1. s = a
      BY <2>4, <2>7
    <3> QED BY <1>3, <2>2, <2>3, <2>5, <3>1 DEF s, Infos
  <2> QED BY <2>6, <2>7
<1> QED BY <1>1, <1>2, <1>3


LEMMA WifiDoes ==
  ASSUME delete_buttons \in Nat, NEW t \in Infos, ~t.handled, Started(t) => ~Ended(t)
  PROVE  LET s == WifiHandles(t)
         IN /\ Goes(t, s, ButtonsOf(Wifi)) /\ s.ig = t.ig /\ s.history = t.history
            /\ ~s.handled => s.pressed \subseteq t.pressed
                             /\ s.pressed \cap (Range(ButtonsOf(Wifi)) \ WifiRect) = {}
            /\ Started(t) => ~s.handled
<1> DEFINE s == WifiHandles(t)
           a == Ask(Reachable(t), t)
<1>1. CASE t.wifi /\ Ended(t)
  <2>1. s = [t EXCEPT !.wifi = FALSE, !.handled = TRUE]
    BY <1>1 DEF WifiHandles
  <2>2. ~Started(t)
    BY <1>1
  <2> HIDE DEF s
  <2> QED BY <2>1, <2>2 DEF Infos, Goes, s
<1>2. CASE t.wifi /\ Moves(t)
  <2>1. ~Ended(t) /\ ~Started(t)
    BY <1>2 DEF Moves
  <2>2. s = [t EXCEPT !.handled = TRUE]
    BY <1>2, <2>1 DEF WifiHandles
  <2> HIDE DEF s
  <2> QED BY <2>1, <2>2 DEF Infos, Goes, s
<1>3. CASE ~(t.wifi /\ Ended(t)) /\ ~(t.wifi /\ Moves(t))
  <2>1. /\ Range(Reachable(t)) \subseteq Range(ButtonsOf(Wifi))
        /\ Range(ButtonsOf(Wifi)) \ WifiRect \subseteq Range(Reachable(t))
        /\ Range(ButtonsOf(Wifi)) \subseteq AnyButton
    <3>1. Range(ButtonsOf(Wifi)) = {<<"connect", 0>>, <<"pwd", 0>>}
      BY PageButtons
    <3>2. Range(<< <<"connect", 0>> >>) = {<<"connect", 0>>}
      <4>1. DOMAIN << <<"connect", 0>> >> = {1}
        OBVIOUS
      <4> QED BY <4>1 DEF Range
    <3> QED BY <3>1, <3>2 DEF Reachable, WifiRect, AnyButton, Lasting
  <2>2. /\ Goes(t, a, Reachable(t)) /\ a.ig = t.ig /\ a.history = t.history
        /\ a.handled <=> LiftedFrom(Reachable(t), t) # {}
        /\ ~a.handled => a.pressed = t.pressed \ Range(Reachable(t))
    <3>1. Range(Reachable(t)) \subseteq AnyButton
      BY <2>1
    <3> QED BY <3>1, AskDoes
  <2>3. LiftedFrom(Reachable(t), t) \subseteq LiftedFrom(ButtonsOf(Wifi), t)
    BY <2>1 DEF LiftedFrom
  <2>4. Goes(t, a, ButtonsOf(Wifi)) /\ (Started(a) <=> Started(t)) /\ a \in Infos
    BY <2>2, <2>3 DEF Goes, Started
  <2>5. ~a.handled => a.pressed \subseteq t.pressed
                      /\ a.pressed \cap (Range(ButtonsOf(Wifi)) \ WifiRect) = {}
    BY <2>1, <2>2
  <2>6. Started(t) => ~a.handled
    BY <2>2, NotLifted
  <2>7. s = IF ~a.handled /\ Moves(a) /\ a.cur \in WifiRect /\ a.steep
            THEN [a EXCEPT !.wifi = TRUE, !.handled = TRUE] ELSE a
    BY <1>3 DEF WifiHandles
  <2> HIDE DEF s, a
  <2>8. CASE ~a.handled /\ Moves(a) /\ a.cur \in WifiRect /\ a.steep
    <3>1. s = [a EXCEPT !.wifi = TRUE, !.handled = TRUE]
      BY <2>7, <2>8
    <3>2. ~Started(t)
      BY <2>4, <2>8 DEF Moves
    <3>3. /\ s \in Infos /\ s.last = a.last /\ s.cur = a.cur /\ s.pressed = a.pressed
          /\ s.ig = a.ig /\ s.history = a.history /\ s.handled = TRUE
      BY <2>4, <3>1 DEF Infos
    <3> QED BY <2>2, <2>4, <3>2, <3>3 DEF Goes, s
  <2>9. CASE ~(~a.handled /\ Moves(a) /\ a.cur \in WifiRect /\ a.steep)
    <3>1. s = a
      BY <2>7, <2>9
    <3> QED BY <2>2, <2>4, <2>5, <2>6, <3>1 DEF s
  <2> QED BY <2>8, <2>9
<1> QED BY <1>1, <1>2, <1>3

(* Who does not handle a touch has taken their presses from its buttons.   *)
LEMMA OrElseDoes ==
  ASSUME delete_buttons \in 0..MaxInverters, MaxInverters \in Nat,
         NEW t \in Infos, NEW p \in Pages, Started(t) => ~Ended(t)
  PROVE  LET s == OrElse(t, p)
         IN /\ Goes(t, s, ButtonsOf(p))
            /\ t.handled => s = t
            /\ p # Overview => s.ig = t.ig
            /\ p # History => s.history = t.history
            /\ ~s.handled => s.pressed \subseteq t.pressed
                             /\ s.pressed \cap (Range(ButtonsOf(p)) \ WifiRect) = {}
            /\ Started(t) /\ ~t.handled /\ p \in {Emm, Settings, Wifi} => ~s.handled
<1> DEFINE s == OrElse(t, p)
<1>1. CASE t.handled
  <2>1. s = t
    BY <1>1 DEF OrElse
  <2> HIDE DEF s
  <2> QED BY <1>1, <2>1 DEF Goes, s
<1>2. CASE ~t.handled
  <2>1. s = PageHandles(p, t) /\ delete_buttons \in Nat
    BY <1>2 DEF OrElse
  <2>2. CASE p = Overview
    <3>1. s = OverviewHandles(t) /\ Range(ButtonsOf(p)) = {}
      BY <2>1, <2>2, PageButtons DEF PageHandles
    <3>2. p \notin {Emm, Settings, Wifi} /\ p # History
      BY <2>2 DEF Overview, History, Emm, Settings, Wifi
    <3> HIDE DEF s
    <3> QED BY <1>2, <2>2, <3>1, <3>2, OverviewDoes DEF s
  <2>3. CASE p = History
    <3>1. s = HistoryHandles(t)
      BY <2>1, <2>3 DEF PageHandles, Overview, History, Wifi
    <3>2. p \notin {Emm, Settings, Wifi} /\ p # Overview
      BY <2>3 DEF Overview, History, Emm, Settings, Wifi
    <3> HIDE DEF s
    <3> QED BY <1>2, <2>1, <2>3, <3>1, <3>2, HistoryDoes DEF s
  <2>4. CASE p = Wifi
    <3>1. s = WifiHandles(t)
      BY <2>1, <2>4 DEF PageHandles, Overview, History, Wifi
    <3> HIDE DEF s
    <3> QED BY <1>2, <2>1, <2>4, <3>1, WifiDoes DEF s
  <2>5. CASE p \in {Emm, Settings}
    <3>1. s = Ask(ButtonsOf(p), t)
      BY <2>1, <2>5 DEF PageHandles, Overview, History, Wifi, Emm, Settings
    <3>2. Range(ButtonsOf(p)) \subseteq AnyButton
      <4>1. Deletes(delete_buttons) \subseteq Deletes(MaxInverters)
        BY DEF Deletes
      <4> QED BY <2>1, <2>5, <4>1, PageButtons DEF AnyButton, Lasting
    <3>3. Started(t) => LiftedFrom(ButtonsOf(p), t) = {}
      BY NotLifted
    <3> HIDE DEF s
    <3>4. /\ Goes(t, s, ButtonsOf(p)) /\ s.ig = t.ig /\ s.history = t.history
          /\ s.handled <=> LiftedFrom(ButtonsOf(p), t) # {}
          /\ ~s.handled => s.pressed = t.pressed \ Range(ButtonsOf(p))
      BY <3>1, <3>2, AskDoes
    <3> QED BY <1>2, <3>3, <3>4 DEF s
  <2> QED BY <2>2, <2>3, <2>4, <2>5 DEF Pages, Overview, History, Emm, Settings, Wifi
<1> QED BY <1>1, <1>2


-----------------------------------------------------------------------------
(* What all the pages leave of a touch.                                    *)
Armed == (pressed \cap Buttons) \ (WifiRect \cup outlived)
ArmedOf(presses) == (presses \cap Buttons) \ WifiRect

LEMMA PassDoes ==
  ASSUME delete_buttons \in 0..MaxInverters, MaxInverters \in Nat,
         NEW t \in Infos, ~t.handled, Started(t) => ~Ended(t)
  PROVE  LET r == Pass(t)
         IN /\ r \in Infos /\ r.cur = t.cur /\ r.last = t.last
            /\ r.pressed \subseteq t.pressed \cup {b \in Buttons : Ended(t) /\ b = t.last}
            /\ Started(t) /\ ~t.ig /\ ~t.history =>
                 /\ r.ig => t.cur = <<"ig_view", 0>>
                 /\ ~r.ig /\ ~r.history => ArmedOf(r.pressed) = {}
            /\ Moves(t) => /\ r.ig = t.ig /\ r.history = t.history
                           /\ t.ig \/ t.history => r.handled
            /\ Ended(t) => ~r.ig /\ ~r.history /\ (t.history => r.pressed = t.pressed)
            /\ ~r.handled => ArmedOf(r.pressed) = {}
<1> DEFINE a == OrElse(t, Overview)
           b == OrElse(a, History)
           c == OrElse(b, Emm)
           d == OrElse(c, Settings)
           r == OrElse(d, Wifi)
<1>1. /\ {Overview, History, Emm, Settings, Wifi} \subseteq Pages /\ Overview # History
      /\ Overview \notin {Emm, Settings, Wifi} /\ History \notin {Emm, Settings, Wifi}
  BY DEF Pages, Overview, History, Emm, Settings, Wifi
<1>2. /\ Goes(t, a, ButtonsOf(Overview))
      /\ a.history = t.history /\ a.pressed = t.pressed
      /\ Started(t) => /\ a.handled <=> t.cur = <<"ig_view", 0>>
                       /\ a.ig <=> t.ig \/ t.cur = <<"ig_view", 0>>
      /\ Moves(t) => a.ig = t.ig /\ (a.handled <=> t.ig)
      /\ Ended(t) => ~a.ig /\ ~a.handled
  <2>1. a = OverviewHandles(t)
    BY DEF OrElse, PageHandles, Overview, History, Wifi
  <2> HIDE DEF a
  <2> QED BY <2>1, OverviewDoes
<1>3. a \in Infos /\ a.last = t.last /\ a.cur = t.cur
  BY <1>2 DEF Goes
<1>4. /\ Started(a) <=> Started(t)
      /\ Ended(a) <=> Ended(t)
      /\ Moves(a) <=> Moves(t)
  BY <1>3 DEF Started, Ended, Moves
<1>5. /\ Goes(a, b, ButtonsOf(History)) /\ b.ig = a.ig
      /\ a.handled => b = a
      /\ ~b.handled => b.pressed \subseteq a.pressed
                       /\ b.pressed \cap (Range(ButtonsOf(History)) \ WifiRect) = {}
  BY <1>1, <1>3, <1>4, OrElseDoes
<1>6. ~a.handled => /\ Started(t) /\ ~t.history => (b.handled <=> b.history)
                    /\ Moves(t) => b.history = t.history /\ (t.history => b.handled)
                    /\ Ended(t) => ~b.history /\ (t.history => b.pressed = t.pressed /\ b.handled)
  <2>1. SUFFICES ASSUME ~a.handled
                 PROVE  /\ Started(t) /\ ~t.history => (b.handled <=> b.history)
                        /\ Moves(t) => b.history = t.history /\ (t.history => b.handled)
                        /\ Ended(t) => ~b.history /\ (t.history => b.pressed = t.pressed /\ b.handled)
    OBVIOUS
  <2> HIDE DEF a
  <2>2. b = HistoryHandles(a)
    BY <2>1 DEF OrElse, PageHandles, Overview, History, Wifi
  <2>3. delete_buttons \in Nat
    OBVIOUS
  <2>4. Ended(a) /\ a.history => b.handled
    BY <1>3, <2>2 DEF HistoryHandles, Infos
  <2> HIDE DEF b
  <2> QED BY <1>2, <1>3, <1>4, <2>1, <2>2, <2>3, <2>4, HistoryDoes
<1> HIDE DEF a, b
<1>7. b \in Infos /\ b.last = t.last /\ b.cur = t.cur
  BY <1>3, <1>5 DEF Goes
<1>8. Started(b) <=> Started(t)
  BY <1>7 DEF Started
<1>9. Ended(b) <=> Ended(t)
  BY <1>7 DEF Ended
<1>10. /\ Goes(b, c, ButtonsOf(Emm)) /\ c.ig = b.ig /\ c.history = b.history
       /\ b.handled => c = b
       /\ ~c.handled => c.pressed \subseteq b.pressed
                        /\ c.pressed \cap (Range(ButtonsOf(Emm)) \ WifiRect) = {}
       /\ Started(b) /\ ~b.handled => ~c.handled
  BY <1>1, <1>7, <1>8, <1>9, OrElseDoes
<1> HIDE DEF c
<1>11. c \in Infos /\ c.last = t.last /\ c.cur = t.cur
  BY <1>7, <1>10 DEF Goes
<1>12. (Started(c) <=> Started(t)) /\ (Ended(c) <=> Ended(t))
  BY <1>11 DEF Started, Ended
<1>13. /\ Goes(c, d, ButtonsOf(Settings)) /\ d.ig = c.ig /\ d.history = c.history
       /\ c.handled => d = c
       /\ ~d.handled => d.pressed \subseteq c.pressed
                        /\ d.pressed \cap (Range(ButtonsOf(Settings)) \ WifiRect) = {}
       /\ Started(c) /\ ~c.handled => ~d.handled
  BY <1>1, <1>11, <1>12, OrElseDoes
<1> HIDE DEF d
<1>14. d \in Infos /\ d.last = t.last /\ d.cur = t.cur
  BY <1>11, <1>13 DEF Goes
<1>15. (Started(d) <=> Started(t)) /\ (Ended(d) <=> Ended(t))
  BY <1>14 DEF Started, Ended
<1>16. /\ Goes(d, r, ButtonsOf(Wifi)) /\ r.ig = d.ig /\ r.history = d.history
       /\ d.handled => r = d
       /\ ~r.handled => r.pressed \subseteq d.pressed
                        /\ r.pressed \cap (Range(ButtonsOf(Wifi)) \ WifiRect) = {}
       /\ Started(d) /\ ~d.handled => ~r.handled
  BY <1>1, <1>14, <1>15, OrElseDoes
<1> HIDE DEF r
<1>17. r \in Infos /\ r.cur = t.cur /\ r.last = t.last
  BY <1>14, <1>16 DEF Goes
<1>18. r = Pass(t)
  BY DEF Pass, a, b, c, d, r
<1>19. r.pressed \subseteq t.pressed \cup {x \in Buttons : Ended(t) /\ x = t.last}
  <2> DEFINE new == {x \in Buttons : Ended(t) /\ x = t.last}
  <2>1. ASSUME NEW u, u.last = t.last, u.cur = t.cur, NEW p \in Pages
        PROVE  LiftedFrom(ButtonsOf(p), u) \subseteq new
    BY <2>1 DEF LiftedFrom, Ended, At, Buttons
  <2> HIDE DEF new
  <2>2. a.pressed \subseteq t.pressed \cup new
    BY <1>2
  <2>3. b.pressed \subseteq a.pressed \cup new
    BY <1>1, <1>3, <1>5, <2>1 DEF Goes
  <2>4. c.pressed \subseteq b.pressed \cup new
    BY <1>1, <1>7, <1>10, <2>1 DEF Goes
  <2>5. d.pressed \subseteq c.pressed \cup new
    BY <1>1, <1>11, <1>13, <2>1 DEF Goes
  <2>6. r.pressed \subseteq d.pressed \cup new
    BY <1>1, <1>14, <1>16, <2>1 DEF Goes
  <2> QED BY <2>2, <2>3, <2>4, <2>5, <2>6 DEF new
<1>20. ASSUME ~r.handled PROVE ArmedOf(r.pressed) = {}
  <2>1. ~d.handled
    BY <1>16, <1>20
  <2>2. ~c.handled
    BY <1>13, <2>1
  <2>3. ~b.handled
    BY <1>10, <2>2
  <2>4. r.pressed \subseteq d.pressed /\ d.pressed \subseteq c.pressed /\ c.pressed \subseteq b.pressed
    BY <1>10, <1>13, <1>16, <1>20, <2>1, <2>2
  <2>5. Buttons \subseteq Range(ButtonsOf(History)) \cup Range(ButtonsOf(Emm))
                            \cup Range(ButtonsOf(Settings)) \cup Range(ButtonsOf(Wifi))
    <3>1. delete_buttons \in Nat
      OBVIOUS
    <3> QED BY <3>1, ButtonsAre, PageButtons DEF Lasting
  <2> QED BY <1>5, <1>10, <1>13, <1>16, <1>20, <2>1, <2>2, <2>3, <2>4, <2>5 DEF ArmedOf
<1>21. ASSUME Started(t), ~t.ig, ~t.history
       PROVE  /\ r.ig => t.cur = <<"ig_view", 0>>
              /\ ~r.ig /\ ~r.history => ArmedOf(r.pressed) = {}
  <2>1. CASE a.handled
    BY <1>2, <1>5, <1>10, <1>13, <1>16, <1>21, <2>1
  <2>2. CASE ~a.handled /\ b.handled
    BY <1>2, <1>5, <1>6, <1>10, <1>13, <1>16, <1>21, <2>2
  <2>3. CASE ~a.handled /\ ~b.handled
    <3>1. ~c.handled /\ ~d.handled /\ ~r.handled
      BY <1>8, <1>10, <1>12, <1>13, <1>15, <1>16, <1>21, <2>3
    <3>2. ArmedOf(r.pressed) = {}
      BY <3>1, <1>20
    <3> QED BY <1>2, <1>5, <1>10, <1>13, <1>16, <1>21, <2>3, <3>2
  <2> QED BY <2>1, <2>2, <2>3
<1>22. ASSUME Moves(t)
       PROVE  r.ig = t.ig /\ r.history = t.history /\ (t.ig \/ t.history => r.handled)
  <2>1. r.ig = t.ig /\ r.history = t.history
    <3>1. b.history = t.history
      BY <1>2, <1>5, <1>6, <1>22
    <3> QED BY <1>2, <1>5, <1>10, <1>13, <1>16, <1>22, <3>1
  <2>2. t.ig \/ t.history => b.handled
    BY <1>2, <1>5, <1>6, <1>22
  <2> QED BY <1>10, <1>13, <1>16, <2>1, <2>2
<1>23. ASSUME Ended(t)
       PROVE  ~r.ig /\ ~r.history /\ (t.history => r.pressed = t.pressed)
  BY <1>2, <1>5, <1>6, <1>10, <1>13, <1>16, <1>23
<1> QED BY <1>17, <1>18, <1>19, <1>20, <1>21, <1>22, <1>23


-----------------------------------------------------------------------------
(* The inductive invariant, in parts.                                      *)
OneInView == cur_touch = None => \A p, q \in shown : p = q

(* Whoever drags the inverters has only the overview to leave the screen   *)
(* from.                                                                   *)
DragsOverview == drag_ig_view => /\ shown = {Overview}
                                 /\ cur_touch \in {<<"ig_view", 0>>, Blank}

(* A finger that is down has been offered to every page, or drags one.     *)
NothingArmed == cur_touch # None /\ ~drag_ig_view /\ ~drag_history_view => Armed = {}
OneArmed == \A a, b \in Armed : a = b

(* Only the settings page requests their storage, and it is drawn after    *)
(* requests have been served.                                              *)
RequestedLate == frame \in 1..4 /\ row = 0 => ~request_settings_store

(* A press is on a button, or has outlived it. *)
Outlives == \A b \in pressed : b[1] = "delete" => b \in Buttons \cup outlived

(* Each row that is still to be asked has an inverter of its own.          *)
RowsLeft == row \in 1..delete_buttons => delete_buttons - row < configured_inverters

(* configure does not wait behind a removal.                               *)
NotBehind == row > 0 /\ request_settings_store /\ <<"configure", 0>> \in pressed => exposed

IInv == /\ TypeOK /\ LiftEndsDrag /\ OneInView /\ DragsOverview /\ NothingArmed /\ OneArmed
        /\ RequestedLate /\ EditsAreStored /\ Outlives /\ RowsLeft /\ NotBehind

LEMMA Typed ==
  ASSUME TypeOK
  PROVE  /\ delete_buttons \in 0..MaxInverters /\ delete_buttons \in Nat /\ MaxInverters \in Nat
         /\ Buttons = Lasting \cup Deletes(delete_buttons) /\ Buttons \subseteq AnyButton
         /\ pressed \in SUBSET AnyButton /\ cur_touch \in AnyPlace
<1>1. delete_buttons \in 0..MaxInverters /\ MaxInverters \in Nat
  BY TouchAssumption DEF TypeOK, TouchTypeOK
<1>2. Buttons = Lasting \cup Deletes(delete_buttons)
  BY <1>1, ButtonsAre
<1>3. Deletes(delete_buttons) \subseteq Deletes(MaxInverters)
  BY <1>1 DEF Deletes
<1>4. Deletes(MaxInverters) = {Delete(i) : i \in 1..MaxInverters}
  BY DEF Deletes
<1> QED BY <1>1, <1>2, <1>3, <1>4 DEF TypeOK, TouchTypeOK, AnyButton, AnyPlace

(* What the touch task leaves to the display.                              *)
Aside == /\ exposed' = (exposed \/ PressedBehind)
         /\ outlived' = outlived \cap pressed'
         /\ UNCHANGED <<frame, row, configured_inverters, request_settings_store,
                        request_store_wifi, settings_stored, wifi_stored,
                        selected_pwd>>

LEMMA AsideKeeps ==
  ASSUME IInv, Aside, UNCHANGED delete_buttons, pressed' \subseteq pressed \cup Buttons
  PROVE  /\ RequestedLate' /\ EditsAreStored' /\ Outlives' /\ RowsLeft' /\ NotBehind'
         /\ Buttons' = Buttons
         /\ pressed' \subseteq Buttons' \cup {Delete(i) : i \in 1..MaxInverters}
         /\ frame' \in 0..5 /\ row' \in 0..(delete_buttons' + 1) /\ (row' > 0 => frame' = Settings)
         /\ configured_inverters' \in 0..MaxInverters
         /\ outlived' \subseteq {Delete(i) : i \in 1..MaxInverters}
         /\ {request_settings_store', request_store_wifi', settings_stored',
             wifi_stored', selected_pwd', exposed'} \subseteq BOOLEAN
         /\ Armed' = ArmedOf(pressed') \ outlived
<1>1. Buttons' = Buttons
  BY DEF Buttons, ButtonsOf
<1>2. TypeOK
  BY DEF IInv
<1>3. exposed' \in BOOLEAN /\ (exposed => exposed')
  BY DEF Aside
<1>4. RequestedLate' /\ RowsLeft'
  BY DEF IInv, Aside, RequestedLate, RowsLeft
<1>5. EditsAreStored'
  BY <1>3 DEF IInv, Aside, EditsAreStored
<1>6. Outlives'
  BY <1>1 DEF IInv, Aside, Outlives
<1>7. NotBehind'
  <2>1. PressedBehind => exposed'
    BY DEF Aside
  <2> QED BY <1>3, <2>1 DEF IInv, Aside, NotBehind, PressedBehind
<1>8. pressed' \subseteq Buttons' \cup {Delete(i) : i \in 1..MaxInverters}
  BY <1>1, <1>2 DEF TypeOK
<1>9. /\ frame' \in 0..5 /\ row' \in 0..(delete_buttons' + 1) /\ (row' > 0 => frame' = Settings)
      /\ configured_inverters' \in 0..MaxInverters
      /\ outlived' \subseteq {Delete(i) : i \in 1..MaxInverters}
  BY <1>2 DEF Aside, TypeOK
<1>10. {request_settings_store', request_store_wifi', settings_stored',
        wifi_stored', selected_pwd', exposed'} \subseteq BOOLEAN
  BY <1>2, <1>3 DEF Aside, TypeOK
<1>11. Armed' = ArmedOf(pressed') \ outlived
  BY <1>1 DEF Armed, ArmedOf, Aside
<1> QED BY <1>1, <1>4, <1>5, <1>6, <1>7, <1>8, <1>9, <1>10, <1>11

(* What every touch keeps, whatever the pages do with it.                  *)
LEMMA TouchKeeps ==
  ASSUME IInv, NEW r \in Infos, Left(r), Aside,
         r.pressed \subseteq pressed \cup {b \in Buttons : b = cur_touch},
         shown' # {}, shown' \subseteq Pages, \A p, q \in shown' : p - q \in {-1, 0, 1}
  PROVE  /\ TypeOK' /\ RequestedLate' /\ EditsAreStored' /\ Outlives' /\ RowsLeft' /\ NotBehind'
         /\ Armed' = ArmedOf(r.pressed) \ outlived
<1>1. /\ cur_touch' = r.cur /\ drag_ig_view' = r.ig /\ drag_history_view' = r.history
      /\ drag_wifi_view' = r.wifi /\ pressed' = r.pressed /\ delete_buttons' = delete_buttons
  BY DEF Left
<1>2. /\ RequestedLate' /\ EditsAreStored' /\ Outlives' /\ RowsLeft' /\ NotBehind'
      /\ Buttons' = Buttons
      /\ pressed' \subseteq Buttons' \cup {Delete(i) : i \in 1..MaxInverters}
      /\ frame' \in 0..5 /\ row' \in 0..(delete_buttons' + 1) /\ (row' > 0 => frame' = Settings)
      /\ configured_inverters' \in 0..MaxInverters
      /\ outlived' \subseteq {Delete(i) : i \in 1..MaxInverters}
      /\ {request_settings_store', request_store_wifi', settings_stored',
          wifi_stored', selected_pwd', exposed'} \subseteq BOOLEAN
      /\ Armed' = ArmedOf(pressed') \ outlived
  <2>1. pressed' \subseteq pressed \cup Buttons /\ UNCHANGED delete_buttons
    BY <1>1
  <2> QED BY <2>1, AsideKeeps
<1>3. TypeOK
  BY DEF IInv
<1>4. TouchTypeOK'
  <2>1. cur_touch' \in Buttons' \cup Views \cup {Blank, None}
                         \cup {Delete(i) : i \in 1..MaxInverters}
    BY <1>1, <1>2, <1>3, Typed DEF Infos, AnyPlace, AnyButton, Deletes
  <2>2. {drag_ig_view', drag_history_view', drag_wifi_view'} \subseteq BOOLEAN
    BY <1>1 DEF Infos
  <2>3. delete_buttons' \in 0..MaxInverters
    BY <1>1, <1>3, Typed
  <2> QED BY <2>1, <2>2, <2>3 DEF TouchTypeOK
<1>5. TypeOK'
  BY <1>2, <1>4 DEF TypeOK
<1> QED BY <1>1, <1>2, <1>5

(* What the finger is offered as.                                          *)
LEMMA InfoType ==
  ASSUME TypeOK, NEW c \in Places \cup {None}, NEW steep \in BOOLEAN
  PROVE  LET t == Info(c, steep)
         IN /\ t \in Infos /\ ~t.handled /\ t.last = cur_touch /\ t.cur = c
            /\ t.ig = drag_ig_view /\ t.history = drag_history_view /\ t.pressed = pressed
            /\ c \in Places => ~Ended(t)
            /\ Started(t) <=> cur_touch = None
            /\ Ended(t) <=> c = None
<1>1. c \in AnyPlace
  BY Typed DEF Places, AnyPlace
<1>2. c \in Places => c # None
  <2>1. \A b \in Buttons : b # None
    BY Typed DEF Lasting, Deletes, Delete, None
  <2>2. \A b \in Views \cup {Blank} : b # None
    BY DEF Views, Blank, None
  <2> QED BY <2>1, <2>2 DEF Places
<1>3. {drag_ig_view, drag_history_view, drag_wifi_view} \subseteq BOOLEAN
  BY DEF TypeOK, TouchTypeOK
<1>4. pressed \in SUBSET AnyButton /\ cur_touch \in AnyPlace
  BY Typed
<1> QED BY <1>1, <1>2, <1>3, <1>4 DEF Info, Infos, Ended, Started


LEMMA FingerKeeps ==
  ASSUME IInv, NEW c \in Places, TouchAt(c), Aside
  PROVE  IInv' /\ (shown' \subseteq shown \/ ArmedOf(pressed') = {})
<1>1. PICK steep \in BOOLEAN :
        LET t == Pass(Info(c, steep))
        IN /\ Left(t)
           /\ IF t.handled \/ Started(t) THEN UNCHANGED shown
              ELSE \/ UNCHANGED shown
                   \/ \E p \in shown : p + 1 \in Pages /\ shown' = {p, p + 1}
                   \/ \E p \in shown : p - 1 \in Pages /\ shown' = {p - 1, p}
                   \/ \E p \in shown : shown' = {p}
  BY DEF TouchAt
<1> DEFINE t == Info(c, steep)
           r == Pass(t)
<1>2. /\ Left(r)
      /\ r.handled => shown' = shown
      /\ Started(r) => shown' = shown
      /\ \/ shown' = shown
         \/ \E p \in shown : p + 1 \in Pages /\ shown' = {p, p + 1}
         \/ \E p \in shown : p - 1 \in Pages /\ shown' = {p - 1, p}
         \/ \E p \in shown : shown' = {p}
  BY <1>1
<1>3. TypeOK
  BY DEF IInv
<1>4. /\ t \in Infos /\ ~t.handled /\ t.last = cur_touch /\ t.cur = c /\ t.pressed = pressed
      /\ t.ig = drag_ig_view /\ t.history = drag_history_view /\ ~Ended(t)
      /\ Started(t) <=> cur_touch = None
  BY <1>3, InfoType
<1> HIDE DEF t
<1>5. /\ r \in Infos /\ r.cur = c /\ r.last = t.last
      /\ r.pressed \subseteq pressed \cup {b \in Buttons : Ended(t) /\ b = t.last}
      /\ Started(t) /\ ~t.ig /\ ~t.history =>
           /\ r.ig => c = <<"ig_view", 0>>
           /\ ~r.ig /\ ~r.history => ArmedOf(r.pressed) = {}
      /\ Moves(t) => /\ r.ig = t.ig /\ r.history = t.history
                     /\ t.ig \/ t.history => r.handled
      /\ ~r.handled => ArmedOf(r.pressed) = {}
  BY <1>3, <1>4, Typed, PassDoes
<1> HIDE DEF r
<1>6. r.pressed \subseteq pressed
  BY <1>4, <1>5
<1>7. /\ cur_touch' = c /\ drag_ig_view' = r.ig /\ drag_history_view' = r.history
      /\ c # None /\ pressed' = r.pressed
  BY <1>2, <1>4, <1>5 DEF Left, Ended
<1>8. /\ shown \subseteq Pages /\ shown # {} /\ \A p, q \in shown : p - q \in {-1, 0, 1}
      /\ Pages \subseteq Int
  BY <1>3 DEF TypeOK, TouchTypeOK, Pages
<1>9. shown' # {} /\ shown' \subseteq Pages /\ \A p, q \in shown' : p - q \in {-1, 0, 1}
  <2>1. CASE shown' = shown
    BY <1>8, <2>1
  <2>2. CASE \E p \in shown : p + 1 \in Pages /\ shown' = {p, p + 1}
    BY <1>8, <2>2
  <2>3. CASE \E p \in shown : p - 1 \in Pages /\ shown' = {p - 1, p}
    BY <1>8, <2>3
  <2>4. CASE \E p \in shown : shown' = {p}
    BY <1>8, <2>4
  <2> QED BY <1>2, <2>1, <2>2, <2>3, <2>4
<1>10. /\ TypeOK' /\ RequestedLate' /\ EditsAreStored' /\ Outlives' /\ RowsLeft' /\ NotBehind'
       /\ Armed' = ArmedOf(r.pressed) \ outlived
  BY <1>2, <1>5, <1>6, <1>9, TouchKeeps
<1>11. Armed' \subseteq Armed
  BY <1>6, <1>10 DEF Armed, ArmedOf
<1>12. OneArmed' /\ OneInView' /\ LiftEndsDrag'
  <2>1. OneArmed'
    BY <1>11 DEF IInv, OneArmed
  <2> QED BY <1>7, <2>1 DEF OneInView, LiftEndsDrag
<1>13. CASE cur_touch = None
  <2>1. Started(t) /\ ~t.ig /\ ~t.history
    BY <1>4, <1>13 DEF IInv, LiftEndsDrag
  <2>2. \A p, q \in shown : p = q
    BY <1>13 DEF IInv, OneInView
  <2>3. shown' = shown
    BY <1>2, <1>5, <2>1 DEF Started
  <2>4. DragsOverview'
    <3>1. SUFFICES ASSUME r.ig PROVE shown' = {Overview} /\ c \in {<<"ig_view", 0>>, Blank}
      BY <1>7 DEF DragsOverview
    <3>2. c = <<"ig_view", 0>>
      BY <1>5, <2>1, <3>1
    <3>3. c \in Views /\ PageOf(c) = Overview
      BY <1>3, <3>2, Typed, PageOfPlace DEF Views
    <3>4. PageOf(c) \in shown
      BY <3>2 DEF Places, Blank
    <3> QED BY <2>2, <2>3, <3>2, <3>3, <3>4
  <2>5. NothingArmed'
    BY <1>5, <1>7, <1>10, <2>1 DEF NothingArmed
  <2> QED BY <1>10, <1>12, <2>3, <2>4, <2>5 DEF IInv
<1>14. CASE cur_touch # None
  <2>1. Moves(t) /\ ~Started(t)
    BY <1>4, <1>14 DEF Moves
  <2>2. r.ig = t.ig /\ r.history = t.history /\ (t.ig \/ t.history => shown' = shown)
    BY <1>2, <1>5, <2>1
  <2>3. ~t.ig /\ ~t.history => Armed = {}
    BY <1>4, <1>14 DEF IInv, NothingArmed
  <2>4. DragsOverview'
    <3>1. SUFFICES ASSUME r.ig PROVE shown' = {Overview} /\ c \in {<<"ig_view", 0>>, Blank}
      BY <1>7 DEF DragsOverview
    <3>2. drag_ig_view
      BY <1>4, <2>2, <3>1
    <3>3. shown = {Overview}
      BY <3>2 DEF IInv, DragsOverview
    <3>4. c = Blank \/ (c \in Buttons \cup Views /\ PageOf(c) = Overview)
      BY <3>3 DEF Places
    <3> QED BY <1>3, <1>4, <2>2, <3>2, <3>3, <3>4, Typed, PageOfPlace
  <2>5. NothingArmed'
    BY <1>7, <1>11, <2>2, <2>3 DEF NothingArmed
  <2>6. shown' \subseteq shown \/ ArmedOf(pressed') = {}
    BY <1>2, <1>5, <1>7
  <2> QED BY <1>10, <1>12, <2>4, <2>5, <2>6 DEF IInv
<1> QED BY <1>13, <1>14

LEMMA LiftKeeps ==
  ASSUME IInv, Lift, Aside
  PROVE  IInv' /\ shown' \subseteq shown
<1>1. TypeOK
  BY DEF IInv
<1>2. PICK p \in shown : shown' = {p}
  BY DEF Lift
<1>3. /\ shown' # {} /\ shown' \subseteq Pages /\ \A x, y \in shown' : x - y \in {-1, 0, 1}
      /\ shown' \subseteq shown
  BY <1>1, <1>2 DEF TypeOK, TouchTypeOK, Pages
<1>4. CASE cur_touch = None
  <2>1. UNCHANGED <<cur_touch, drag_ig_view, drag_history_view, drag_wifi_view, pressed,
                    delete_buttons>>
    BY <1>4 DEF Lift
  <2>2. shown' = shown
    BY <1>2, <1>4 DEF IInv, OneInView
  <2>3. /\ RequestedLate' /\ EditsAreStored' /\ Outlives' /\ RowsLeft' /\ NotBehind'
        /\ Buttons' = Buttons
        /\ pressed' \subseteq Buttons' \cup {Delete(i) : i \in 1..MaxInverters}
        /\ frame' \in 0..5 /\ row' \in 0..(delete_buttons' + 1) /\ (row' > 0 => frame' = Settings)
        /\ configured_inverters' \in 0..MaxInverters
        /\ outlived' \subseteq {Delete(i) : i \in 1..MaxInverters}
        /\ {request_settings_store', request_store_wifi', settings_stored',
            wifi_stored', selected_pwd', exposed'} \subseteq BOOLEAN
        /\ Armed' = ArmedOf(pressed') \ outlived
    BY <2>1, AsideKeeps
  <2>4. TypeOK'
    BY <1>1, <2>1, <2>2, <2>3 DEF TypeOK, TouchTypeOK
  <2>5. Armed' \subseteq Armed
    BY <2>1, <2>3 DEF Armed, ArmedOf
  <2>6. LiftEndsDrag' /\ OneInView' /\ DragsOverview' /\ NothingArmed' /\ OneArmed'
    BY <2>1, <2>2, <2>5 DEF IInv, LiftEndsDrag, OneInView, DragsOverview, NothingArmed, OneArmed
  <2> QED BY <1>3, <2>3, <2>4, <2>6 DEF IInv
<1>5. CASE cur_touch # None
  <2> DEFINE t == Info(None, FALSE)
             r == Pass(t)
  <2>1. Left(r)
    BY <1>5 DEF Lift
  <2>2. /\ t \in Infos /\ ~t.handled /\ t.last = cur_touch /\ t.pressed = pressed /\ t.cur = None
        /\ t.ig = drag_ig_view /\ t.history = drag_history_view /\ ~Started(t) /\ Ended(t)
    BY <1>1, <1>5, InfoType
  <2> HIDE DEF t
  <2>3. /\ r \in Infos /\ r.cur = None /\ ~r.ig /\ ~r.history
        /\ r.pressed \subseteq pressed \cup {b \in Buttons : b = cur_touch}
        /\ drag_history_view => r.pressed = pressed
    BY <1>1, <2>2, Typed, PassDoes
  <2> HIDE DEF r
  <2>4. /\ TypeOK' /\ RequestedLate' /\ EditsAreStored' /\ Outlives' /\ RowsLeft' /\ NotBehind'
        /\ Armed' = ArmedOf(r.pressed) \ outlived
    BY <1>3, <2>1, <2>3, TouchKeeps
  <2>5. cur_touch' = None /\ ~drag_ig_view' /\ ~drag_history_view'
    BY <2>1, <2>3 DEF Left
  <2>6. LiftEndsDrag' /\ OneInView' /\ DragsOverview' /\ NothingArmed'
    BY <1>2, <2>5 DEF LiftEndsDrag, OneInView, DragsOverview, NothingArmed
  <2>7. OneArmed'
    <3>1. CASE drag_history_view
      BY <2>3, <2>4, <3>1 DEF IInv, OneArmed, Armed, ArmedOf
    <3>2. CASE ~drag_history_view /\ drag_ig_view
      <4>1. cur_touch \in {<<"ig_view", 0>>, Blank}
        BY <3>2 DEF IInv, DragsOverview
      <4>2. cur_touch \notin Buttons
        BY <1>1, <4>1, Typed DEF Lasting, Deletes, Delete, Blank
      <4>3. r.pressed \subseteq pressed
        BY <2>3, <4>2
      <4> QED BY <2>4, <4>3 DEF IInv, OneArmed, Armed, ArmedOf
    <3>3. CASE ~drag_history_view /\ ~drag_ig_view
      <4>1. Armed = {}
        BY <1>5, <3>3 DEF IInv, NothingArmed
      <4>2. Armed' \subseteq {cur_touch}
        BY <2>3, <2>4, <4>1 DEF Armed, ArmedOf
      <4> QED BY <4>2 DEF OneArmed
    <3> QED BY <3>1, <3>2, <3>3
  <2> QED BY <1>3, <2>4, <2>6, <2>7 DEF IInv
<1> QED BY <1>4, <1>5


-----------------------------------------------------------------------------
(* What the display does with the presses.                                 *)
LEMMA ButtonsAlways == delete_buttons \in Nat => Buttons = Lasting \cup Deletes(delete_buttons)
BY ButtonsAre

LEMMA ButtonsNext ==
  delete_buttons' \in Nat => Buttons' = Lasting \cup Deletes(delete_buttons')
<1>1. (delete_buttons \in Nat => Buttons = Lasting \cup Deletes(delete_buttons))'
  BY ButtonsAlways, PTL
<1> QED BY <1>1

(* No press is made by the display. *)
LEMMA PressesFade ==
  ASSUME IInv, UNCHANGED <<shown, cur_touch, drag_ig_view, drag_history_view>>,
         Armed' \subseteq Armed
  PROVE  LiftEndsDrag' /\ OneInView' /\ DragsOverview' /\ NothingArmed' /\ OneArmed'
BY DEF IInv, LiftEndsDrag, OneInView, DragsOverview, NothingArmed, OneArmed

(* Only the settings page is drawn row by row.                             *)
LEMMA ElsewhereNoRow == TypeOK /\ frame # Settings => row = 0
BY TouchAssumption DEF TypeOK, TouchTypeOK

LEMMA ServeKeeps ==
  ASSUME IInv, Serve
  PROVE  IInv'
<1>1. Buttons' = Buttons /\ UNCHANGED touch
  BY DEF Serve, Buttons, ButtonsOf, touch
<1>2. LiftEndsDrag' /\ OneInView' /\ DragsOverview' /\ NothingArmed' /\ OneArmed'
  <2>1. Armed' \subseteq Armed
    BY <1>1 DEF Armed, touch, Serve
  <2> QED BY <1>1, <2>1, PressesFade DEF touch
<1>3. row = 0 /\ row' = 0
  BY ElsewhereNoRow DEF IInv, Serve, Settings
<1>4. TypeOK'
  <2>1. TouchTypeOK' /\ pressed' \subseteq Buttons' \cup {Delete(i) : i \in 1..MaxInverters}
    BY <1>1 DEF IInv, TypeOK, TouchTypeOK, touch
  <2>2. frame' \in 0..5 /\ configured_inverters' \in 0..MaxInverters
    BY DEF IInv, TypeOK, Serve
  <2>3. /\ settings_stored' \in BOOLEAN /\ wifi_stored' \in BOOLEAN
        /\ request_settings_store' \in BOOLEAN /\ request_store_wifi' \in BOOLEAN
    BY DEF Serve
  <2>4. /\ selected_pwd' \in BOOLEAN /\ exposed' \in BOOLEAN
        /\ outlived' \subseteq {Delete(i) : i \in 1..MaxInverters}
    BY DEF IInv, TypeOK, Serve
  <2>5. row' \in 0..(delete_buttons' + 1) /\ ~(row' > 0)
    <3>1. delete_buttons \in Nat
      BY Typed DEF IInv
    <3>2. delete_buttons' = delete_buttons
      BY <1>1 DEF touch
    <3> QED BY <1>3, <3>1, <3>2
  <2>6. {request_settings_store', request_store_wifi', settings_stored',
         wifi_stored', selected_pwd', exposed'} \subseteq BOOLEAN
    BY <2>3, <2>4
  <2> QED BY <2>1, <2>2, <2>4, <2>5, <2>6 DEF TypeOK
<1>5. RequestedLate' /\ EditsAreStored' /\ RowsLeft' /\ NotBehind'
  <2>1. RequestedLate' /\ NotBehind'
    BY <1>3 DEF Serve, RequestedLate, NotBehind
  <2>2. EditsAreStored'
    BY DEF IInv, Serve, EditsAreStored
  <2>3. RowsLeft'
    BY <1>3 DEF RowsLeft
  <2> QED BY <2>1, <2>2, <2>3
<1>6. Outlives'
  BY <1>1 DEF IInv, Serve, Outlives, touch
<1> QED BY <1>2, <1>4, <1>5, <1>6 DEF IInv

(* A page that changes nothing but the presses of its buttons.             *)
LEMMA FrameGoesOn ==
  ASSUME IInv, NEW p \in Pages, frame = p, frame' = (p + 1) % 6, row = 0, row' = 0,
         UNCHANGED <<shown, cur_touch, drag_ig_view, drag_history_view, drag_wifi_view,
                     delete_buttons, state>>,
         pressed' \subseteq pressed
  PROVE  IInv'
<1>1. Buttons' = Buttons
  BY DEF Buttons, ButtonsOf
<1>2. LiftEndsDrag' /\ OneInView' /\ DragsOverview' /\ NothingArmed' /\ OneArmed'
  <2>1. Armed' \subseteq Armed
    BY <1>1 DEF Armed, state
  <2> QED BY <2>1, PressesFade
<1>3. frame' = IF p = 5 THEN 0 ELSE p + 1
  BY DEF Pages
<1>4. TypeOK'
  <2>1. TouchTypeOK'
    BY <1>1 DEF IInv, TypeOK, TouchTypeOK
  <2>2. pressed' \subseteq Buttons' \cup {Delete(i) : i \in 1..MaxInverters}
    BY <1>1 DEF IInv, TypeOK
  <2>3. frame' \in 0..5
    BY <1>3 DEF Pages
  <2>4. /\ configured_inverters' \in 0..MaxInverters
        /\ outlived' \subseteq {Delete(i) : i \in 1..MaxInverters}
        /\ {request_settings_store', request_store_wifi', settings_stored',
            wifi_stored', selected_pwd', exposed'} \subseteq BOOLEAN
    BY DEF IInv, TypeOK, state
  <2>5. row' \in 0..(delete_buttons' + 1)
    BY <2>1 DEF TouchTypeOK
  <2> QED BY <2>1, <2>2, <2>3, <2>4, <2>5 DEF TypeOK
<1>5. RequestedLate'
  <2>1. frame' \in 1..4 => frame \in 1..4
    BY <1>3 DEF Pages
  <2> QED BY <2>1 DEF IInv, RequestedLate, state
<1>6. EditsAreStored' /\ Outlives' /\ RowsLeft' /\ NotBehind'
  BY <1>1 DEF IInv, EditsAreStored, Outlives, RowsLeft, NotBehind, state
<1> QED BY <1>2, <1>4, <1>5, <1>6 DEF IInv

LEMMA DrawKeeps ==
  ASSUME IInv, NotInView \/ DrawOverview \/ DrawHistory \/ DrawEmm
  PROVE  IInv' /\ shown' = shown
<1>1. CASE NotInView
  <2>1. /\ frame \in Pages /\ frame' = (frame + 1) % 6 /\ UNCHANGED touch /\ UNCHANGED state
        /\ row = 0 /\ row' = 0
    BY <1>1 DEF NotInView
  <2>2. UNCHANGED <<shown, cur_touch, drag_ig_view, drag_history_view, drag_wifi_view,
                    delete_buttons, state>> /\ pressed' \subseteq pressed
    BY <2>1 DEF touch
  <2> QED BY <2>1, <2>2, FrameGoesOn
<1>2. CASE DrawOverview
  <2>1. Overview \in Pages /\ Overview # Settings
    BY DEF Overview, Settings, Pages
  <2> QED BY <1>2, <2>1, FrameGoesOn, ElsewhereNoRow DEF IInv, DrawOverview, Drawn
<1>3. CASE DrawHistory
  <2>1. History \in Pages /\ History # Settings
    BY DEF History, Settings, Pages
  <2>2. pressed' \subseteq pressed
    BY <1>3 DEF DrawHistory
  <2> QED BY <1>3, <2>1, <2>2, FrameGoesOn, ElsewhereNoRow DEF IInv, DrawHistory, Drawn
<1>4. CASE DrawEmm
  <2>1. Emm \in Pages /\ Emm # Settings
    BY DEF Emm, Settings, Pages
  <2>2. pressed' \subseteq pressed
    BY <1>4 DEF DrawEmm
  <2> QED BY <1>4, <2>1, <2>2, FrameGoesOn, ElsewhereNoRow DEF IInv, DrawEmm, Drawn
<1> QED BY <1>1, <1>2, <1>3, <1>4


LEMMA DrawWifiKeeps ==
  ASSUME IInv, DrawWifi
  PROVE  IInv' /\ shown' = shown
<1>1. /\ UNCHANGED <<shown, cur_touch, drag_ig_view, drag_history_view, drag_wifi_view>>
      /\ UNCHANGED <<delete_buttons, configured_inverters, request_settings_store,
                     settings_stored, outlived, exposed>>
      /\ pressed' \subseteq pressed
  BY DEF DrawWifi, Drawn
<1>2. frame = 5 /\ frame' = 0 /\ row = 0 /\ row' = 0
  BY ElsewhereNoRow DEF IInv, DrawWifi, Drawn, Wifi, Settings
<1>3. Buttons' = Buttons
  BY <1>1 DEF Buttons, ButtonsOf
<1>4. LiftEndsDrag' /\ OneInView' /\ DragsOverview' /\ NothingArmed' /\ OneArmed'
  <2>1. Armed' \subseteq Armed
    BY <1>1, <1>3 DEF Armed
  <2> QED BY <1>1, <2>1, PressesFade
<1>5. /\ selected_pwd' \in BOOLEAN /\ request_store_wifi' \in BOOLEAN /\ wifi_stored' \in BOOLEAN
      /\ wifi_stored' \/ request_store_wifi'
  <2> DEFINE connects == Hit(<<"connect", 0>>) /\ selected_pwd'
  <2>1. /\ selected_pwd' = (selected_pwd \/ Hit(<<"pwd", 0>>))
        /\ request_store_wifi' = (request_store_wifi \/ connects)
        /\ wifi_stored' = (wifi_stored /\ ~connects)
    BY DEF DrawWifi
  <2> HIDE DEF connects
  <2>2. wifi_stored \/ request_store_wifi
    BY DEF IInv, EditsAreStored
  <2>3. wifi_stored' \/ request_store_wifi'
    BY <2>1, <2>2
  <2>4. selected_pwd' \in BOOLEAN
    BY <2>1
  <2>5. request_store_wifi' \in BOOLEAN /\ wifi_stored' \in BOOLEAN
    BY <2>1
  <2> QED BY <2>3, <2>4, <2>5
<1>6. TypeOK'
  <2>1. TouchTypeOK'
    BY <1>1, <1>3 DEF IInv, TypeOK, TouchTypeOK
  <2>2. pressed' \subseteq Buttons' \cup {Delete(i) : i \in 1..MaxInverters}
    BY <1>1, <1>3 DEF IInv, TypeOK
  <2>3. frame' \in 0..5 /\ configured_inverters' \in 0..MaxInverters
    BY <1>1, <1>2 DEF IInv, TypeOK
  <2>4. /\ {request_settings_store', settings_stored', exposed'} \subseteq BOOLEAN
        /\ outlived' \subseteq {Delete(i) : i \in 1..MaxInverters}
    BY <1>1 DEF IInv, TypeOK
  <2>5. row' \in 0..(delete_buttons' + 1)
    <3>1. delete_buttons \in Nat
      BY Typed DEF IInv
    <3>2. delete_buttons' = delete_buttons
      BY <1>1
    <3> QED BY <1>2, <3>1, <3>2
  <2>6. ~(row' > 0)
    BY <1>2
  <2>7. {request_settings_store', request_store_wifi', settings_stored',
         wifi_stored', selected_pwd', exposed'} \subseteq BOOLEAN
    BY <1>5, <2>4
  <2> QED BY <2>1, <2>2, <2>3, <2>4, <2>5, <2>6, <2>7 DEF TypeOK
<1>7. RequestedLate' /\ EditsAreStored' /\ RowsLeft' /\ NotBehind'
  BY <1>1, <1>2, <1>5 DEF IInv, RequestedLate, EditsAreStored, RowsLeft, NotBehind
<1>8. Outlives'
  BY <1>1, <1>3 DEF IInv, Outlives
<1> QED BY <1>1, <1>4, <1>6, <1>7, <1>8 DEF IInv

(* What asking one button of the settings page leaves.                     *)
LEMMA AskedForKeeps ==
  ASSUME IInv, NEW b, AskedFor(b)
  PROVE  /\ LiftEndsDrag' /\ OneInView' /\ DragsOverview' /\ NothingArmed' /\ OneArmed'
         /\ Outlives' /\ TouchTypeOK' /\ Buttons' = Buttons
         /\ pressed' \subseteq Buttons' \cup {Delete(i) : i \in 1..MaxInverters}
         /\ outlived' \subseteq {Delete(i) : i \in 1..MaxInverters}
         /\ {request_store_wifi', wifi_stored', selected_pwd'} \subseteq BOOLEAN
<1>1. /\ UNCHANGED <<shown, cur_touch, drag_ig_view, drag_history_view, drag_wifi_view,
                     delete_buttons, request_store_wifi, wifi_stored, selected_pwd>>
      /\ pressed' = pressed \ {b} /\ outlived' = outlived \ {b}
  BY DEF AskedFor
<1>2. Buttons' = Buttons
  BY <1>1 DEF Buttons, ButtonsOf
<1>3. LiftEndsDrag' /\ OneInView' /\ DragsOverview' /\ NothingArmed' /\ OneArmed'
  <2>1. Armed' \subseteq Armed
    BY <1>1, <1>2 DEF Armed
  <2> QED BY <1>1, <2>1, PressesFade
<1>4. Outlives'
  BY <1>1, <1>2 DEF IInv, Outlives
<1>5. TypeOK
  BY DEF IInv
<1>6. TouchTypeOK'
  BY <1>1, <1>2, <1>5 DEF TypeOK, TouchTypeOK
<1>7. /\ pressed' \subseteq Buttons' \cup {Delete(i) : i \in 1..MaxInverters}
      /\ outlived' \subseteq {Delete(i) : i \in 1..MaxInverters}
  BY <1>1, <1>2, <1>5 DEF TypeOK
<1>8. {request_store_wifi', wifi_stored', selected_pwd'} \subseteq BOOLEAN
  BY <1>1, <1>5 DEF TypeOK
<1> QED BY <1>2, <1>3, <1>4, <1>6, <1>7, <1>8

LEMMA ListRowsKeeps ==
  ASSUME IInv, ListRows
  PROVE  IInv' /\ shown' = shown
<1>1. /\ UNCHANGED <<shown, cur_touch, drag_ig_view, drag_history_view, drag_wifi_view,
                     pressed, frame, configured_inverters, request_settings_store,
                     request_store_wifi, settings_stored, wifi_stored, selected_pwd,
                     exposed>>
      /\ frame = Settings /\ row = 0 /\ row' = 1
      /\ delete_buttons' = configured_inverters
      /\ outlived' = outlived \cup
           {b \in pressed : b[1] = "delete" /\ b[2] > configured_inverters}
  BY DEF ListRows
<1>2. TypeOK /\ MaxInverters \in Nat /\ configured_inverters \in 0..MaxInverters
      /\ configured_inverters \in Nat
  BY TouchAssumption DEF IInv, TypeOK
<1>3. Buttons' = Lasting \cup Deletes(configured_inverters)
  <2>1. delete_buttons' \in Nat
    BY <1>1, <1>2
  <2> QED BY <1>1, <2>1, ButtonsNext
<1>4. Lasting \subseteq Buttons
  BY <1>2, Typed
<1>5. \A b \in Lasting : b[1] # "delete"
  BY DEF Lasting
<1>6. ASSUME NEW b \in pressed, b[1] = "delete"
      PROVE  \E i \in 1..MaxInverters : b = Delete(i) /\ b[2] = i
  <2>1. b \in AnyButton
    BY <1>2, <1>6, Typed
  <2>2. b \in Deletes(MaxInverters)
    BY <1>5, <1>6, <2>1 DEF AnyButton
  <2> QED BY <2>2 DEF Deletes, Delete
<1>7. LiftEndsDrag' /\ OneInView' /\ DragsOverview' /\ NothingArmed' /\ OneArmed'
  <2>1. ASSUME NEW b \in Armed' PROVE b \in Armed
    <3>1. b \in pressed /\ b \in Buttons' /\ b \notin WifiRect /\ b \notin outlived
      BY <1>1, <2>1 DEF Armed
    <3>2. CASE b \in Lasting
      BY <1>4, <3>1, <3>2 DEF Armed
    <3>3. CASE b \in Deletes(configured_inverters)
      <4>1. b[1] = "delete"
        BY <3>3 DEF Deletes, Delete
      <4>2. b \in Buttons
        BY <3>1, <4>1 DEF IInv, Outlives
      <4> QED BY <3>1, <4>2 DEF Armed
    <3> QED BY <1>3, <3>1, <3>2, <3>3
  <2> QED BY <1>1, <2>1, PressesFade
<1>8. Outlives'
  <2>1. SUFFICES ASSUME NEW b \in pressed, b[1] = "delete" PROVE b \in Buttons' \cup outlived'
    BY <1>1 DEF Outlives
  <2>2. PICK i \in 1..MaxInverters : b = Delete(i) /\ b[2] = i
    BY <1>6, <2>1
  <2>3. CASE i > configured_inverters
    BY <1>1, <2>1, <2>2, <2>3
  <2>4. CASE ~(i > configured_inverters)
    <3>1. i \in 1..configured_inverters
      BY <1>2, <2>4
    <3> QED BY <1>3, <2>2, <3>1 DEF Deletes
  <2> QED BY <2>3, <2>4
<1>9. outlived' \subseteq {Delete(i) : i \in 1..MaxInverters}
  BY <1>1, <1>2, <1>6 DEF TypeOK
<1>10. TypeOK'
  <2>1. TouchTypeOK'
    <3>1. cur_touch' \in Buttons' \cup Views \cup {Blank, None}
                           \cup {Delete(i) : i \in 1..MaxInverters}
      BY <1>1, <1>2, <1>3, Typed DEF AnyPlace, AnyButton, Deletes
    <3>2. delete_buttons' \in 0..MaxInverters
      BY <1>1, <1>2
    <3> QED BY <1>1, <1>2, <3>1, <3>2 DEF TypeOK, TouchTypeOK
  <2>2. pressed' \subseteq Buttons' \cup {Delete(i) : i \in 1..MaxInverters}
    BY <1>1, <1>2, <1>3, Typed DEF AnyButton, Deletes
  <2>3. {request_settings_store', request_store_wifi', settings_stored',
         wifi_stored', selected_pwd', exposed'} \subseteq BOOLEAN
    BY <1>1, <1>2 DEF TypeOK
  <2>4. row' \in 0..(delete_buttons' + 1) /\ frame' = Settings /\ frame' \in 0..5
        /\ configured_inverters' \in 0..MaxInverters
    BY <1>1, <1>2 DEF Settings
  <2> QED BY <1>9, <2>1, <2>2, <2>3, <2>4 DEF TypeOK
<1>11. ~request_settings_store
  BY <1>1 DEF IInv, RequestedLate, Settings
<1>12. RequestedLate' /\ EditsAreStored' /\ NotBehind'
  BY <1>1, <1>11 DEF IInv, RequestedLate, EditsAreStored, NotBehind
<1>13. RowsLeft'
  BY <1>1, <1>2 DEF RowsLeft
<1> QED BY <1>1, <1>7, <1>8, <1>10, <1>12, <1>13 DEF IInv

(* A removal and configure do not meet in a frame by two presses, unless   *)
(* the one of the removal has outlived its row.                            *)
LEMMA ConfigureAlone ==
  ASSUME IInv, row \in 1..delete_buttons, Delete(row) \in pressed, Delete(row) \notin outlived
  PROVE  <<"configure", 0>> \notin pressed
<1>1. TypeOK
  BY DEF IInv
<1>2. Delete(row) \in Buttons /\ <<"configure", 0>> \in Buttons
  BY <1>1, Typed DEF Deletes, Lasting
<1>3. Delete(row) \in Armed
  BY <1>2 DEF Armed, WifiRect, Delete
<1>4. <<"configure", 0>> \notin WifiRect \cup outlived
  BY <1>1 DEF TypeOK, WifiRect, Delete
<1>5. Delete(row) # <<"configure", 0>>
  BY DEF Delete
<1> QED BY <1>2, <1>3, <1>4, <1>5 DEF IInv, OneArmed, Armed

LEMMA DrawRowKeeps ==
  ASSUME IInv, DrawRow
  PROVE  IInv' /\ shown' = shown
<1>1. /\ row \in 1..delete_buttons /\ row' = row + 1 /\ frame' = frame /\ frame = Settings
      /\ AskedFor(Delete(row)) /\ shown' = shown /\ delete_buttons' = delete_buttons
      /\ pressed' = pressed \ {Delete(row)}
      /\ request_store_wifi' = request_store_wifi /\ wifi_stored' = wifi_stored
  BY DEF DrawRow, AskedFor
<1>2. /\ LiftEndsDrag' /\ OneInView' /\ DragsOverview' /\ NothingArmed' /\ OneArmed'
      /\ Outlives' /\ TouchTypeOK' /\ Buttons' = Buttons
      /\ pressed' \subseteq Buttons' \cup {Delete(i) : i \in 1..MaxInverters}
      /\ outlived' \subseteq {Delete(i) : i \in 1..MaxInverters}
      /\ {request_store_wifi', wifi_stored', selected_pwd'} \subseteq BOOLEAN
  BY <1>1, AskedForKeeps
<1>3. TypeOK /\ delete_buttons \in Nat /\ MaxInverters \in Nat
      /\ configured_inverters \in 0..MaxInverters
  BY Typed DEF IInv, TypeOK
<1>4. delete_buttons - row < configured_inverters
  BY <1>1 DEF IInv, RowsLeft
<1>5. row' \in 0..(delete_buttons' + 1) /\ frame' \in 0..5
  BY <1>1, <1>3 DEF Settings
<1>6. RequestedLate'
  BY <1>1, <1>3 DEF RequestedLate
<1>7. CASE Delete(row) \in pressed
  <2>1. /\ configured_inverters' = configured_inverters - 1
        /\ request_settings_store' = TRUE /\ settings_stored' = FALSE
        /\ exposed' = (exposed \/ Delete(row) \in outlived)
    BY <1>7 DEF DrawRow, Hit
  <2>2. configured_inverters' \in 0..MaxInverters
    BY <1>1, <1>3, <1>4, <2>1
  <2>3. exposed' \in BOOLEAN
    BY <2>1
  <2>4. TypeOK'
    BY <1>1, <1>2, <1>5, <2>1, <2>2, <2>3 DEF TypeOK
  <2>5. EditsAreStored'
    BY <1>1, <2>1 DEF IInv, EditsAreStored
  <2>6. RowsLeft'
    BY <1>1, <1>3, <1>4, <2>1 DEF RowsLeft
  <2>7. NotBehind'
    <3>1. CASE Delete(row) \in outlived
      BY <2>1, <3>1 DEF NotBehind
    <3>2. CASE Delete(row) \notin outlived
      BY <1>1, <1>7, <3>2, ConfigureAlone DEF NotBehind
    <3> QED BY <3>1, <3>2
  <2> QED BY <1>1, <1>2, <1>6, <2>4, <2>5, <2>6, <2>7 DEF IInv
<1>8. CASE Delete(row) \notin pressed
  <2>1. UNCHANGED <<configured_inverters, request_settings_store, settings_stored, exposed>>
    BY <1>8 DEF DrawRow, Hit
  <2>2. TypeOK'
    BY <1>1, <1>2, <1>3, <1>5, <2>1 DEF TypeOK
  <2>3. EditsAreStored'
    BY <1>1, <2>1 DEF IInv, EditsAreStored
  <2>4. RowsLeft'
    BY <1>1, <1>3, <1>4, <2>1 DEF RowsLeft
  <2>5. NotBehind'
    BY <1>1, <1>3, <2>1 DEF IInv, NotBehind
  <2> QED BY <1>1, <1>2, <1>6, <2>2, <2>3, <2>4, <2>5 DEF IInv
<1> QED BY <1>7, <1>8

LEMMA DrawConfigureKeeps ==
  ASSUME IInv, DrawConfigure
  PROVE  IInv' /\ shown' = shown
<1>1. /\ row = delete_buttons + 1 /\ row' = 0 /\ frame' = 5
      /\ AskedFor(<<"configure", 0>>) /\ shown' = shown /\ delete_buttons' = delete_buttons
      /\ request_store_wifi' = request_store_wifi /\ wifi_stored' = wifi_stored
      /\ exposed' = exposed
  BY DEF DrawConfigure, AskedFor, Wifi
<1>2. /\ LiftEndsDrag' /\ OneInView' /\ DragsOverview' /\ NothingArmed' /\ OneArmed'
      /\ Outlives' /\ TouchTypeOK' /\ Buttons' = Buttons
      /\ pressed' \subseteq Buttons' \cup {Delete(i) : i \in 1..MaxInverters}
      /\ outlived' \subseteq {Delete(i) : i \in 1..MaxInverters}
      /\ {request_store_wifi', wifi_stored', selected_pwd'} \subseteq BOOLEAN
  BY <1>1, AskedForKeeps
<1>3. /\ TypeOK /\ delete_buttons \in Nat /\ MaxInverters \in Nat
      /\ configured_inverters \in 0..MaxInverters
      /\ {request_settings_store, settings_stored, exposed} \subseteq BOOLEAN
  BY Typed DEF IInv, TypeOK
<1>4. RequestedLate' /\ RowsLeft' /\ NotBehind'
  BY <1>1, <1>3 DEF RequestedLate, RowsLeft, NotBehind
<1>5. /\ configured_inverters' \in 0..MaxInverters
      /\ request_settings_store' \in BOOLEAN /\ settings_stored' \in BOOLEAN
      /\ settings_stored' \/ request_settings_store' \/ exposed
  <2>1. settings_stored \/ request_settings_store \/ exposed
    BY DEF IInv, EditsAreStored
  <2>2. CASE UNCHANGED <<configured_inverters, request_settings_store, settings_stored>>
    BY <1>3, <2>1, <2>2
  <2>3. CASE <<"configure", 0>> \in pressed /\ Configure
    <3>1. CASE /\ configured_inverters' = Push(configured_inverters)
               /\ request_settings_store' = TRUE /\ settings_stored' = FALSE
      <4>1. configured_inverters' \in 0..MaxInverters
        BY <1>3, <3>1 DEF Push
      <4> QED BY <3>1, <4>1
    <3>2. CASE \E other \in BOOLEAN :
                 /\ request_settings_store' = other
                 /\ settings_stored' = (settings_stored /\ ~other)
                 /\ UNCHANGED configured_inverters
      <4>1. PICK other \in BOOLEAN :
              /\ request_settings_store' = other
              /\ settings_stored' = (settings_stored /\ ~other)
              /\ UNCHANGED configured_inverters
        BY <3>2
      <4>2. request_settings_store => exposed
        BY <1>1, <1>3, <2>3 DEF IInv, NotBehind
      <4>3. CASE other
        BY <1>3, <4>1, <4>3
      <4>4. CASE ~other
        BY <1>3, <2>1, <4>1, <4>2, <4>4
      <4> QED BY <4>3, <4>4
    <3> QED BY <2>2, <2>3, <3>1, <3>2 DEF Configure
  <2> QED BY <2>2, <2>3 DEF DrawConfigure, Hit
<1>6. TypeOK'
  <2>1. row' \in 0..(delete_buttons' + 1) /\ frame' \in 0..5 /\ ~(row' > 0)
    BY <1>1, <1>3
  <2> QED BY <1>1, <1>2, <1>3, <1>5, <2>1 DEF TypeOK
<1>7. EditsAreStored'
  BY <1>1, <1>5 DEF IInv, EditsAreStored
<1> QED BY <1>1, <1>2, <1>4, <1>6, <1>7 DEF IInv

LEMMA UsbSetKeeps ==
  ASSUME IInv, UsbSet
  PROVE  IInv' /\ shown' = shown
<1>1. /\ UNCHANGED <<touch, frame, row, request_settings_store, request_store_wifi,
                     settings_stored, wifi_stored, selected_pwd, outlived, exposed>>
      /\ configured_inverters' = Push(configured_inverters)
  BY DEF UsbSet
<1>2. Buttons' = Buttons
  BY <1>1 DEF Buttons, ButtonsOf, touch
<1>3. configured_inverters' \in 0..MaxInverters
  BY <1>1, TouchAssumption DEF IInv, TypeOK, Push
<1>4. TypeOK'
  <2>1. TouchTypeOK' /\ pressed' \subseteq Buttons' \cup {Delete(i) : i \in 1..MaxInverters}
    BY <1>1, <1>2 DEF IInv, TypeOK, TouchTypeOK, touch
  <2>2. frame' \in 0..5 /\ row' \in 0..(delete_buttons' + 1) /\ (row' > 0 => frame' = Settings)
    BY <1>1 DEF IInv, TypeOK, touch
  <2>3. /\ outlived' \subseteq {Delete(i) : i \in 1..MaxInverters}
        /\ {request_settings_store', request_store_wifi', settings_stored',
            wifi_stored', selected_pwd', exposed'} \subseteq BOOLEAN
    BY <1>1 DEF IInv, TypeOK
  <2> QED BY <1>3, <2>1, <2>2, <2>3 DEF TypeOK
<1>5. LiftEndsDrag' /\ OneInView' /\ DragsOverview' /\ NothingArmed' /\ OneArmed'
  <2>1. Armed' \subseteq Armed
    BY <1>1, <1>2 DEF Armed, touch
  <2> QED BY <1>1, <2>1, PressesFade DEF touch
<1>6. RequestedLate' /\ EditsAreStored' /\ Outlives' /\ NotBehind'
  BY <1>1, <1>2 DEF IInv, RequestedLate, EditsAreStored, Outlives, NotBehind, touch
<1>7. RowsLeft'
  <2>1. configured_inverters' >= configured_inverters
    BY <1>1, TouchAssumption DEF IInv, TypeOK, Push
  <2>2. /\ delete_buttons' = delete_buttons /\ row' = row
        /\ delete_buttons \in Nat /\ configured_inverters \in Nat /\ row \in Nat
    BY <1>1, Typed DEF IInv, TypeOK, touch
  <2> QED BY <1>3, <2>1, <2>2, TouchAssumption DEF IInv, RowsLeft
<1> QED BY <1>1, <1>4, <1>5, <1>6, <1>7 DEF IInv, touch


-----------------------------------------------------------------------------
LEMMA InitHolds == Init => IInv
<1> SUFFICES ASSUME Init PROVE IInv
  OBVIOUS
<1>1. /\ shown = {Overview} /\ cur_touch = None /\ drag_ig_view = FALSE
      /\ drag_history_view = FALSE /\ drag_wifi_view = FALSE /\ pressed = {}
      /\ delete_buttons = 0
  BY DEF Init, TouchInit
<1>2. TypeOK
  <2>1. TouchTypeOK
    <3>1. {drag_ig_view, drag_history_view, drag_wifi_view} \subseteq BOOLEAN
      BY <1>1
    <3>2. shown # {} /\ shown \subseteq Pages /\ \A p, q \in shown : p - q \in {-1, 0, 1}
      BY <1>1 DEF Pages, Overview
    <3>3. cur_touch \in {Blank, None} /\ delete_buttons \in 0..MaxInverters
      BY <1>1, TouchAssumption
    <3> QED BY <3>1, <3>2, <3>3 DEF TouchTypeOK
  <2>2. {request_settings_store, request_store_wifi, settings_stored, wifi_stored,
         selected_pwd, exposed} \subseteq BOOLEAN
    BY DEF Init
  <2>3. /\ frame \in 0..5 /\ configured_inverters \in 0..MaxInverters
        /\ row \in 0..(delete_buttons + 1) /\ ~(row > 0) /\ outlived = {}
    BY <1>1 DEF Init
  <2>4. pressed \subseteq Buttons
    BY <1>1
  <2> QED BY <2>1, <2>2, <2>3, <2>4 DEF TypeOK
<1>3. Armed = {}
  BY <1>1 DEF Armed
<1>4. LiftEndsDrag /\ OneInView /\ DragsOverview /\ NothingArmed /\ OneArmed /\ Outlives
  BY <1>1, <1>3 DEF LiftEndsDrag, OneInView, DragsOverview, NothingArmed, OneArmed, Outlives
<1>5. RequestedLate /\ EditsAreStored /\ RowsLeft /\ NotBehind
  BY DEF Init, RequestedLate, EditsAreStored, RowsLeft, NotBehind
<1> QED BY <1>2, <1>4, <1>5 DEF IInv

(* A page comes into view only with no button pressed. *)
LEMMA StepKeeps ==
  IInv /\ [Next]_vars => IInv' /\ (shown' \subseteq shown \/ ArmedOf(pressed') = {})
<1> SUFFICES ASSUME IInv, [Next]_vars
             PROVE  IInv' /\ (shown' \subseteq shown \/ ArmedOf(pressed') = {})
  OBVIOUS
<1>1. CASE DisplayTask
  <2>1. CASE Serve
    BY <2>1, ServeKeeps DEF Serve, touch
  <2>2. CASE NotInView \/ DrawOverview \/ DrawHistory \/ DrawEmm
    BY <2>2, DrawKeeps
  <2>3. CASE ListRows
    BY <2>3, ListRowsKeeps
  <2>4. CASE DrawRow
    BY <2>4, DrawRowKeeps
  <2>5. CASE DrawConfigure
    BY <2>5, DrawConfigureKeeps
  <2>6. CASE DrawWifi
    BY <2>6, DrawWifiKeeps
  <2> QED BY <1>1, <2>1, <2>2, <2>3, <2>4, <2>5, <2>6 DEF DisplayTask
<1>2. CASE Touched
  <2>1. Aside /\ TouchTask
    BY <1>2 DEF Touched, Aside
  <2>2. CASE Lift
    BY <2>1, <2>2, LiftKeeps
  <2>3. CASE \E c \in Places : TouchAt(c)
    BY <2>1, <2>3, FingerKeeps
  <2> QED BY <2>1, <2>2, <2>3 DEF TouchTask
<1>3. CASE UsbSet
  BY <1>3, UsbSetKeeps
<1>4. CASE UNCHANGED vars
  <2>1. Buttons' = Buttons /\ Armed' = Armed
    BY <1>4 DEF Armed, Buttons, ButtonsOf, vars, touch, state
  <2>2. TypeOK'
    BY <1>4, <2>1 DEF IInv, TypeOK, TouchTypeOK, vars, touch, state
  <2> QED BY <1>4, <2>1, <2>2 DEF IInv, LiftEndsDrag, OneInView, DragsOverview, NothingArmed,
       OneArmed, RequestedLate, EditsAreStored, Outlives, RowsLeft, NotBehind, vars, touch, state
<1> QED BY <1>1, <1>2, <1>3, <1>4 DEF Next

LEMMA AtMostOne == IInv => OnePressAtATime
<1> SUFFICES ASSUME IInv PROVE Cardinality(Armed) <= 1
  BY DEF OnePressAtATime, Armed
<1>1. CASE Armed = {}
  BY <1>1, FS_EmptySet
<1>2. CASE Armed # {}
  <2>1. PICK b \in Armed : TRUE
    BY <1>2
  <2>2. Armed = {b}
    BY <2>1 DEF IInv, OneArmed
  <2>3. Cardinality({b}) = 1
    BY FS_Singleton
  <2> QED BY <2>2, <2>3
<1> QED BY <1>1, <1>2

(* Types of the display, with no more rows than there may be inverters.    *)
THEOREM TypeCorrect == Spec => []TypeOK
<1>1. IInv => TypeOK
  BY DEF IInv
<1> QED BY <1>1, InitHolds, StepKeeps, PTL DEF Spec

(* Of the buttons that do something, at most one is pressed when a page is *)
(* drawn, however often the touch task has run since the last frame; but   *)
(* for those rows that have come back with an earlier press.               *)
THEOREM OnePress == Spec => []OnePressAtATime
<1> QED BY AtMostOne, InitHolds, StepKeeps, PTL DEF Spec

(* The flags of display_task lose no request to store what was edited,     *)
(* with the touch task between any two buttons of the settings page: but   *)
(* for a removal that configure comes behind in the same frame.            *)
THEOREM EditsStored == Spec => []EditsAreStored
<1>1. IInv => EditsAreStored
  BY DEF IInv
<1> QED BY <1>1, InitHolds, StepKeeps, PTL DEF Spec

(* drag_ig_view and drag_history_view are reset when the finger leaves.    *)
THEOREM DragEnds == Spec => []LiftEndsDrag
<1>1. IInv => LiftEndsDrag
  BY DEF IInv
<1> QED BY <1>1, InitHolds, StepKeeps, PTL DEF Spec

(* No page comes into view with a button pressed that it is still going to *)
(* act on.                                                                 *)
THEOREM PressNotKept == Spec => PressIsNotKept
<1>1. IInv /\ [Next]_vars =>
        [\A b \in (pressed \cap pressed' \cap Buttons) \ WifiRect :
           PageOf(b) \in shown' => PageOf(b) \in shown]_vars
  BY StepKeeps DEF ArmedOf
<1> QED BY <1>1, InitHolds, StepKeeps, PTL DEF Spec, PressIsNotKept


=============================================================================
