-------------------------------- MODULE Touch --------------------------------
(***************************************************************************)
(* touchscreen_task (src/src/main.cpp) and the handle_touch_input of the   *)
(* pages (src/src/draw.cpp).  Every 50 ms the task looks where the finger  *)
(* is and offers it to one page after the other, until one has handled it; *)
(* what nobody handles turns the page.  A button that the finger leaves    *)
(* the screen on is pressed, and stays so until the display draws it.      *)
(*                                                                         *)
(* A place is where a finger can be: one of the buttons, a view that can   *)
(* be dragged, or "blank".  While a page is turned two are in view.  A     *)
(* button that is HOVERED is as good as one in state NONE.                 *)
(***************************************************************************)
EXTENDS Integers, FiniteSets, Sequences, Functions

CONSTANT MaxInverters

ASSUME TouchAssumption == MaxInverters \in Nat

VARIABLES shown,           (* the pages in view, from page_offset             *)
          cur_touch,       (* the place of the finger, or "none"              *)
          drag_ig_view, drag_history_view, drag_wifi_view,
          pressed,         (* the buttons in state PRESSED                    *)
          delete_buttons   (* how many of them there are                      *)

touch == <<shown, cur_touch, drag_ig_view, drag_history_view, drag_wifi_view,
           pressed, delete_buttons>>

Pages == 1..5
Overview == 1  History == 2  Emm == 3  Settings == 4  Wifi == 5

Delete(i) == <<"delete", i>>

(* The buttons in the order in which their pages ask them.  One stands for *)
(* those of a kind.                                                        *)
ButtonsOf(p) ==
  CASE p = History  -> << <<"second", 0>>, <<"minute", 0>> >>
    [] p = Emm      -> << <<"invert_meter", 0>> >>
    [] p = Settings -> [i \in 1..delete_buttons |-> Delete(i)]
                         \o << <<"configure", 0>> >>
    [] p = Wifi     -> << <<"connect", 0>>, <<"pwd", 0>> >>
    [] OTHER        -> << >>

Buttons == UNION {Range(ButtonsOf(p)) : p \in Pages}

PageOf(b) == CASE b[1] \in {"ig_view"} -> Overview
               [] b[1] \in {"second", "minute", "plot"} -> History
               [] b[1] = "invert_meter" -> Emm
               [] b[1] \in {"delete", "configure"} -> Settings
               [] b[1] \in {"connect", "pwd", "list"} -> Wifi

Views == {<<"ig_view", 0>>, <<"plot", 0>>, <<"list", 0>>}

(* WIFI_RECT: the list, with the fields of the passwords in it. *)
WifiRect == {<<"list", 0>>, <<"pwd", 0>>}

None == <<"none", 0>>
Blank == <<"blank", 0>>

TouchInit == /\ shown = {Overview} /\ cur_touch = None
             /\ drag_ig_view = FALSE /\ drag_history_view = FALSE
             /\ drag_wifi_view = FALSE
             /\ pressed = {} /\ delete_buttons = 0

-----------------------------------------------------------------------------
(* What the pages find: t.last and t.cur, started and ended; and what they *)
(* leave: who drags, what is pressed, and whether it is handled.           *)
Started(t) == t.last = None
Ended(t) == t.cur = None
Moves(t) == ~Started(t) /\ ~Ended(t)
At(t) == IF Ended(t) THEN t.last ELSE t.cur

(* The button that the finger leaves the screen on, if it is one of these. *)
LiftedFrom(buttons, t) == {b \in Range(buttons) : Ended(t) /\ b = At(t)}

(* One button is asked after the other, until one has handled it.          *)
Asked(buttons, t) ==
  {buttons[i] : i \in {i \in DOMAIN buttons :
                         \A j \in 1..(i - 1) : buttons[j] \notin LiftedFrom(buttons, t)}}

(* Mutant of Ask: a button keeps its press until it is drawn.              *)
AskKeeping(buttons, t) ==
  [t EXCEPT !.pressed = @ \cup LiftedFrom(buttons, t), !.handled = LiftedFrom(buttons, t) # {}]

(* Button::handle_touch_input: who is asked is pressed or loses its press. *)
Ask(buttons, t) ==
  [t EXCEPT !.pressed = (@ \ Asked(buttons, t)) \cup LiftedFrom(buttons, t),
            !.handled = LiftedFrom(buttons, t) # {}]

OverviewHandles(t) ==
  IF Started(t) /\ t.cur = <<"ig_view", 0>>
  THEN [t EXCEPT !.ig = TRUE, !.handled = TRUE]
  ELSE IF Ended(t) THEN [t EXCEPT !.ig = FALSE]
  ELSE [t EXCEPT !.handled = t.ig /\ Moves(t)]

(* Mutant of HistoryHandles: the end of the drag is left to the others.    *)
HistoryHandlesMove(t) ==
  IF t.history /\ Moves(t) THEN [t EXCEPT !.handled = TRUE]
  ELSE LET s == Ask(ButtonsOf(History), t)
       IN IF ~s.handled /\ Started(s) /\ s.cur = <<"plot", 0>>
          THEN [s EXCEPT !.history = TRUE, !.handled = TRUE] ELSE s

HistoryHandles(t) ==
  IF t.history /\ Ended(t) THEN [t EXCEPT !.history = FALSE, !.handled = TRUE]
  ELSE IF t.history /\ Moves(t) THEN [t EXCEPT !.handled = TRUE]
  ELSE LET s == Ask(ButtonsOf(History), t)
       IN IF ~s.handled /\ Started(s) /\ s.cur = <<"plot", 0>>
          THEN [s EXCEPT !.history = TRUE, !.handled = TRUE] ELSE s

(* A password is asked only if the finger was in the list before. *)
Reachable(t) == IF t.last \in WifiRect THEN ButtonsOf(Wifi) ELSE << <<"connect", 0>> >>

WifiHandles(t) ==
  IF t.wifi /\ Ended(t) THEN [t EXCEPT !.wifi = FALSE, !.handled = TRUE]
  ELSE IF t.wifi /\ Moves(t) THEN [t EXCEPT !.handled = TRUE]
  ELSE LET s == Ask(Reachable(t), t)
       IN IF ~s.handled /\ Moves(s) /\ s.cur \in WifiRect /\ s.steep
          THEN [s EXCEPT !.wifi = TRUE, !.handled = TRUE] ELSE s

PageHandles(p, t) ==
  CASE p = Overview -> OverviewHandles(t)
    [] p = History -> HistoryHandles(t)
    [] p = Wifi -> WifiHandles(t)
    [] OTHER -> Ask(ButtonsOf(p), t)

(* handle_touch_pages *)
OrElse(t, p) == IF t.handled THEN t ELSE PageHandles(p, t)
Pass(t) ==
  OrElse(OrElse(OrElse(OrElse(OrElse(t, Overview), History), Emm), Settings), Wifi)

(* The touch info of the finger at place c, that moved up or down. *)
Info(c, steep) ==
  [last |-> cur_touch, cur |-> c, steep |-> steep, handled |-> FALSE,
   ig |-> drag_ig_view, history |-> drag_history_view, wifi |-> drag_wifi_view,
   pressed |-> pressed]

Left(t) == /\ cur_touch' = t.cur
           /\ drag_ig_view' = t.ig /\ drag_history_view' = t.history
           /\ drag_wifi_view' = t.wifi /\ pressed' = t.pressed
           /\ UNCHANGED delete_buttons

-----------------------------------------------------------------------------
Places == {c \in Buttons \cup Views : PageOf(c) \in shown} \cup {Blank}

(* The finger lies on place c. *)
TouchAt(c) ==
  \E steep \in BOOLEAN :
    LET t == Pass(Info(c, steep))
    IN /\ Left(t)
       /\ IF t.handled \/ Started(t) THEN UNCHANGED shown
          ELSE \/ UNCHANGED shown
               \/ \E p \in shown : p + 1 \in Pages /\ shown' = {p, p + 1}
               \/ \E p \in shown : p - 1 \in Pages /\ shown' = {p - 1, p}
               \/ \E p \in shown : shown' = {p}

(* Nobody touches the screen: after the end of a touch has been handled,   *)
(* one page is in view.                                                    *)
Lift ==
  /\ IF cur_touch = None THEN UNCHANGED <<cur_touch, drag_ig_view,
            drag_history_view, drag_wifi_view, pressed, delete_buttons>>
     ELSE Left(Pass(Info(None, FALSE)))
  /\ \E p \in shown : shown' = {p}

TouchTask == Lift \/ \E c \in Places : TouchAt(c)

TouchTypeOK ==
  /\ shown # {} /\ shown \subseteq Pages
  /\ \A p, q \in shown : p - q \in {-1, 0, 1}
  /\ cur_touch \in Buttons \cup Views \cup {Blank, None}
                 \cup {Delete(i) : i \in 1..MaxInverters}
  /\ {drag_ig_view, drag_history_view, drag_wifi_view} \subseteq BOOLEAN
  /\ delete_buttons \in 0..MaxInverters
=============================================================================
