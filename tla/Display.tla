------------------------------- MODULE Display -------------------------------
(***************************************************************************)
(* display_task (src/src/main.cpp) with the pages it draws                 *)
(* (src/src/draw.cpp), against touchscreen_task, module Touch, and the     *)
(* USB commands.  A page that is drawn asks its buttons whether they are   *)
(* pressed and does what they are for: settings and credentials change and *)
(* a flag requests their storage, which the next frame begins with.        *)
(*                                                                         *)
(* The touch task runs between any two steps of a frame, and so between    *)
(* the buttons of the settings page, which are asked one by one.  Which    *)
(* pages a frame draws is left open: their place lags behind the one that  *)
(* touches are offered at (cur_page_offset), so that a page may be drawn   *)
(* after the finger has left it, and be passed while it is touched.        *)
(*                                                                         *)
(* The buttons of rows that are gone keep their presses (`outlived' has    *)
(* those that did).  Configure may take back the request of a removal in   *)
(* the same frame if it is pressed behind it, or if the removal was for    *)
(* such a press (`exposed' says that there has been a removal like that).  *)
(*                                                                         *)
(* The inverters are their number, and the flash is whether it has what    *)
(* was last edited on the pages.  found_ips of the runtime state is always *)
(* empty (nothing adds to it), and nothing sets request_settings_load.     *)
(***************************************************************************)
EXTENDS Touch

VARIABLES frame,                  (* the page drawn next; 0, before the first  *)
          row,                    (* the row of the settings asked next, one   *)
                                  (* more than the rows for configure; 0,      *)
                                  (* before the page                           *)
          configured_inverters,
          request_settings_store, request_store_wifi,
          settings_stored, wifi_stored,
          selected_pwd,           (* is a field of a password selected         *)
          outlived,               (* the presses that have outlived their row  *)
          exposed                 (* may a removal lose its request            *)

state == <<configured_inverters, request_settings_store, request_store_wifi,
           settings_stored, wifi_stored, selected_pwd, outlived, exposed>>
vars == <<touch, frame, row, state>>

Init == /\ TouchInit
        /\ frame = 0 /\ row = 0 /\ configured_inverters \in 0..MaxInverters
        /\ request_settings_store = FALSE /\ request_store_wifi = FALSE
        /\ settings_stored = TRUE /\ wifi_stored = TRUE
        /\ selected_pwd = FALSE /\ outlived = {} /\ exposed = FALSE

-----------------------------------------------------------------------------
(* Mutant of Serve: both are served by the first of the flags.             *)
ServeFirst ==
  /\ frame = 0 /\ frame' = 1
  /\ settings_stored' = (settings_stored \/ request_settings_store)
  /\ wifi_stored' = (wifi_stored \/ (request_store_wifi /\ ~request_settings_store))
  /\ request_settings_store' = FALSE /\ request_store_wifi' = FALSE
  /\ exposed' = (exposed /\ ~request_settings_store)
  /\ UNCHANGED <<touch, row, configured_inverters, selected_pwd, outlived>>

(* The beginning of a frame. *)
Serve ==
  /\ frame = 0 /\ frame' = 1
  /\ settings_stored' = (settings_stored \/ request_settings_store)
  /\ wifi_stored' = (wifi_stored \/ request_store_wifi)
  /\ request_settings_store' = FALSE /\ request_store_wifi' = FALSE
  /\ exposed' = (exposed /\ ~request_settings_store)
  /\ UNCHANGED <<touch, row, configured_inverters, selected_pwd, outlived>>

Hit(b) == b \in pressed

(* The page in turn is drawn; the buttons it draws are asked and are no    *)
(* longer pressed.                                                         *)
Drawn(p) == /\ frame = p /\ frame' = (p + 1) % 6
            /\ UNCHANGED <<shown, cur_touch, drag_ig_view, drag_history_view,
                           drag_wifi_view, row>>

NotInView == /\ frame \in Pages /\ row = 0 /\ frame' = (frame + 1) % 6
             /\ UNCHANGED <<touch, row, state>>

(* The choice of a history, and the inverted meter of the energy manager:  *)
(* nothing of it is stored.                                                *)
DrawOverview == /\ Drawn(Overview)
                /\ UNCHANGED <<pressed, delete_buttons, state>>

DrawHistory == /\ Drawn(History)
               /\ pressed' = pressed \ Range(ButtonsOf(History))
               /\ UNCHANGED <<delete_buttons, state>>

DrawEmm == /\ Drawn(Emm)
           /\ pressed' = pressed \ Range(ButtonsOf(Emm))
           /\ UNCHANGED <<delete_buttons, state>>

(* The settings page asks a button: it is no longer pressed.               *)
AskedFor(b) == /\ frame = Settings /\ pressed' = pressed \ {b}
               /\ UNCHANGED <<shown, cur_touch, drag_ig_view, drag_history_view,
                              drag_wifi_view, delete_buttons, request_store_wifi,
                              wifi_stored, selected_pwd>>
               /\ outlived' = outlived \ {b}

(* There is to be a button for each inverter.  (Those that the USB adds    *)
(* until the loop over them begins are counted as later ones.)             *)
ListRows ==
  /\ frame = Settings /\ row = 0 /\ row' = 1
  /\ delete_buttons' = configured_inverters
  /\ outlived' = outlived \cup
       {b \in pressed : b[1] = "delete" /\ b[2] > configured_inverters}
  /\ UNCHANGED <<shown, cur_touch, drag_ig_view, drag_history_view, drag_wifi_view,
                 pressed, frame, configured_inverters, request_settings_store,
                 request_store_wifi, settings_stored, wifi_stored, selected_pwd,
                 exposed>>

(* One row is drawn, and its inverter removed if its button was pressed.   *)
DrawRow ==
  /\ row \in 1..delete_buttons /\ row' = row + 1
  /\ AskedFor(Delete(row)) /\ UNCHANGED frame
  /\ IF Hit(Delete(row))
     THEN /\ configured_inverters' = configured_inverters - 1       (* remove_addr *)
          /\ request_settings_store' = TRUE /\ settings_stored' = FALSE
          /\ exposed' = (exposed \/ Delete(row) \in outlived)
     ELSE UNCHANGED <<configured_inverters, request_settings_store, settings_stored,
                      exposed>>

(* Mutant of Push: the vector grows without a look at its capacity.        *)
PushUnchecked(n) == n + 1
Push(n) == IF n = MaxInverters THEN n ELSE n + 1

(* configure_button adds an inverter, if there is room and it is new; or   *)
(* sets the meter, and requests to store exactly if that is another one.   *)
Configure ==
  \/ /\ configured_inverters' = Push(configured_inverters)
     /\ configured_inverters' # configured_inverters
     /\ request_settings_store' = TRUE /\ settings_stored' = FALSE
  \/ UNCHANGED <<configured_inverters,             (* known, or no room        *)
                 request_settings_store, settings_stored>>
  \/ \E other \in BOOLEAN :                        (* the meter                *)
       /\ request_settings_store' = other
       /\ settings_stored' = (settings_stored /\ ~other)
       /\ UNCHANGED configured_inverters

DrawConfigure ==
  /\ row = delete_buttons + 1 /\ row' = 0 /\ frame' = Wifi
  /\ AskedFor(<<"configure", 0>>) /\ UNCHANGED exposed
  /\ IF Hit(<<"configure", 0>>) THEN Configure
     ELSE UNCHANGED <<configured_inverters, request_settings_store, settings_stored>>

DrawWifi ==
  /\ Drawn(Wifi)
  /\ selected_pwd' = (selected_pwd \/ Hit(<<"pwd", 0>>))
  /\ LET connects == Hit(<<"connect", 0>>) /\ selected_pwd'
     IN /\ request_store_wifi' = (request_store_wifi \/ connects)
        /\ wifi_stored' = (wifi_stored /\ ~connects)
  /\ pressed' = pressed \ Range(ButtonsOf(Wifi))
  /\ UNCHANGED <<delete_buttons, configured_inverters, request_settings_store,
                 settings_stored, outlived, exposed>>

DisplayTask == \/ Serve \/ NotInView
               \/ DrawOverview \/ DrawHistory \/ DrawEmm \/ DrawWifi
               \/ ListRows \/ DrawRow \/ DrawConfigure

(* `set configure_inverter' of the USB commands: one more inverter, and    *)
(* nobody is asked to store it.                                            *)
UsbSet == /\ configured_inverters' = Push(configured_inverters)
          /\ UNCHANGED <<touch, frame, row, request_settings_store, request_store_wifi,
                         settings_stored, wifi_stored, selected_pwd, outlived,
                         exposed>>

(* configure is pressed behind a removal whose request is still pending.   *)
PressedBehind == /\ row > 0 /\ request_settings_store
                 /\ <<"configure", 0>> \in pressed' \ pressed

(* touchscreen_task, between any two steps of the others. *)
Touched == /\ TouchTask
           /\ exposed' = (exposed \/ PressedBehind)
           /\ outlived' = outlived \cap pressed'
           /\ UNCHANGED <<frame, row, configured_inverters, request_settings_store,
                          request_store_wifi, settings_stored, wifi_stored,
                          selected_pwd>>

Next == \/ DisplayTask
        \/ Touched
        \/ UsbSet

Spec == Init /\ [][Next]_vars

-----------------------------------------------------------------------------
TypeOK == /\ TouchTypeOK
          /\ pressed \subseteq Buttons \cup {Delete(i) : i \in 1..MaxInverters}
          /\ frame \in 0..5 /\ row \in 0..(delete_buttons + 1)
          /\ row > 0 => frame = Settings
          /\ outlived \subseteq {Delete(i) : i \in 1..MaxInverters}
          /\ configured_inverters \in 0..MaxInverters
          /\ {request_settings_store, request_store_wifi, settings_stored,
              wifi_stored, selected_pwd, exposed} \subseteq BOOLEAN

(* However fast the finger and however slow the display, two buttons are   *)
(* never pressed at once: two removals in one frame would find the list    *)
(* already rearranged, and configure would take back the request of a      *)
(* removal (draw.cpp 881).  Exempt are the fields of the passwords, which  *)
(* only select themselves (the start of a touch does not reach them), and  *)
(* the rows that have come back with the press of an earlier one.          *)
OnePressAtATime ==
  Cardinality((pressed \cap Buttons) \ (WifiRect \cup outlived)) <= 1

(* What was edited on the pages is in the flash, or its storage is         *)
(* requested: no request is reset before it is served.  Exempt is, until   *)
(* the next request is served, a removal that configure may come behind in *)
(* the same frame: pressed while the page is drawn, or with the press of   *)
(* an earlier row.                                                         *)
EditsAreStored ==
  /\ settings_stored \/ request_settings_store \/ exposed
  /\ wifi_stored \/ request_store_wifi

(* A view is dragged only while the finger is down.  (The list of networks *)
(* is exempt: a page before it may have handled the end of the touch.)     *)
LiftEndsDrag == cur_touch = None => ~drag_ig_view /\ ~drag_history_view

(* A press that its page left the view with is not carried out when the    *)
(* page comes back.                                                        *)
PressIsNotKept ==
  [][\A b \in (pressed \cap pressed' \cap Buttons) \ WifiRect :
        PageOf(b) \in shown' => PageOf(b) \in shown]_vars
=============================================================================
