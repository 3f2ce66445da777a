--------------------------- MODULE GamePiBrightness ---------------------------
(***************************************************************************)
(* The brightness of the GamePi's display: GamePiBrightnessModule of       *)
(* modules/interface/gamepi_brightness.py, the handlers of the web server, *)
(* and the process that listens to the keys, of scripts/.  The level is    *)
(* kept in a file and, where the kernel has one, in a backlight device.  A *)
(* file that was written has a new modification time.  Both can be         *)
(* written, and the status commands answer.                                *)
(***************************************************************************)
EXTENDS Integers

CONSTANT Dimmest, Brightest

ASSUME LightAssumption == Dimmest \in Nat /\ Brightest \in Nat /\ Dimmest <= Brightest

VARIABLES
  light,  \* the backlight device if there is one, the file, and whether the file's
          \* time is another than the one that the module remembers
  keys,   \* the keys' process: its next step and the level that it sets
  app,    \* what brightness_set or an adjustment sets, if it is under way; whether
          \* refresh() is between its publication and its look at the file
  shown   \* gamepi.brightness of the store; stale: the file's time was remembered
          \* with a level that was not published

lightVars == <<light, keys, app, shown>>

Levels0 == Dimmest .. Brightest
Clamp(n) == IF n < Dimmest THEN Dimmest ELSE IF n > Brightest THEN Brightest ELSE n

\* brightness_status()
Level(l) == IF l.sysfs THEN l.device ELSE l.file

LightInit ==
  \E s \in BOOLEAN, n \in Levels0 :
    /\ light = [sysfs |-> s, device |-> n, file |-> n, new |-> FALSE]
    /\ keys = [pc |-> "idle", level |-> n]
    /\ app = [sets |-> FALSE, level |-> n, refreshing |-> FALSE]
    /\ shown = [level |-> n, stale |-> FALSE]

LightTypeOK ==
  /\ light \in [sysfs : BOOLEAN, device : Levels0, file : Levels0, new : BOOLEAN]
  /\ keys \in [pc : {"idle", "apply", "store", "notify"}, level : Levels0]
  /\ app \in [sets : BOOLEAN, level : Levels0, refreshing : BOOLEAN]
  /\ shown \in [level : Levels0, stale : BOOLEAN]

\* publish_brightness_to_store() with what a command said, or with the status
Published(n) == shown' = [level |-> n, stale |-> FALSE]
PublishStatus == Published(Level(light))

BacklightSet(n) == light' = [light EXCEPT !.device = n]
Stored(n) == light' = [light EXCEPT !.file = n, !.new = TRUE]

-----------------------------------------------------------------------------
(* adjust_brightness() in the keys' process, in any order with the service. *)

KeyPressed(delta) ==
  /\ keys.pc = "idle"
  /\ keys' = [pc |-> "apply", level |-> Clamp(light.file + delta)]
  /\ UNCHANGED <<light, app, shown>>

KeyApplies ==
  /\ keys.pc = "apply" /\ BacklightSet(keys.level)
  /\ keys' = [keys EXCEPT !.pc = "store"]
  /\ UNCHANGED <<app, shown>>

KeyStores ==
  /\ keys.pc = "store" /\ Stored(keys.level)
  /\ keys' = [keys EXCEPT !.pc = "notify"]
  /\ UNCHANGED <<app, shown>>

\* notify_midijuggler_refresh() and its handler, unless the service does not answer
KeyNotifies(answered) ==
  /\ keys.pc = "notify" /\ ~app.sets
  /\ keys' = [keys EXCEPT !.pc = "idle"]
  /\ IF answered THEN PublishStatus ELSE UNCHANGED shown
  /\ UNCHANGED <<light, app>>

-----------------------------------------------------------------------------
(* The service: what it sets, it sets without an await.                     *)

Sets(n) == app' = [app EXCEPT !.sets = TRUE, !.level = n] /\ BacklightSet(n)

\* _on_brightness_set()
BrightnessSet(n) ==
  /\ ~app.sets /\ n # shown.level
  /\ Sets(n)
  /\ UNCHANGED <<keys, shown>>

\* gamepi_brightness_adjust()
WebAdjusts(delta) ==
  /\ ~app.sets
  /\ Sets(Clamp(light.file + delta))
  /\ UNCHANGED <<keys, shown>>

AppStores ==
  /\ app.sets
  /\ Stored(app.level) /\ Published(app.level)
  /\ app' = [app EXCEPT !.sets = FALSE]
  /\ UNCHANGED keys

\* slip: the time is remembered and the level left as it is
OnlyRemember == light' = [light EXCEPT !.new = FALSE] /\ UNCHANGED <<app, shown>>

\* _poll_mtime(), and refresh() up to the handlers of the value
RefreshBrightness ==
  /\ light' = [light EXCEPT !.new = FALSE] /\ PublishStatus
  /\ app' = [app EXCEPT !.refreshing = TRUE]

Poll == light.new /\ ~app.sets /\ ~app.refreshing /\ RefreshBrightness /\ UNCHANGED keys

\* the end of refresh()
LookAtFile ==
  /\ app.refreshing /\ ~app.sets
  /\ light' = [light EXCEPT !.new = FALSE]
  /\ shown' = [shown EXCEPT !.stale = @ \/ (light.new /\ shown.level # Level(light))]
  /\ app' = [app EXCEPT !.refreshing = FALSE]
  /\ UNCHANGED keys

LightRuns ==
  KeyApplies \/ KeyStores \/ KeyNotifies(TRUE) \/ AppStores \/ Poll \/ LookAtFile

LightWorld ==
  \/ \E delta \in {-1, 1} : KeyPressed(delta) \/ WebAdjusts(delta)
  \/ \E n \in Levels0 : BrightnessSet(n)
  \/ KeyNotifies(FALSE)

LightSpec == LightInit /\ [][LightRuns \/ LightWorld]_lightVars /\ WF_lightVars(LightRuns)

-----------------------------------------------------------------------------
\* Whenever the store does not show the level of the display, something is about to tell
\* it: the file has a time that was not looked at, or a write of the file is due; with the
\* exception of BrightnessIsShown (_poll_mtime(), refresh(), adjust_brightness()).
BrightnessWillBeTold ==
  \/ shown.level = Level(light) \/ shown.stale
  \/ light.new \/ app.sets \/ keys.pc = "store"

\* The store comes to show the level of the display, whoever set it and in whatever order;
\* excepted is a write between refresh()'s publication and its look at the file when the
\* service does not answer the writer (_poll_mtime(), gamepi_brightness_refresh()).
BrightnessIsShown ==
  <>[](shown.level = Level(light) \/ (shown.stale /\ keys.pc = "idle"))
=============================================================================
