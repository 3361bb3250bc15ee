-------------------------------- MODULE Window ---------------------------------
(***************************************************************************)
(* Window.cpp and IconLoader.cpp: the windows of a program, of which one   *)
(* hears of the XSETTINGS, and the icons of the widgets in them.  Both are *)
(* kept in globals that every window sets up and tears down.               *)
(***************************************************************************)
EXTENDS Naturals, Sequences, FiniteSets, SequencesExt, Selection

CONSTANTS
  Wins,      \* Window objects
  Widgets,
  Icons,     \* an icon name together with its size
  Contexts,  \* what IconTheme looks for an icon among
  Files,     \* those of Icons that Fl_Shared_Image can open as they are
  Fallback,  \* fallback_icon, in the size of an icon
  Themes,
  Default,   \* IconTheme::default_theme_name()
  Has,       \* the icons that are found in a theme, and in which contexts
  Colors,    \* values of the setting "Fltk/Background"
  Gray,      \* FL_GRAY
  None

ASSUME WindowAssumption ==
  /\ Files \subseteq Icons /\ Fallback \in [Icons -> Icons \ Files] /\ Default \in Themes
  /\ Has \in [Themes -> SUBSET (Icons \X Contexts)]
  /\ None \notin Colors \cup {Gray} \cup Wins \cup Widgets \cup Themes
  /\ None \notin Icons \X Contexts /\ None \notin Themes \X Icons \X Contexts

VARIABLES
  windows,    \* those that are open
  closed,     \* those that are destroyed
  xcli,       \* whose client xevent_handler() uses
  knows,      \* the setting that this client has
  seen_theme, \* with "freed" when what it points to is
  loader,     \* IconLoader::pinstance
  image,      \* the image of each widget that is promised one; nothing
              \* depends on those of the others, which are None here
  living,     \* widgets that are not deleted
  setting,    \* "Fltk/Background", as the manager has it, or None
  event,      \* whether the notice of a change waits in the X connection
  background, \* Fl::background()
  running,    \* FALSE when the program has ended
  promised,   \* history: the icon that a widget is to follow the theme with,
              \* see Follows, or None
  late,       \* history: whether init() has loaded another theme into a loader
              \* that was there, and nobody has reloaded it since
  orphaned    \* history: whether the window that hears of the settings was closed,
              \* or replaced while a change waited

windowVars == <<windows, closed, xcli, knows, seen_theme, loader, image, living, setting, event,
                background, running, promised, late, orphaned>>
loaderVars == <<loader, image, promised, late, living>>
clientVars == <<xcli, knows, setting, event, background, orphaned>>

Item == [name : Icons, context : Contexts, path : Themes \cup {None}, widget : Widgets \cup {None}]

(* An icon out of a theme.                                                 *)
Image == Themes \X Icons \X Contexts

NoLoader == [theme |-> None, items |-> <<>>]
inited   == loader.theme # None

WindowInit ==
  /\ windows = {} /\ closed = {} /\ xcli = None /\ knows = None /\ seen_theme = [theme |-> None, freed |-> FALSE]
  /\ loader = NoLoader /\ living = Widgets
  /\ image = [g \in Widgets |-> None] /\ promised = [g \in Widgets |-> None] /\ late = FALSE
  /\ setting = None /\ event = FALSE /\ background = Gray
  /\ running = TRUE /\ orphaned = FALSE
-------------------------------------------------------------------------------
(* IconLoader                                                              *)
find_icon(theme, i, context) == IF <<i, context>> \in Has[theme] THEN theme ELSE None

(* The context is not compared.                                            *)
find_item(items, i) == {k \in DOMAIN items : items[k].name = i}

(* Mutant: an item for each call.                                          *)
create_item(items, i, context, theme, g) ==
  Append(items, [name |-> i, context |-> context, path |-> find_icon(theme, i, context), widget |-> g])

get_or_create_item(items, i, context, theme, g) ==
  IF find_item(items, i) # {} THEN items
  ELSE Append(items, [name |-> i, context |-> context, path |-> find_icon(theme, i, context), widget |-> g])

ImageOf(item) == IF item.path = None THEN None ELSE <<item.path, item.name, item.context>>

(* The image of an item that is there, if it can be loaded.                *)
Loaded(items, i) == {ImageOf(items[k]) : k \in {l \in find_item(items, i) : items[l].path # None}}

ItemsOf(items, g) == {k \in DOMAIN items : items[k].widget = g}

(* The item of the icon has an image and was made for this widget, for no  *)
(* other before it, and in this context; and the widget is not that of     *)
(* another item.                                                           *)
Follows(items, g, i, context) ==
  /\ Loaded(items, i) # {}
  /\ ItemsOf(items, g) = find_item(items, i)
  /\ \A k \in find_item(items, i) : items[k].context = context

(* E_ASSERT in instance()                                                  *)
NoInstance == ~inited /\ running' = FALSE /\ UNCHANGED loaderVars

(* IconLoader::set()                                                       *)
SetFile(g) ==
  /\ inited
  /\ promised' = [promised EXCEPT ![g] = None] /\ image' = [image EXCEPT ![g] = None]
  /\ UNCHANGED <<loader, running, living, late>>

SetThemed(g, i, context) ==
  /\ inited
  /\ \E items \in {get_or_create_item(loader.items, i, context, loader.theme, g)} :
       loader' = [loader EXCEPT !.items =
         IF Loaded(items, i) # {} THEN items
         ELSE get_or_create_item(items, Fallback[i], context, loader.theme, g)]
  /\ IF Follows(loader'.items, g, i, context)
       THEN /\ promised' = [promised EXCEPT ![g] = <<i, context>>]
            /\ image' = [image EXCEPT ![g] = CHOOSE img \in Loaded(loader'.items, i) : TRUE]
       ELSE promised' = [promised EXCEPT ![g] = None] /\ image' = [image EXCEPT ![g] = None]
  /\ UNCHANGED <<running, living, late>>

SetIcon(g, i, context) ==
  /\ running /\ g \in living
  /\ NoInstance \/ (IF i \in Files THEN SetFile(g) ELSE SetThemed(g, i, context))
  /\ UNCHANGED <<windows, closed, seen_theme, clientVars>>

(* IconLoader::get(), and IconLoader::get_path() when load is FALSE        *)
GetItem(i, context, load) ==
  /\ inited /\ i \notin Files
  /\ \E items \in {get_or_create_item(loader.items, i, context, loader.theme, None)} :
       loader' = [loader EXCEPT !.items =
         IF load /\ Loaded(items, i) = {}
           THEN get_or_create_item(items, Fallback[i], context, loader.theme, None)
           ELSE items]
  /\ UNCHANGED <<image, promised, living, late, running>>

GetIcon(i, context, load) ==
  /\ running
  /\ NoInstance \/ GetItem(i, context, load)
  /\ UNCHANGED <<windows, closed, seen_theme, clientVars>>

Renewed(theme) ==
  [k \in DOMAIN loader.items |->
    [loader.items[k] EXCEPT !.path = find_icon(theme, loader.items[k].name, loader.items[k].context)]]

ImageShown(items, g) ==
  IF promised[g] = None \/ ItemsOf(items, g) = {} THEN image[g] ELSE ImageOf(items[Max(ItemsOf(items, g))])

(* Mutant: the image is fetched before the path is renewed.                *)
ReloadedLate(theme) ==
  LET shown == UNION {ItemsOf(loader.items, g) : g \in Widgets} IN
  /\ loader' = [theme |-> theme, items |-> Renewed(theme)]
  /\ image' = [g \in Widgets |-> ImageShown(loader.items, g)]
  /\ running' \in IF \E k \in shown : loader.items[k].widget \notin living THEN BOOLEAN ELSE {TRUE}
  /\ late' = FALSE

(* load_theme() and reload_icons().  Each widget gets the image of the last*)
(* item it belongs to; a widget that was deleted is written to all the     *)
(* same, which ends the program or does not.                               *)
Reloaded(theme) ==
  LET shown == UNION {ItemsOf(loader.items, g) : g \in Widgets} IN
  /\ loader' = [theme |-> theme, items |-> Renewed(theme)]
  /\ image' = [g \in Widgets |-> ImageShown(Renewed(theme), g)]
  /\ running' \in IF \E k \in shown : loader.items[k].widget \notin living THEN BOOLEAN ELSE {TRUE}
  /\ late' = FALSE

(* IconLoader::reload(), by the program; without a loader it calls through *)
(* NULL.                                                                   *)
ReloadTheme(theme) ==
  /\ running
  /\ NoInstance \/ (inited /\ Reloaded(theme) /\ UNCHANGED <<promised, living>>)
  /\ UNCHANGED <<windows, closed, seen_theme, clientVars>>

(* load_theme() of init(): the items of a loader that was there keep their *)
(* paths, and the widgets their images.                                    *)
Inited(theme) ==
  /\ loader' = [loader EXCEPT !.theme = theme]
  /\ late' = (inited /\ (late \/ theme # loader.theme))

(* IconLoader::init(), by the program                                      *)
InitTheme(theme) ==
  /\ running
  /\ Inited(theme)
  /\ UNCHANGED <<windows, closed, seen_theme, clientVars, image, promised, living, running>>

(* repoll_icons(): an item whose image Fl_Shared_Image does not have is    *)
(* dropped.  It has those it has set on a widget; of others, only what the *)
(* rest of the program has loaded.                                         *)
Repoll ==
  /\ running /\ inited
  /\ \E others \in SUBSET ItemsOf(loader.items, None) :
       LET kept == {k \in DOMAIN loader.items :
                      loader.items[k].path # None /\ (loader.items[k].widget = None => k \in others)}
       IN
       /\ loader' = [loader EXCEPT !.items = AtPlaces(@, kept)]
       /\ promised' = [g \in Widgets |->
                        IF \E k \in kept : loader.items[k].widget = g THEN promised[g] ELSE None]
  /\ image' = [g \in Widgets |-> IF promised'[g] = None THEN None ELSE image[g]]
  /\ UNCHANGED <<windows, closed, seen_theme, clientVars, living, late, running>>

DeleteWidget(g) ==
  /\ running /\ g \in living
  /\ living' = living \ {g} /\ promised' = [promised EXCEPT ![g] = None]
  /\ image' = [image EXCEPT ![g] = None]
  /\ UNCHANGED <<windows, closed, seen_theme, clientVars, loader, late, running>>
-------------------------------------------------------------------------------
(* Mutant: a setting that was deleted leaves the colour as it is.          *)
xsettings_cb_kept(value) == background' = IF value = None THEN background ELSE value

(* Mutant: there is nothing for a setting that was deleted.                *)
xsettings_cb_raw(value) == background' = value

(* xsettings_cb() with "Fltk/Background".  What it does with               *)
(* "Net/IconThemeName" it never does: loaded_components stays 0.           *)
xsettings_cb(value) == background' = IF value = None THEN Gray ELSE value

(* icon_theme_load_once(Default).  What was freed may or may not compare   *)
(* equal to the name.                                                      *)
LoadOnce ==
  \/ /\ seen_theme.freed \/ seen_theme.theme = Default
     /\ UNCHANGED <<seen_theme, loader, image, late, running>>
  \/ /\ seen_theme.freed \/ seen_theme.theme # Default
     /\ seen_theme' = [theme |-> Default, freed |-> FALSE]
     /\ IF inited
          THEN Reloaded(Default)
          ELSE Inited(Default) /\ UNCHANGED <<image, running>>

(* Window::init(); icons tells whether WIN_INIT_ICON_THEME is asked for.   *)
(* The new client calls xsettings_cb() for the settings that are there.    *)
Open(w, icons) ==
  /\ running /\ w \notin windows \cup closed
  /\ windows' = windows \cup {w}
  /\ xcli' = w /\ knows' = setting
  /\ IF icons THEN LoadOnce ELSE UNCHANGED <<seen_theme, loader, image, late, running>>
  /\ IF setting = None THEN UNCHANGED background ELSE xsettings_cb(setting)
  /\ orphaned' = (orphaned \/ event)
  /\ UNCHANGED <<closed, setting, event, promised, living>>

(* ~Window() shuts the icon loader down and frees the name of the theme,   *)
(* also when another window is open, and a second time.                    *)
Close(w) ==
  /\ running /\ w \in windows
  /\ windows' = windows \ {w} /\ closed' = closed \cup {w}
  /\ knows' = IF xcli = w THEN None ELSE knows
  /\ loader' = NoLoader /\ promised' = [g \in Widgets |-> None] /\ image' = [g \in Widgets |-> None]
  /\ late' = FALSE
  /\ seen_theme' = [seen_theme EXCEPT !.freed = @ \/ seen_theme.theme # None]
  /\ running' \in IF seen_theme.freed THEN BOOLEAN ELSE {TRUE}
  /\ orphaned' = (orphaned \/ xcli = w)
  /\ UNCHANGED <<xcli, setting, event, background, living>>

(* What the manager does.                                                  *)
Publish(value) ==
  /\ running /\ value # setting
  /\ setting' = value
  /\ event' = (xcli # None)
  /\ UNCHANGED <<windows, closed, xcli, knows, seen_theme, background, running, orphaned, loaderVars>>

(* xevent_handler(); the client of a window that was closed is freed.      *)
XEvent ==
  /\ running /\ event
  /\ event' = FALSE
  /\ IF xcli \in windows
       THEN /\ knows' = setting
            /\ IF knows = setting THEN UNCHANGED background ELSE xsettings_cb(setting)
            /\ UNCHANGED running
       ELSE running' \in BOOLEAN /\ UNCHANGED <<knows, background>>
  /\ UNCHANGED <<windows, closed, xcli, seen_theme, setting, orphaned, loaderVars>>

Windows == \E w \in Wins : Close(w) \/ \E icons \in BOOLEAN : Open(w, icons)

IconCalls ==
  \/ \E g \in Widgets : DeleteWidget(g) \/ \E i \in Icons, context \in Contexts : SetIcon(g, i, context)
  \/ \E i \in Icons, context \in Contexts, load \in BOOLEAN : GetIcon(i, context, load)
  \/ \E theme \in Themes : ReloadTheme(theme) \/ InitTheme(theme)
  \/ Repoll

Settings ==
  \/ \E value \in Colors \cup {None} : Publish(value)
  \/ XEvent

WindowNext == Windows \/ IconCalls \/ Settings

WindowSpec == WindowInit /\ [][WindowNext]_windowVars
-------------------------------------------------------------------------------
WindowTypeOK ==
  /\ windows \in SUBSET Wins /\ closed \in SUBSET Wins
  /\ knows \in Colors \cup {None}
  /\ xcli \in Wins \cup {None}
  /\ seen_theme \in [theme : Themes \cup {None}, freed : BOOLEAN]
  /\ loader \in [theme : Themes \cup {None}, items : Seq(Item)]
  /\ image \in [Widgets -> Image \cup {None}]
  /\ promised \in [Widgets -> (Icons \X Contexts) \cup {None}]
  /\ living \in SUBSET Widgets /\ late \in BOOLEAN
  /\ setting \in Colors \cup {None} /\ background \in Colors \cup {Gray}
  /\ event \in BOOLEAN /\ running \in BOOLEAN /\ orphaned \in BOOLEAN
  /\ \A j, k \in DOMAIN loader.items : loader.items[j].name = loader.items[k].name => j = k
  /\ ~inited => loader.items = <<>>

(* However themes were loaded and reloaded and other widgets came and went,*)
(* a widget shows the icon it was given out of the theme there is, or none *)
(* if the theme has none (IconLoader.cpp:214-218, "image() will receive    *)
(* NULL ... This is desired behaviour").  This is of a widget that         *)
(* IconLoader keeps with the icon (Follows), not of the second widget of   *)
(* an icon, of one that shows the fallback icon or is kept with several,   *)
(* or of an icon that was first asked for in another context; and not      *)
(* between an init() of a loader that is there and the next reload().      *)
IconsFollow ==
  running /\ ~late => \A g \in {h \in Widgets : promised[h] # None} :
    /\ inited
    /\ image[g] = IF promised[g] \in Has[loader.theme]
                    THEN <<loader.theme, promised[g][1], promised[g][2]>> ELSE None

(* With no event left to process, the colour is the one that the manager   *)
(* has, or FLTK's own (Window.cpp:96-112), unless the window that heard of *)
(* it was closed, or replaced while a change waited for it.                *)
BackgroundFollows ==
  running /\ ~event /\ ~orphaned /\ xcli # None =>
    background = IF setting = None THEN Gray ELSE setting

DisplayFollows == IconsFollow /\ BackgroundFollows
===============================================================================
