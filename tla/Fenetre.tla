------------------------------ MODULE Fenetre ------------------------------
(***************************************************************************)
(* The window of the application on Windows (windows/runner/main.cpp,      *)
(* flutter_window.cpp, win32_window.cpp): its creation, the first frame    *)
(* that shows it, the messages it handles, and its destruction, by the     *)
(* user or by the destructor when the creation fails.                      *)
(*                                                                         *)
(* main, the messages and the callbacks run on one thread, the engine on   *)
(* others: it may complete its first frame between any two statements of   *)
(* OnCreate. The messages are dispatched by the loop of main only.         *)
(***************************************************************************)
EXTENDS Naturals

CONSTANTS
    ThemeAuDepart   \* AppsUseLightTheme when the application starts

Themes == {"clair", "sombre", "absent"}

ASSUME FenetreHypotheses == ThemeAuDepart \in Themes

VARIABLES
    main,           \* the statement main, or what it has called, is at
    hwnd,           \* the window of the system: "aucune", "ouverte", "detruite"
    window_handle,  \* window_handle_ is not null
    controleur,     \* flutter_controller_ is not null
    quit_on_close,  \* quit_on_close_
    quit,           \* WM_QUIT is posted
    classe,         \* class_registered_, and whether UnregisterWindowClass was ever
                    \* called with the window still there
    fenetres,       \* g_active_window_count
    trame,          \* the engine: "arret", "attendue", "faite"
    rappel,         \* the callback of the next frame: "aucun", "arme", "poste"
    visible,        \* ShowWindow was called
    registre,       \* AppsUseLightTheme
    cadre,          \* the decoration of the window
    avis            \* a WM_DWMCOLORIZATIONCOLORCHANGED is in the queue

varsMoteur == <<trame, rappel, visible>>
varsTheme == <<registre, cadre, avis>>
varsFenetre == <<main, hwnd, window_handle, controleur, quit_on_close, quit, classe, fenetres,
          varsMoteur, varsTheme>>

InitFenetre ==
    /\ main = "creation" /\ hwnd = "aucune" /\ window_handle = FALSE /\ controleur = FALSE
    /\ quit_on_close = FALSE /\ quit = FALSE
    /\ classe = [enregistree |-> FALSE, precoce |-> FALSE]
    /\ fenetres = 1
    /\ trame = "arret" /\ rappel = "aucun" /\ visible = FALSE
    /\ registre = ThemeAuDepart /\ cadre = "clair" /\ avis = FALSE

-----------------------------------------------------------------------------
(***************************************************************************)
(* Create and OnCreate.                                                    *)
(***************************************************************************)
\* Variant: the result of RegGetValue is not tested.
UpdateThemeSansTest == cadre' = registre

\* UpdateTheme: without the value in the registry, nothing is set.
UpdateTheme == cadre' = IF registre = "absent" THEN cadre ELSE registre

\* CreateWindow, whose WM_NCCREATE sets window_handle_.
CreerFenetre ==
    /\ main = "creation"
    /\ main' = "moteur" /\ hwnd' = "ouverte" /\ window_handle' = TRUE
    /\ classe' = [classe EXCEPT !.enregistree = TRUE]
    /\ UpdateTheme
    /\ UNCHANGED <<controleur, quit_on_close, quit, fenetres, varsMoteur, registre, avis>>

\* CreateWindow fails: Create returns false and main returns.
EchouerFenetre ==
    /\ main = "creation"
    /\ main' = "destructeur"
    /\ classe' = [classe EXCEPT !.enregistree = TRUE]
    /\ UNCHANGED <<hwnd, window_handle, controleur, quit_on_close, quit, fenetres, varsMoteur, varsTheme>>

\* The controller starts the engine, which prepares a first frame.
DemarrerMoteur ==
    /\ main = "moteur"
    /\ main' = "rappel" /\ controleur' = TRUE /\ trame' = "attendue"
    /\ UNCHANGED <<hwnd, window_handle, quit_on_close, quit, classe, fenetres, rappel, visible, varsTheme>>

\* No engine or no view: OnCreate returns false and main returns.
EchouerMoteur ==
    /\ main = "moteur"
    /\ main' = "destructeur" /\ controleur' = TRUE
    /\ UNCHANGED <<hwnd, window_handle, quit_on_close, quit, classe, fenetres, varsMoteur, varsTheme>>

\* SetChildContent, then SetNextFrameCallback.
ArmerRappel ==
    /\ main = "rappel"
    /\ main' = "redessin" /\ rappel' = "arme"
    /\ UNCHANGED <<hwnd, window_handle, controleur, quit_on_close, quit, classe, fenetres,
                   trame, visible, varsTheme>>

\* Variant: no ForceRedraw.
NePasRedessiner ==
    /\ main = "redessin"
    /\ main' = "boucle" /\ quit_on_close' = TRUE
    /\ UNCHANGED <<hwnd, window_handle, controleur, quit, classe, fenetres, varsMoteur, varsTheme>>

\* ForceRedraw asks for a frame once the first one is completed; then Create
\* returns true, SetQuitOnClose(true) and the loop of main.
Redessiner ==
    /\ main = "redessin"
    /\ main' = "boucle" /\ quit_on_close' = TRUE
    /\ trame' = "attendue"
    /\ UNCHANGED <<hwnd, window_handle, controleur, quit, classe, fenetres, rappel, visible, varsTheme>>

\* The engine completes a frame and posts the callback, if there is one.
TerminerTrame ==
    /\ trame = "attendue"
    /\ trame' = "faite"
    /\ rappel' = IF rappel = "arme" THEN "poste" ELSE rappel
    /\ UNCHANGED <<main, hwnd, window_handle, controleur, quit_on_close, quit, classe, fenetres,
                   visible, varsTheme>>

-----------------------------------------------------------------------------
(***************************************************************************)
(* The loop of main.                                                       *)
(***************************************************************************)
\* The callback: Show.
Montrer ==
    /\ main = "boucle" /\ rappel = "poste"
    /\ rappel' = "aucun" /\ visible' = (hwnd = "ouverte")
    /\ UNCHANGED <<main, hwnd, window_handle, controleur, quit_on_close, quit, classe, fenetres,
                   trame, varsTheme>>

\* Variant: the windows are not counted.
LibererToujours(n) ==
    classe' = [enregistree |-> FALSE, precoce |-> classe.precoce \/ hwnd = "ouverte"]

\* The last statement of Destroy, with n windows counted. The handler of
\* WM_DESTROY reaches it while DestroyWindow has not returned.
Liberer(n) ==
    classe' = IF n = 0
                THEN [enregistree |-> FALSE, precoce |-> classe.precoce \/ hwnd = "ouverte"]
                ELSE classe

\* Variant: WM_DESTROY does not end the loop.
FermerSansQuitter ==
    /\ main = "boucle" /\ hwnd = "ouverte"
    /\ hwnd' = "detruite" /\ window_handle' = FALSE
    /\ controleur' = FALSE /\ trame' = "arret" /\ rappel' = "aucun"
    /\ Liberer(fenetres)
    /\ UNCHANGED <<main, quit_on_close, quit, fenetres, visible, varsTheme>>

\* Variant: WM_DESTROY does not call Destroy.
FermerSansLiberer ==
    /\ main = "boucle" /\ hwnd = "ouverte"
    /\ hwnd' = "detruite" /\ window_handle' = FALSE
    /\ quit' = quit_on_close
    /\ UNCHANGED <<main, controleur, quit_on_close, classe, fenetres, varsMoteur, varsTheme>>

\* The user closes the window: WM_DESTROY, and the controller goes with its
\* engine and the callback.
Fermer ==
    /\ main = "boucle" /\ hwnd = "ouverte"
    /\ hwnd' = "detruite" /\ window_handle' = FALSE
    /\ controleur' = FALSE /\ trame' = "arret" /\ rappel' = "aucun"
    /\ Liberer(fenetres)
    /\ quit' = quit_on_close
    /\ UNCHANGED <<main, quit_on_close, fenetres, visible, varsTheme>>

\* The settings of the system change, and the message is posted.
ChangerTheme(t) ==
    /\ registre # t
    /\ registre' = t
    /\ avis' = (hwnd = "ouverte")
    /\ UNCHANGED <<main, hwnd, window_handle, controleur, quit_on_close, quit, classe, fenetres,
                   varsMoteur, cadre>>

\* Variant: the theme is read when the window is created only.
IgnorerTheme ==
    /\ main = "boucle" /\ avis /\ hwnd = "ouverte"
    /\ avis' = FALSE
    /\ UNCHANGED <<main, hwnd, window_handle, controleur, quit_on_close, quit, classe, fenetres,
                   varsMoteur, registre, cadre>>

SuivreTheme ==
    /\ main = "boucle" /\ avis /\ hwnd = "ouverte"
    /\ avis' = FALSE
    /\ UpdateTheme
    /\ UNCHANGED <<main, hwnd, window_handle, controleur, quit_on_close, quit, classe, fenetres,
                   varsMoteur, registre>>

-----------------------------------------------------------------------------
(***************************************************************************)
(* The end of main: ~FlutterWindow, then ~Win32Window.                     *)
(***************************************************************************)
Quitter ==
    /\ main = "boucle" /\ quit
    /\ main' = "destructeur"
    /\ UNCHANGED <<hwnd, window_handle, controleur, quit_on_close, quit, classe, fenetres,
                   varsMoteur, varsTheme>>

\* The members go, the count of windows is down, and Destroy starts: when
\* the window is still there, DestroyWindow sends WM_DESTROY to
\* Win32Window::MessageHandler, which calls Destroy too.
DetruireFenetre ==
    /\ main = "destructeur"
    /\ main' = "liberation"
    /\ controleur' = FALSE /\ trame' = "arret" /\ rappel' = "aucun"
    /\ fenetres' = fenetres - 1
    /\ window_handle' = FALSE
    /\ hwnd' = IF hwnd = "ouverte" THEN "detruite" ELSE hwnd
    /\ IF window_handle THEN Liberer(fenetres') ELSE UNCHANGED classe
    /\ UNCHANGED <<quit_on_close, quit, visible, varsTheme>>

\* The rest of the outer Destroy.
LibererClasse ==
    /\ main = "liberation"
    /\ main' = "fin"
    /\ Liberer(fenetres)
    /\ UNCHANGED <<hwnd, window_handle, controleur, quit_on_close, quit, fenetres, varsMoteur, varsTheme>>

\* The process has ended.
Fini == main = "fin" /\ UNCHANGED varsFenetre

-----------------------------------------------------------------------------
Fil ==
    \/ CreerFenetre \/ EchouerFenetre \/ DemarrerMoteur \/ EchouerMoteur
    \/ ArmerRappel \/ Redessiner
    \/ Quitter \/ DetruireFenetre \/ LibererClasse

NextFenetre ==
    \/ Fil \/ TerminerTrame \/ Montrer \/ SuivreTheme
    \/ Fermer
    \/ \E t \in Themes : ChangerTheme(t)
    \/ Fini

SpecFenetre == InitFenetre /\ [][NextFenetre]_varsFenetre

-----------------------------------------------------------------------------
(***************************************************************************)
(* Type invariant of the window, of the engine and of the theme.           *)
(***************************************************************************)
TypeOKFenetre ==
    /\ main \in {"creation", "moteur", "rappel", "redessin", "boucle", "destructeur", "liberation", "fin"}
    /\ hwnd \in {"aucune", "ouverte", "detruite"}
    /\ window_handle \in BOOLEAN /\ controleur \in BOOLEAN /\ quit_on_close \in BOOLEAN
    /\ quit \in BOOLEAN /\ visible \in BOOLEAN /\ avis \in BOOLEAN
    /\ classe \in [enregistree : BOOLEAN, precoce : BOOLEAN] /\ fenetres \in 0..1
    /\ trame \in {"arret", "attendue", "faite"} /\ rappel \in {"aucun", "arme", "poste"}
    /\ registre \in Themes /\ cadre \in {"clair", "sombre"}

(***************************************************************************)
(* While main dispatches messages, the controller lives exactly as long as *)
(* the window: WM_FONTCHANGE, which does not test flutter_controller_,     *)
(* finds it, and the engine never draws in a window that is gone.          *)
(***************************************************************************)
MoteurDansFenetre ==
    /\ main = "boucle" => (controleur <=> hwnd = "ouverte") /\ (window_handle <=> hwnd = "ouverte")
    /\ trame = "attendue" => hwnd = "ouverte"

(***************************************************************************)
(* Once no message is waiting, the frame has the theme of the registry,    *)
(* however often it changed and wherever main was. (A value that is        *)
(* removed leaves the frame as it is.)                                     *)
(***************************************************************************)
ThemeSuivi ==
    hwnd = "ouverte" /\ ~avis /\ registre # "absent" => cadre = registre

(***************************************************************************)
(* A closed window, or a creation that fails, ends the process, with the   *)
(* window destroyed and its class unregistered.                            *)
(***************************************************************************)
FinPropre ==
    hwnd = "detruite" \/ main = "destructeur" ~>
        main = "fin" /\ hwnd # "ouverte" /\ ~classe.enregistree

(***************************************************************************)
(* UnregisterWindowClass "should only be called if there are no instances  *)
(* of the window" (win32_window.cpp:75): so it is whenever the creation    *)
(* succeeded, although Destroy runs inside WM_DESTROY and again in the     *)
(* destructor. (When OnCreate has failed, the destructor has lowered the   *)
(* count before its DestroyWindow sends WM_DESTROY.)                       *)
(***************************************************************************)
SansInstance == quit_on_close => ~classe.precoce
=============================================================================
