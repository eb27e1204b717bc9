----------------------------- MODULE Processus -----------------------------
(***************************************************************************)
(* The process of the Windows runner (windows/runner/main.cpp): wWinMain   *)
(* converts the command line (module Arguments), hands it to the Dart      *)
(* project, and only then creates the window and dispatches its messages   *)
(* (module Fenetre). An exception of the conversion, which nothing         *)
(* catches, ends the process before there is a window.                     *)
(***************************************************************************)
EXTENDS Fenetre, Arguments

varsProcessus == <<varsFenetre, varsArguments>>

InitProcessus == InitFenetre /\ InitArguments

\* A step of the window, once the arguments have been handed over.
Puis(A) == etat = "rendu" /\ A /\ UNCHANGED varsArguments

\* GetCommandLineArguments.
ConvertirArguments == NextArguments /\ UNCHANGED varsFenetre

\* The process has died of the exception.
Mort == etat = "mort" /\ UNCHANGED varsProcessus

NextProcessus == ConvertirArguments \/ Puis(NextFenetre) \/ Mort

\* The thread of main goes on, dispatches what is posted, and the engine
\* completes the frames that it is asked for.
SpecProcessus ==
    /\ InitProcessus /\ [][NextProcessus]_varsProcessus
    /\ WF_varsProcessus(ConvertirArguments)
    /\ WF_varsProcessus(Puis(Fil))
    /\ WF_varsProcessus(Puis(Montrer))
    /\ WF_varsProcessus(Puis(TerminerTrame))

-----------------------------------------------------------------------------
(***************************************************************************)
(* Type invariant of the arguments and of the window.                      *)
(***************************************************************************)
TypeOKProcessus == TypeOKFenetre /\ TypeOKArguments

(***************************************************************************)
(* Every start comes to a window on the screen, or to the end of the       *)
(* process: the conversion, the creation and the first frame leave no way  *)
(* to hang before the loop of messages, whatever fails on the way.         *)
(***************************************************************************)
DemarrageAboutit ==
    main = "creation" ~> visible \/ main = "fin" \/ etat = "mort"
=============================================================================
