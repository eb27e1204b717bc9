----------------------------- MODULE MCSession -----------------------------
(***************************************************************************)
(* Instances of Session for TLC.                                           *)
(***************************************************************************)
EXTENDS Session, TLC

CONSTANTS dir, adm, elv, bib

\* A super administrator, an administrator, a pupil and somebody whose role
\* has no home page.
MCRoleDe ==
    dir :> "superadmin" @@ adm :> "administrateur" @@ elv :> "eleve" @@ bib :> "autre"

MCRoles == [u \in Personnes |-> MCRoleDe[u]]
=============================================================================
