----------------------------- MODULE Arguments -----------------------------
(***************************************************************************)
(* The arguments of the command line as the Windows runner hands them to   *)
(* the Dart program: GetCommandLineArguments and Utf8FromUtf16             *)
(* (windows/runner/utils.cpp).                                             *)
(*                                                                         *)
(* An argument is a sequence of UTF-16 code units, of which some do not    *)
(* form characters. Its length in UTF-8 is computed in an unsigned int, as *)
(* what WideCharToMultiByte returned less one: a refused conversion        *)
(* returns 0, and the length wraps around to the largest one.              *)
(***************************************************************************)
EXTENDS Integers, FiniteSets, SequencesExt

CONSTANTS
    Largeur,        \* bits of an unsigned int
    TaillesMax,     \* what std::string::max_size() may be, by platform: more than
                    \* a command line may hold
    ArgumentsMax,   \* bound: arguments after the name of the program
    UnitesMax       \* bound: code units of an argument

ASSUME ArgumentsHypotheses ==
    /\ Largeur \in Nat /\ ArgumentsMax \in Nat /\ UnitesMax \in Nat
    /\ TaillesMax \subseteq Nat
    /\ 4 * UnitesMax < 2^Largeur - 1
    /\ \A taille \in TaillesMax : 4 * UnitesMax <= taille

VARIABLES
    argv,           \* what CommandLineToArgvW returned: the name of the program, then the rest
    max_size,       \* std::string::max_size() of this build
    command_line_arguments,
    etat            \* "boucle", "rendu", or "mort": an exception nobody catches

varsArguments == <<argv, max_size, command_line_arguments, etat>>

-----------------------------------------------------------------------------
(***************************************************************************)
(* Code units and the bytes of the characters they form: a letter, an      *)
(* accented letter and the two halves of a character outside the plane.    *)
(***************************************************************************)
Octets ==
    [lettre |-> <<"l">>, accent |-> <<"a1", "a2">>,
     haut |-> <<"p1", "p2", "p3", "p4">>, bas |-> <<>>]

Unites == DOMAIN Octets

Chaines == SeqOf(Unites, UnitesMax)

\* Every high half is followed by a low one, and every low one preceded.
Valide(s) ==
    \A i \in 1..Len(s) :
        /\ s[i] = "haut" => i < Len(s) /\ s[i + 1] = "bas"
        /\ s[i] = "bas" => i > 1 /\ s[i - 1] = "haut"

\* The places of the bytes of s: four for each code unit, as many of them
\* taken as it has bytes.
Places(s) == {k \in 0..4 * Len(s) - 1 : k % 4 < Len(Octets[s[(k \div 4) + 1]])}

\* The reference: the characters of s, one after the other.
Utf8(s) ==
    [n \in 1..Cardinality(Places(s)) |->
        LET place == CHOOSE k \in Places(s) : Cardinality({j \in Places(s) : j <= k}) = n
        IN  Octets[s[(place \div 4) + 1]][(place % 4) + 1]]

Attendu(s) == IF Valide(s) THEN Utf8(s) ELSE <<>>

-----------------------------------------------------------------------------
\* WideCharToMultiByte without a buffer, on a string up to its final null:
\* the bytes it needs, null included, or 0 with WC_ERR_INVALID_CHARS.
LongueurRequise(s) == IF Valide(s) THEN Len(Utf8(s)) + 1 ELSE 0

\* The same into a buffer: the bytes written over its start, 0 when the
\* string is refused or does not fit.
Convertie(s, taille) ==
    IF Valide(s) /\ Len(Utf8(s)) <= taille THEN Len(Utf8(s)) ELSE 0

\* unsigned int target_length.
TargetLength(s) == (LongueurRequise(s) - 1) % 2^Largeur

\* utf8_string.resize(target_length): null characters, then what is written.
Tampon(s, taille) ==
    [k \in 1..taille |-> IF k <= Len(Attendu(s)) THEN Attendu(s)[k] ELSE "nul"]

\* Variant: the null that ends the string is counted.
Utf8FromUtf16AvecNul(s) ==
    IF LongueurRequise(s) = 0 THEN <<>> ELSE Tampon(s, LongueurRequise(s))

Utf8FromUtf16(s) ==
    IF \/ TargetLength(s) = 0
       \/ TargetLength(s) > max_size
       \/ Convertie(s, TargetLength(s)) = 0
      THEN <<>>
      ELSE Tampon(s, TargetLength(s))

Nom == <<"lettre">>

LignesDeCommande == {<<Nom>> \o reste : reste \in SeqOf(Chaines, ArgumentsMax)}

InitArguments ==
    /\ argv \in LignesDeCommande
    /\ max_size \in TaillesMax
    /\ command_line_arguments = <<>>
    /\ etat = "boucle"

\* CommandLineToArgvW failed: argv is null and there are no arguments.
SansArgv ==
    /\ etat = "boucle"
    /\ command_line_arguments = <<>>
    /\ argv' = <<>>
    /\ etat' = "rendu"
    /\ UNCHANGED <<max_size, command_line_arguments>>

\* The loop variable i, which skips the name, and its bound.
I == Len(command_line_arguments) + 2

Courant == argv[I]

Convertir ==
    /\ etat = "boucle"
    /\ I <= Len(argv)
    /\ command_line_arguments' = Append(command_line_arguments, Utf8FromUtf16(Courant))
    /\ UNCHANGED <<argv, max_size, etat>>

\* resize() to the length that wrapped around finds no memory.
Epuiser ==
    /\ etat = "boucle"
    /\ I <= Len(argv)
    /\ TargetLength(Courant) = 2^Largeur - 1
    /\ TargetLength(Courant) <= max_size
    /\ etat' = "mort"
    /\ UNCHANGED <<argv, max_size, command_line_arguments>>

Rendre ==
    /\ etat = "boucle"
    /\ I > Len(argv)
    /\ etat' = "rendu"
    /\ UNCHANGED <<argv, max_size, command_line_arguments>>

NextArguments == SansArgv \/ Convertir \/ Epuiser \/ Rendre

-----------------------------------------------------------------------------
(***************************************************************************)
(* Type invariant; no argument grows past the bytes of its characters.     *)
(***************************************************************************)
TypeOKArguments ==
    /\ argv \in LignesDeCommande \cup {<<>>}
    /\ max_size \in TaillesMax
    /\ \A i \in 1..Len(command_line_arguments) :
         Len(command_line_arguments[i]) <= 4 * UnitesMax
    /\ etat \in {"boucle", "rendu", "mort"}

(***************************************************************************)
(* "Convert the UTF-16 command line arguments to UTF-8": each argument is  *)
(* handed over in its place, as its characters in UTF-8, or empty when it  *)
(* is not a string of characters, on every platform, although the length   *)
(* of a refused one passes the test on max_size() where strings may be     *)
(* longer than an unsigned int counts.                                     *)
(***************************************************************************)
ConversionExacte ==
    /\ \A i \in 1..Len(command_line_arguments) :
         command_line_arguments[i] = Attendu(argv[i + 1])
    /\ etat = "rendu" /\ argv # <<>> => Len(command_line_arguments) = Len(argv) - 1
=============================================================================
