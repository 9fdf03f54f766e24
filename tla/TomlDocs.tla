------------------------------ MODULE TomlDocs ------------------------------
(***************************************************************************)
(* Documents as the parsers of TOML and JSON give them, a table being a    *)
(* function from its keys, and what is said of one that cannot be read.    *)
(***************************************************************************)
EXTENDS Integers, Sequences, SequencesExt

Err == [kind |-> "error"]

NoEntries == [k \in {} |-> k]
String(text) == [doc |-> "string", text |-> text]
Boolean(b)   == [doc |-> "boolean", b |-> b]

\* An operator that maps every entry of a function.
Each(op(_), f) == [k \in DOMAIN f |-> op(f[k])]
=============================================================================
