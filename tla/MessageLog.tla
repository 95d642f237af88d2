----------------------------- MODULE MessageLog -----------------------------
(***************************************************************************)
(* What a channel promises to its clients, without files, segments or      *)
(* crashes: a log of messages that only grows, in which a message keeps    *)
(* its offset for ever.  A commit may add several messages at once (those  *)
(* of earlier appends that reported an error come along with the next      *)
(* one), and may answer one append, always with the last message it added. *)
(***************************************************************************)
EXTENDS Naturals, Sequences, SequencesExt

CONSTANT Message

VARIABLES
    log,     \* the messages, each with its offset
    answers  \* the appends that returned success, in order

logVars == <<log, answers>>

Entry == [offset : Nat, msg : Message]

OffsetsIncrease(s) ==
    \A i, j \in 1 .. Len(s) : i < j => s[i].offset < s[j].offset

Init == log = << >> /\ answers = << >>

\* The log may grow from old to new.
Extends(old, new) ==
    /\ IsStrictPrefix(old, new)
    /\ new \in Seq(Entry)
    /\ OffsetsIncrease(new)

Commit ==
    /\ \E old \in {log}, new \in {log'} :
          /\ Extends(old, new)
          /\ answers' \in {answers, Append(answers, new[Len(new)])}

Spec == Init /\ [][Commit]_logVars

=============================================================================
