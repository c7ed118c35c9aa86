---------------------------- MODULE FlatMemory ------------------------------
(***************************************************************************)
(* What a bus promises its master: a byte array.  A read that succeeds     *)
(* returns the bytes last written, a write is done whole or not at all,    *)
(* nothing happens between the read and the write of an atomic operation,  *)
(* and what is refused changes nothing.                                    *)
(***************************************************************************)
EXTENDS WordOps

CONSTANT Addrs

VARIABLES
  flat,   \* a byte for every address that has memory
  reply   \* what the bus did last: [op, addr, status, data]

vars == <<flat, reply>>

Init ==
  /\ flat = <<>>
  /\ reply = [op |-> "none", addr |-> 0, status |-> "ok", data |-> <<>>]

\* Once, the memory appears, filled with zeros.
Appear ==
  /\ flat = <<>> /\ flat' = [a \in DOMAIN flat' |-> 0]
  /\ DOMAIN flat' \subseteq Addrs
  /\ UNCHANGED reply

\* The memory from addr on that holds this many bytes
Span(addr, n) == {addr + i - 1 : i \in 1 .. n}

Read ==
  /\ reply'.op \in {"read", "look"}
  /\ reply'.status = "ok" =>
       \A i \in DOMAIN reply'.data :
         /\ reply'.addr + i - 1 \in DOMAIN flat
         /\ reply'.data[i] = flat[reply'.addr + i - 1]
  /\ UNCHANGED flat

\* Bytes are written, or a device that is not memory takes them.
Write ==
  LET span == Span(reply'.addr, Len(reply'.data)) IN
  /\ reply'.op = "write"
  /\ IF reply'.status = "ok" /\ reply'.addr \in DOMAIN flat
     THEN /\ span \subseteq DOMAIN flat
          /\ flat' = [a \in DOMAIN flat |->
                        IF a \in span THEN reply'.data[a - reply'.addr + 1] ELSE flat[a]]
     ELSE UNCHANGED flat

\* The reply has the word that was there, and another word takes its place.
Amo(old, new) ==
  LET span == Span(reply'.addr, WordBytes) IN
  /\ reply'.op = "amo" /\ reply'.status = "ok"
  /\ span \subseteq DOMAIN flat
  /\ reply'.data = LeBytes(old, WordBytes)
  /\ \A i \in 1 .. WordBytes : flat[reply'.addr + i - 1] = reply'.data[i]
  /\ flat' = [a \in DOMAIN flat |->
                IF a \in span THEN LeBytes(new, WordBytes)[a - reply'.addr + 1] ELSE flat[a]]

AmoRefused == reply'.op = "amo" /\ reply'.status # "ok" /\ UNCHANGED flat

Next ==
  \/ Appear \/ Read \/ Write \/ AmoRefused
  \/ \E old, new \in Word : Amo(old, new)

Spec == Init /\ [][Next]_vars
=============================================================================
