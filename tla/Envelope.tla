------------------------------ MODULE Envelope ------------------------------
(***************************************************************************)
(* ByteMessage (include/motus/ByteMessage.hpp): the envelope               *)
(* "motus:<version>:<payload>" every message travels in.                   *)
(*                                                                         *)
(* A body starts with the magic or it does not, and goes on with           *)
(* characters: the digits, the separator ":", and "x" for any other byte.  *)
(* A payload is opaque and holds any of them.                              *)
(***************************************************************************)
EXTENDS Integers, Sequences

CONSTANTS
  MaxBytes,       \* MAX_PAYLOAD_BYTES, counted without the magic
  VersionGuard,   \* 100000 in the code: beyond it the version is out of range
  IntLimit        \* 2^31: an int is at least -IntLimit and less than IntLimit

(* The guard keeps version * 10 + 9 inside an int. *)
ASSUME EnvelopeAssumption ==
  /\ MaxBytes \in Nat /\ VersionGuard \in Nat /\ IntLimit \in Nat
  /\ 10 * VersionGuard + 9 < IntLimit

Digits == <<"0", "1", "2", "3", "4", "5", "6", "7", "8", "9">>
IsDigit(c) == \E i \in DOMAIN Digits : Digits[i] = c
Characters == {Digits[i] : i \in DOMAIN Digits} \cup {":", "x"}
ValueOf(c) == (CHOOSE i \in DOMAIN Digits : Digits[i] = c) - 1

FORMAT_VERSION == 1
Refused   == <<"refused">>        \* an exception: the body is a poison message
NoVersion == -(2 * IntLimit)      \* ... thrown while the version is read

(* Signed arithmetic at the width of int. *)
Wrapped(n) == ((n + IntLimit) % (2 * IntLimit)) - IntLimit

NotSent == [magic |-> FALSE, rest |-> <<>>]     \* std::length_error

serialize(payload) ==
  LET rest == <<Digits[FORMAT_VERSION + 1], ":">> \o payload IN
  IF Len(rest) > MaxBytes THEN NotSent ELSE [magic |-> TRUE, rest |-> rest]

(* Variant: the version is read without its guard. *)
readUnguarded(version, c) ==
  IF version = NoVersion \/ ~IsDigit(c) THEN NoVersion
  ELSE Wrapped(10 * version + ValueOf(c))

(* One turn of the loop over the version field. *)
readDigit(version, c) ==
  IF version = NoVersion \/ ~IsDigit(c) THEN NoVersion
  ELSE IF version > VersionGuard THEN NoVersion
  ELSE Wrapped(10 * version + ValueOf(c))

(* The loop: version[i] is the version after i characters. *)
parseVersion(field) ==
  LET version[i \in 0..Len(field)] ==
        IF i = 0 THEN 0 ELSE readDigit(version[i - 1], field[i])
  IN  version[Len(field)]

Colons(rest) == {i \in DOMAIN rest : rest[i] = ":"}

(* Variant: the last separator ends the version field. *)
findLastColon(rest) == CHOOSE i \in Colons(rest) : \A j \in Colons(rest) : j <= i

findColon(rest) == CHOOSE i \in Colons(rest) : \A j \in Colons(rest) : i <= j

(* The payload, or Refused. *)
deserialize(wire) ==
  IF \/ Len(wire.rest) > MaxBytes
     \/ ~wire.magic
     \/ Colons(wire.rest) = {}
     \/ findColon(wire.rest) = 1
  THEN Refused
  ELSE LET versionEnd == findColon(wire.rest) IN
       IF parseVersion(SubSeq(wire.rest, 1, versionEnd - 1)) # FORMAT_VERSION
       THEN Refused
       ELSE SubSeq(wire.rest, versionEnd + 1, Len(wire.rest))

=============================================================================
