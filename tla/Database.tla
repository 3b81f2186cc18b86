------------------------------- MODULE Database -------------------------------
(***************************************************************************)
(* The drivers the program runs on, as far as they differ.  Some columns   *)
(* are declared DateTime and are given, or compared with, times that carry *)
(* a zone.  asyncpg refuses such a value when the statement is executed;   *)
(* aiosqlite, which the tests use, takes it.                               *)
(***************************************************************************)
CONSTANT Drivers    \* which of them a behaviour may meet

ASSUME DriverAssumption == Drivers \subseteq {"asyncpg", "aiosqlite"} /\ Drivers # {}

ZoneTaken   == "aiosqlite" \in Drivers
ZoneRefused == "asyncpg" \in Drivers
=============================================================================
