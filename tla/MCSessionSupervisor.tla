-------------------------- MODULE MCSessionSupervisor --------------------------
(* Constants for model checking SessionSupervisor. *)
EXTENDS SessionSupervisor, TLC

CONSTANTS en, ko, ann, bob, nobody

MCUpdates ==
  {[langs |-> en, humans |-> {ann}, me |-> nobody],
   [langs |-> en, humans |-> {ann}, me |-> ann],
   [langs |-> en, humans |-> {ann}, me |-> bob],
   [langs |-> ko, humans |-> {ann}, me |-> nobody]}

\* In one language: nobody, one participant or another one is the user, which
\* changes the people alone or the number of speakers as well.
MCThreeUpdates == {u \in MCUpdates : u.langs = en}

\* Without updates one configuration is enough.
MCOneUpdate == {u \in MCUpdates : u.langs = en /\ u.me = nobody}

\* What a listener that is dead ran with is never read again.
Forgetful == <<supVars, srcVars, actors, nextId, inbox, asked,
               IF actors.live["listener"] = NoCell THEN <<>> ELSE <<lcfg>>>>
===============================================================================
