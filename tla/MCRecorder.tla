----------------------------- MODULE MCRecorder -----------------------------
(***************************************************************************)
(* What crosses a connection that may be lost: the writes of a recording    *)
(* session to Discord, one session for each of its jobs, and the events a   *)
(* shard feeds to the bot's cache.  A behaviour is about one of the two,    *)
(* which its initial state chooses.                                         *)
(***************************************************************************)
EXTENDS Recorder, TLC

MCSessions == {<<"rejections">>, <<"duplicates">>, <<"cross_scope">>, <<"pagination">>,
               <<"guild", "checkouts">>, <<"lifecycle">>, <<"subscriptions">>, <<"purchases">>}

CONSTANTS few, many, Guilds, Users, Shards, Large, Requests

Halves == (few :> 0) @@ (many :> 1)

VARIABLES part, guild, intents, open, cache, request

feeding == <<guild, intents, open, cache, request>>

G == INSTANCE Gateway WITH ShardOf <- Halves

ASSUME G!GatewayAssumption

NoFeeding == guild = 0 /\ intents = 0 /\ open = 0 /\ cache = 0 /\ request = 0

WireInit ==
  /\ part \in {"recorder", "gateway"}
  /\ Init /\ (part # "recorder" => jobs = <<"rejections">>)
  /\ IF part = "gateway" THEN G!Init ELSE NoFeeding

WireNext ==
  \/ part = "recorder" /\ Next /\ UNCHANGED <<part, feeding>>
  \/ part = "gateway" /\ G!Next /\ UNCHANGED <<part, vars>>

Feeds(act) == part = "gateway" /\ act

\* The loop runs what is ready (Gateway).
WireSpec ==
  /\ WireInit /\ [][WireNext]_<<part, vars, feeding>>
  /\ \A r \in Requests :
       /\ WF_feeding(Feeds(G!Register(r))) /\ WF_feeding(Feeds(G!StartDelivery(r)))
       /\ WF_feeding(Feeds(G!Deliver(r))) /\ WF_feeding(Feeds(G!QueryTimeout(r)))

\* The bot's cache follows the guilds of the backend, and no step takes somebody
\* who is gone for a member while the shard is open (ShardRouter.identify,
\* _drop_departed_members); every request for members is resolved
\* (resolve_pending_chunk).
BotFed ==
  /\ [](part = "gateway" => G!BotKnows)
  /\ [][part = "gateway" => G!NobodyResurrected]_<<part, vars, feeding>>
  /\ \A r \in Requests :
       (part = "gateway" /\ request[r].stage # "idle") ~>
         (part = "gateway" => request[r].stage = "idle")
=============================================================================
