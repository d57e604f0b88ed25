------------------------- MODULE FacilitatorService -------------------------
(***************************************************************************)
(* The life of a facilitator process (facilitator-service/src/server.ts,   *)
(* startup.ts, capability-descriptor.ts): what start() confirms before it  *)
(* listens, what the public endpoints then claim, the legacy settlements   *)
(* served over the channel pool (ChannelPool), and stop().                 *)
(*                                                                         *)
(* start() is a sequence of awaits, each of them an action here: RPC       *)
(* coordinator, one channel after the other, the sponsor's balance, the    *)
(* upto contract.  Everything after the last await, up to serve(), is one  *)
(* run of the event loop.  A start that throws ends the process.  What the *)
(* network answers is open: a balance, a contract or a node may come and   *)
(* go between any two steps, and once the service runs it asks no more.    *)
(***************************************************************************)
EXTENDS ChannelPool

CONSTANTS
    Facilitator,    \* FACILITATOR_PUBLIC_KEY; may be one of the channels
    Configs,        \* environments the process may be started with
    MaxBoots        \* bound on the number of processes

(* The environment, as far as start() looks at it: getDefaultConfig.       *)
Environments ==
    [sponsors : BOOLEAN,             \* SPONSOR_FEES is not "false"
     keysAgree : BOOLEAN,            \* the secret key derives the public key
     pool : SUBSET Channels,         \* accounts of the CHANNEL_POOL_SIZE channels
     durable : BOOLEAN,              \* CHANNEL_SECRET_KEYS has that many entries
     autoCreate : BOOLEAN,           \* CHANNEL_AUTO_CREATE
     providers : {1, 2},             \* how many SOROBAN_RPC_URLS
     testnet : BOOLEAN,
     contract : BOOLEAN,             \* a well-formed UPTO_ESCROW_CONTRACT_ID
     jobs : SUBSET {"exact", "upto"}]  \* schemes X402_JOBS_FILE is priced in

ASSUME ServiceAssumption ==
    Configs \subseteq Environments /\ MaxBoots \in Nat

VARIABLES
    config,        \* this.config
    phase,         \* how far start() or stop() has got
    boots,
    coordinator,   \* this.rpcCoordinator is set
    sponsored,     \* the areFeesSponsored the schemes were built with
    signers,       \* signer accounts the schemes and the scheduler have
    capabilities,  \* this.capabilities
    heard          \* what Horizon and the RPC have told this process

lifeVars == <<config, phase, boots, coordinator, sponsored, signers,
              capabilities, heard>>
serviceVars == <<poolVars, lifeVars>>

Phases == {"down", "pool", "funding", "contract", "serving", "draining", "exited"}
Unconfirmed == [feesAreSponsored |-> FALSE, upto |-> FALSE, jobs |-> {}, checked |-> FALSE]
Nothing == [funded |-> FALSE, deployed |-> FALSE]

ServiceInit ==
    /\ PoolInit
    /\ config \in Configs
    /\ phase = "down"
    /\ boots = 0
    /\ coordinator = FALSE
    /\ sponsored = FALSE
    /\ signers = {Facilitator}
    /\ capabilities = Unconfirmed
    /\ heard = Nothing

----------------------------------------------------------------------------
(* What the service says of itself.                                        *)

(* buildSupported, with the fee-bump signer listed while it sponsors.      *)
Kinds == {"exact"} \cup (IF capabilities'.upto THEN {"upto"} ELSE {})
ListedSigners == signers' \cup (IF sponsored' THEN {Facilitator} ELSE {})

(* loadCapabilityJobs: every job is priced in an advertised scheme.        *)
JobsAgree == config.jobs \subseteq Kinds

(* assertSupportedIsTruthful.                                              *)
SupportedIsTruthful ==
    /\ sponsored' = capabilities'.feesAreSponsored
    /\ Facilitator \in ListedSigners

----------------------------------------------------------------------------
(* start().                                                                *)

(* A throw anywhere in start(): index.ts lets it end the process.          *)
Exit ==
    /\ phase' = "exited"
    /\ coordinator' = FALSE
    /\ UNCHANGED <<poolVars, config, boots, sponsored, signers, capabilities, heard>>

(* Several RPC providers are put behind a coordinator, on testnet only.    *)
StartThrows ==
    /\ phase = "down"
    /\ config.providers > 1 /\ ~config.testnet
    /\ Exit

Start ==
    /\ phase = "down"
    /\ config.providers > 1 => config.testnet
    /\ boots' = boots + 1
    /\ coordinator' = (config.providers > 1)
    /\ phase' = "pool"
    /\ UNCHANGED <<poolVars, config, sponsored, signers, capabilities, heard>>

(* channelPool.initialize: the channels one after the other.               *)
PoolInitializes(c) ==
    /\ phase = "pool"
    /\ config.durable \/ config.autoCreate
    /\ c \in config.pool
    /\ InitializeChannel(c)
    /\ UNCHANGED lifeVars

(* The last channel is there: initialize returns, refreshSigners.          *)
PoolReady ==
    /\ phase = "pool"
    /\ \A c \in config.pool : channel[c] # "absent"
    /\ isInitialized' = TRUE
    /\ signers' = IF config.pool = {} THEN {Facilitator} ELSE config.pool
    /\ phase' = "funding"
    /\ UNCHANGED <<channel, acquisitionQueue, armed, timers, immediates, legacy, held>>
    /\ UNCHANGED <<config, boots, coordinator, sponsored, capabilities, heard>>

(* A channel cannot be loaded, created or funded, or is not durable.       *)
PoolThrows ==
    /\ phase = "pool"
    /\ \E c \in config.pool : channel[c] = "absent"
    /\ Exit

(* Mutant of FundingConfirmed: an unfunded sponsor is only logged.         *)
FundingAssumed ==
    /\ phase = "funding"
    /\ config.keysAgree
    /\ sponsored' = config.sponsors
    /\ \E funded \in BOOLEAN :
        heard' = [heard EXCEPT !.funded = config.sponsors /\ funded]
    /\ phase' = "contract"
    /\ UNCHANGED <<poolVars, config, boots, coordinator, signers, capabilities>>

(* runStartupChecks up to setFeeSponsorship: Horizon, asked only by a      *)
(* deployment that means to sponsor, reports a funded account.             *)
FundingConfirmed ==
    /\ phase = "funding"
    /\ config.keysAgree
    /\ sponsored' = config.sponsors
    /\ heard' = [heard EXCEPT !.funded = config.sponsors]
    /\ phase' = "contract"
    /\ UNCHANGED <<poolVars, config, boots, coordinator, signers, capabilities>>

(* The keys disagree, the sponsor is not funded, or Horizon does not       *)
(* answer, which counts as not funded.                                     *)
FundingThrows ==
    /\ phase = "funding"
    /\ ~config.keysAgree \/ config.sponsors
    /\ Exit

(* resolveUptoGate answers `deployed`; capabilities are set, the jobs and  *)
(* the final gate are checked, and the server listens.  Any RPC failure    *)
(* counts as "not deployed".                                               *)
Gate(deployed) ==
    /\ phase = "contract"
    /\ deployed => config.contract
    /\ heard' = [heard EXCEPT !.deployed = deployed]
    /\ UNCHANGED <<poolVars, config, boots, sponsored, signers>>

Claims(deployed, jobs) ==
    [feesAreSponsored |-> sponsored, upto |-> deployed, jobs |-> jobs, checked |-> TRUE]

ChecksPass(deployed) ==
    /\ Gate(deployed)
    /\ capabilities' = Claims(deployed, config.jobs)
    /\ JobsAgree /\ SupportedIsTruthful
    /\ phase' = "serving"
    /\ UNCHANGED coordinator

ChecksThrow(deployed) ==
    /\ Gate(deployed)
    /\ capabilities' = Claims(deployed, {})
    /\ ~(JobsAgree /\ SupportedIsTruthful)
    /\ phase' = "exited"
    /\ coordinator' = FALSE

----------------------------------------------------------------------------
(* stop(), and the ends of a process.                                      *)

(* SIGINT or SIGTERM: no longer ready; the server takes no new requests    *)
(* and finishes those it has.                                              *)
Stop ==
    /\ phase = "serving"
    /\ phase' = "draining"
    /\ UNCHANGED poolVars
    /\ UNCHANGED <<config, boots, coordinator, sponsored, signers, capabilities, heard>>

Open(r) == legacy[r] \notin {"new"} \cup Answers

(* httpServer.close has called back: shut down the pool, then exit(0).     *)
Close ==
    /\ phase = "draining"
    /\ \A r \in Requests : ~Open(r)
    /\ Shutdown
    /\ phase' = "exited"
    /\ coordinator' = FALSE
    /\ UNCHANGED <<config, boots, sponsored, signers, capabilities, heard>>

(* The pool lives in the memory of its process.                            *)
PoolForgotten ==
    /\ channel' = [c \in Channels |-> "absent"]
    /\ isInitialized' = FALSE
    /\ acquisitionQueue' = <<>>
    /\ armed' = {} /\ timers' = 0 /\ immediates' = 0
    /\ held' = [r \in Requests |-> NoChannel]

(* The process is killed; a second signal does the same, for close() of a  *)
(* closing server rejects and nobody catches it.                           *)
Die ==
    /\ phase \in {"serving", "draining"}
    /\ legacy' = [r \in Requests |-> IF Open(r) THEN "lost" ELSE legacy[r]]
    /\ PoolForgotten
    /\ phase' = "exited"
    /\ coordinator' = FALSE
    /\ UNCHANGED <<config, boots, sponsored, signers, capabilities, heard>>

(* Another process, with whatever environment the operator gives it.       *)
Restart ==
    /\ phase = "exited"
    /\ boots < MaxBoots
    /\ phase' = "down"
    /\ config' \in Configs
    /\ signers' = {Facilitator}
    /\ sponsored' = FALSE
    /\ capabilities' = Unconfirmed
    /\ heard' = Nothing
    /\ PoolForgotten
    /\ UNCHANGED <<legacy, boots, coordinator>>

----------------------------------------------------------------------------
Running == phase \in {"serving", "draining"}

Booting ==
    \/ StartThrows \/ Start
    \/ \E c \in Channels : PoolInitializes(c)
    \/ PoolReady \/ PoolThrows
    \/ FundingConfirmed \/ FundingThrows
    \/ \E deployed \in BOOLEAN : ChecksPass(deployed) \/ ChecksThrow(deployed)

(* A new request comes in while the server listens; those it has go on     *)
(* until they are answered.                                                *)
Serving(r) ==
    /\ Running
    /\ legacy[r] = "new" => phase = "serving"
    /\ LegacyStep(r)
    /\ UNCHANGED lifeVars

Background == Running /\ PoolStep /\ UNCHANGED lifeVars

ServiceNext ==
    \/ Booting \/ Stop \/ Close \/ Die \/ Restart
    \/ \E r \in Requests : Serving(r)
    \/ Background

ServiceSpec == ServiceInit /\ [][ServiceNext]_serviceVars

----------------------------------------------------------------------------
(* While the service is up, /supported, /ready and the capability          *)
(* descriptor claim only what this very process was told by the network:   *)
(* sponsorship after a funded sponsor was seen, upto after its contract    *)
(* was, jobs only in schemes it advertises, and the published key among    *)
(* the signers (server.ts: "Everything advertised is confirmed here").     *)
ClaimsAreConfirmed ==
    Running =>
        /\ capabilities.checked
        /\ capabilities.feesAreSponsored = sponsored
        /\ sponsored => heard.funded
        /\ capabilities.upto => heard.deployed
        /\ "upto" \in capabilities.jobs => capabilities.upto
        /\ Facilitator \in signers \cup (IF sponsored THEN {Facilitator} ELSE {})
=============================================================================
