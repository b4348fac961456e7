------------------------------- MODULE ApiToken -------------------------------
(***************************************************************************)
(* resolveApiToken of packages/core/src/server/api-token.ts, run by        *)
(* processes that share their state directories and may start together.    *)
(*                                                                         *)
(* Within a process the function does not wait; the steps of two processes *)
(* interleave at each access to a file.  A token is the process that made  *)
(* it and the start at which it did.                                       *)
(***************************************************************************)
EXTENDS Naturals, FiniteSets, Undefined

CONSTANTS
    Replicas,   \* the processes
    Candidates, \* number of state directories, 1 the most specific
    MaxStarts   \* bounds the starts of a process

ASSUME CandidatesAssumption == Candidates \in Nat \ {0} /\ MaxStarts \in Nat \ {0}

VARIABLES
    writable,   \* directories the processes can write to
    private,    \* directories where a file they write is theirs and nobody else's
    adoptable,  \* directories whose file passes adoptionRefusalReason
    tokenFile,  \* the token in each directory
    starts,     \* starts of each process so far
    tokenStage, \* where its call of resolveApiToken stands
    candidate,  \* the directory it is at
    token,      \* the token it serves, or has made
    tokenPath,  \* ResolvedApiToken.path
    overtaken,  \* history: another process wrote that file after this one read it
    welcomed    \* history: processes that started when a token could be read

dirVars == <<writable, private, adoptable, tokenFile>>
resolverVars == <<starts, tokenStage, candidate, token, tokenPath>>
tokenVars == <<dirVars, resolverVars, overtaken, welcomed>>

Dirs == 1..Candidates
\* One that was there before any process started.
Given == <<None, 0>>
Tokens == Replicas \X (1..MaxStarts) \union {Given}

\* No token and no directory is taken for none.
ASSUME TokensAssumption == None \notin Tokens \union Dirs

TokenTypeOK ==
    /\ writable \subseteq Dirs /\ private \subseteq Dirs /\ adoptable \subseteq Dirs
    /\ tokenFile \in [Dirs -> Tokens \union {None}]
    /\ starts \in [Replicas -> 0..MaxStarts]
    /\ tokenStage \in [Replicas -> {"off", "reading", "writing", "checking", "serving"}]
    /\ candidate \in [Replicas -> Dirs]
    /\ token \in [Replicas -> Tokens \union {None}]
    /\ tokenPath \in [Replicas -> Dirs \union {None}]
    /\ overtaken \subseteq Replicas /\ welcomed \subseteq Replicas

TokenInit ==
    /\ writable \in SUBSET Dirs /\ private \in SUBSET Dirs
    /\ tokenFile \in [Dirs -> {None, Given}]
    /\ adoptable \in SUBSET {d \in Dirs : tokenFile[d] # None}
    /\ starts = [p \in Replicas |-> 0]
    /\ tokenStage = [p \in Replicas |-> "off"]
    /\ candidate = [p \in Replicas |-> 1]
    /\ token = [p \in Replicas |-> None] /\ tokenPath = [p \in Replicas |-> None]
    /\ overtaken = {} /\ welcomed = {}

Go(p, stage, d) ==
    /\ tokenStage' = [tokenStage EXCEPT ![p] = stage]
    /\ candidate' = [candidate EXCEPT ![p] = d]

\* The call returns: a token and the file that holds it, or none.
Serve(p, value, path) ==
    /\ tokenStage' = [tokenStage EXCEPT ![p] = "serving"]
    /\ token' = [token EXCEPT ![p] = value]
    /\ tokenPath' = [tokenPath EXCEPT ![p] = path]
    /\ overtaken' = overtaken \ {p}
    /\ UNCHANGED candidate

\* readToken: a file that is not to be trusted is as good as none.
Readable(d) == IF d \in adoptable THEN tokenFile[d] ELSE None

\* A process starts, for the first time or again.
StartReplica(p) ==
    /\ tokenStage[p] \in {"off", "serving"} /\ starts[p] < MaxStarts
    /\ starts' = [starts EXCEPT ![p] = @ + 1]
    /\ Go(p, "reading", 1)
    /\ token' = [token EXCEPT ![p] = None] /\ tokenPath' = [tokenPath EXCEPT ![p] = None]
    /\ overtaken' = overtaken \ {p}
    /\ welcomed' = IF \E d \in adoptable : tokenFile[d] # None
                      THEN welcomed \union {p} ELSE welcomed \ {p}
    /\ UNCHANGED dirVars

\* The token in the next directory is adopted; when there is none in any, one is made.
ReadCandidate(p) ==
    /\ tokenStage[p] = "reading"
    /\ LET dir == candidate[p] IN
          IF Readable(dir) # None
             THEN Serve(p, tokenFile[dir], dir)
             ELSE /\ IF dir < Candidates
                        THEN Go(p, "reading", dir + 1) /\ UNCHANGED token
                        ELSE Go(p, "writing", 1) /\ token' = [token EXCEPT ![p] = <<p, starts[p]>>]
                  /\ UNCHANGED <<tokenPath, overtaken>>
    /\ UNCHANGED <<dirVars, starts, welcomed>>

\* writeToken renames a temporary file over it, or the next directory is tried; after
\* the last one the token is kept in memory.
WriteCandidate(p) ==
    /\ tokenStage[p] = "writing"
    /\ LET dir == candidate[p] IN
          IF dir \in writable
             THEN /\ tokenFile' = [tokenFile EXCEPT ![dir] = token[p]]
                  /\ adoptable' = IF dir \in private THEN adoptable \union {dir} ELSE adoptable \ {dir}
                  /\ overtaken' = overtaken \union
                        {q \in Replicas \ {p} : tokenStage[q] = "serving" /\ tokenPath[q] = dir}
                  /\ Go(p, "checking", dir)
                  /\ UNCHANGED <<token, tokenPath>>
             ELSE /\ IF dir < Candidates
                        THEN Go(p, "writing", dir + 1) /\ UNCHANGED <<token, tokenPath, overtaken>>
                        ELSE Serve(p, token[p], None)
                  /\ UNCHANGED <<tokenFile, adoptable>>
    /\ UNCHANGED <<writable, private, starts, welcomed>>

\* Mutant: the race is noted and lost, the token kept.
OwnToken(p, onDisk) == token[p]

TokenOnDisk(p, onDisk) == onDisk

\* classifyWriteBack: what is on disk now is ours, another process's, or unreadable.
CheckCandidate(p) ==
    /\ tokenStage[p] = "checking"
    /\ LET dir == candidate[p]
           onDisk == Readable(dir) IN
          IF onDisk = None THEN Serve(p, token[p], None) ELSE Serve(p, TokenOnDisk(p, onDisk), dir)
    /\ UNCHANGED <<dirVars, starts, welcomed>>

TokenNext ==
    \E p \in Replicas : StartReplica(p) \/ ReadCandidate(p) \/ WriteCandidate(p) \/ CheckCandidate(p)

TokenSpec == TokenInit /\ [][TokenNext]_tokenVars

-----------------------------------------------------------------------------
(* Properties.                                                             *)

\* A process serves the token in the file that it names, unless another one wrote that
\* file after this one's last look at it (the window that the read-back leaves); and
\* one that starts when a token can be read serves a token from a file and makes none.
ServesItsFile ==
    \A p \in Replicas :
       /\ tokenStage[p] = "serving" /\ tokenPath[p] # None =>
             token[p] = tokenFile[tokenPath[p]] \/ p \in overtaken
       /\ p \in welcomed =>
             /\ tokenStage[p] \notin {"writing", "checking"}
             /\ tokenStage[p] = "serving" => tokenPath[p] # None /\ token[p] # <<p, starts[p]>>
=============================================================================
