------------------------------- MODULE Chunks -------------------------------
(***************************************************************************)
(* The names of the JavaScript chunks of a linked graph                    *)
(* (finalize_chunk_paths, src/internal/linker/mod.rs), after their parts   *)
(* are in order (PartOrder) and what crosses chunk boundaries is known     *)
(* (ChunkLinks): the name of a chunk hashes the isolated hashes of all the *)
(* chunks it imports.  The recursive traversal is modelled by its call     *)
(* stack, and the digest by the chunks whose isolated hashes it got.       *)
(***************************************************************************)
EXTENDS PartOrder

VARIABLES
    finalizing, \* finalize_chunk_paths has begun
    hashing,    \* the chunks whose template asks for a hash
    marks,      \* per chunk, the key of the traversal that visited it last
    appending,  \* the calls of append(), the last on top
    digest,     \* what the traversal has hashed
    hashed      \* per chunk that is done, what its name hashes

nameVars == <<finalizing, hashing, marks, appending, digest, hashed>>

(* cross_chunk_imports: dynamic imports come first.                        *)
CrossChunkImports(c) == IF graph.codeSplitting THEN dynamic[c] \cup DOMAIN imports[c] ELSE {}

ImportedBefore(c, o, d) ==
    \/ o \in dynamic[c] /\ d \notin dynamic[c]
    \/ (o \in dynamic[c] <=> d \in dynamic[c]) /\ Before(o, d)

(* Mutant: what was visited for any chunk is not visited again.            *)
IsVisited_ForAny(c, key) == marks[c] # {}

(* The chunks share one array of marks; each has a key of its own, and no  *)
(* chunk has the key of the marks at the start.                            *)
IsVisited(c, key) == marks[c] = key

Key == appending[1]
Unhashed(c) == {o \in CrossChunkImports(c) : ~IsVisited(o, Key)}

(* "[hash]" is in the templates of all chunks, or of the shared ones only. *)
FinalizeChunkPaths ==
    /\ ~finalizing /\ PartsAreOrdered
    /\ stage = IF graph.codeSplitting THEN "crossed" ELSE "computed"
    /\ finalizing' = TRUE
    /\ hashing' \in {chunks, {c \in chunks : EntriesOf(c) = {}}}
    /\ marks' = [c \in chunks |-> {}]
    /\ UNCHANGED <<appending, digest, hashed>>

Hashed(c, h) == [d \in DOMAIN hashed \cup {c} |-> IF d = c THEN h ELSE hashed[d]]

(* The traversal of the next chunk starts from it.                         *)
HashChunk ==
    /\ finalizing /\ appending = <<>>
    /\ \E c \in hashing \ DOMAIN hashed :
          /\ \A d \in (hashing \ DOMAIN hashed) \ {c} : Before(c, d)
          /\ IF IsVisited(c, c)
             THEN hashed' = Hashed(c, <<>>) /\ UNCHANGED <<marks, appending>>
             ELSE /\ marks' = [marks EXCEPT ![c] = c]
                  /\ appending' = <<c>>
                  /\ UNCHANGED hashed
    /\ UNCHANGED <<finalizing, hashing, digest>>

AppendImport ==
    /\ appending # <<>>
    /\ \E o \in Unhashed(Last(appending)) :
          /\ \A d \in Unhashed(Last(appending)) \ {o} : ImportedBefore(Last(appending), o, d)
          /\ marks' = [marks EXCEPT ![o] = Key]
          /\ appending' = Append(appending, o)
    /\ UNCHANGED <<finalizing, hashing, digest, hashed>>

(* What a chunk imports is hashed before the chunk.                        *)
AppendIsolatedHash ==
    /\ appending # <<>> /\ Unhashed(Last(appending)) = {}
    /\ appending' = Front(appending)
    /\ LET now == Append(digest, Last(appending))
       IN  IF Len(appending) = 1
           THEN hashed' = Hashed(Key, now) /\ digest' = <<>>
           ELSE digest' = now /\ UNCHANGED hashed
    /\ UNCHANGED <<finalizing, hashing, marks>>

-----------------------------------------------------------------------------

ChunksInit ==
    /\ LinksInit /\ OrderInit
    /\ finalizing = FALSE /\ hashing = {} /\ marks = <<>>
    /\ appending = <<>> /\ digest = <<>> /\ hashed = <<>>

ChunksNext ==
    \/ Next /\ UNCHANGED <<linkVars, orderVars, nameVars>>
    \/ ComputeChunks /\ UNCHANGED <<orderVars, nameVars>>
    \/ FindImportedParts /\ UNCHANGED <<vars, linkVars, nameVars>>
    \/ PartsAreOrdered /\ ComputeCrossChunkDependencies /\ UNCHANGED <<orderVars, nameVars>>
    \/ (FinalizeChunkPaths \/ HashChunk \/ AppendImport \/ AppendIsolatedHash)
       /\ UNCHANGED <<vars, linkVars, orderVars>>

ChunksSpec == ChunksInit /\ [][ChunksNext]_<<vars, linkVars, orderVars, nameVars>>

-----------------------------------------------------------------------------
(* Properties                                                              *)

(* What a chunk can load: the least set of chunks that has it and all that *)
(* its members import.                                                     *)
ReachedFrom(c) ==
    LET closed == {S \in SUBSET chunks : \A d \in S : CrossChunkImports(d) \subseteq S}
    IN  {d \in chunks : \A S \in closed : c \in S => d \in S}

(* The name of a chunk tells apart all it can load: it hashes the contents *)
(* of every chunk it imports, in however many steps, statically or         *)
(* dynamically and in a circle, and each once, although the traversals of  *)
(* all chunks share their marks.  A file with a stale name would be served *)
(* from a cache for ever (FinalHashTraversal, finalize_chunk_paths).       *)
NamesFollowContents ==
    finalizing /\ DOMAIN hashed = hashing => \A c \in hashing :
        Range(hashed[c]) = ReachedFrom(c) /\ IsInjective(hashed[c])
=============================================================================
