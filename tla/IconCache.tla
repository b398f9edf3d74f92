----------------------------- MODULE IconCache -----------------------------
(* DesktopIconResolver: icons of applications, found in desktop entries and   *)
(* icon directories, with a bounded cache.  A lookup that found nothing is    *)
(* remembered for a while too, and one snapshot makes a bounded number of     *)
(* lookups and directory reads.                                              *)
EXTENDS IconImages, FiniteSets, FiniteSetsExt, Functions

CONSTANTS
  IconNames,      \* safe icon names, numbered in their order
  CacheEntries,   \* MAX_CACHE_ENTRIES
  CacheBytes,     \* MAX_CACHE_ENCODED_BYTES
  NegativeTtl,    \* NEGATIVE_CACHE_TTL_ACCESSES
  LookupLimit,    \* MAX_UNCACHED_LOOKUPS_PER_SNAPSHOT
  VisitLimit,     \* MAX_FALLBACK_DIRECTORY_ENTRIES_PER_SNAPSHOT
  ClockLimit,     \* u64::MAX
  FileLimit,      \* MAX_ICON_FILE_BYTES
  EdgeLimit,      \* MAX_ICON_EDGE
  DecodedLimit,   \* MAX_DECODED_ICON_BYTES
  IconFiles       \* bound: what an icon file may be

ASSUME IconAssumption ==
  /\ IconNames \subseteq Nat /\ IsFiniteSet(IconNames)
  /\ {CacheEntries, CacheBytes, NegativeTtl, LookupLimit} \subseteq Nat
  /\ ClockLimit \in Nat \ {0}
  /\ \A file \in IconFiles : file.encoded \in Nat

VARIABLES
  installed,   \* what the icons on disk take up encoded, 0 if there is none
  cache,       \* the cache: CacheEntry of a name
  cacheBytes,  \* cache_encoded_bytes
  clock,       \* access_clock
  lookups,     \* remaining_uncached_lookups
  visits,      \* remaining_fallback_directory_entries
  denied,      \* history: the name the cache has just said has no icon, or NoName
  since        \* history: accesses since a name got an icon or was last looked up

iconVars == <<installed, cache, cacheBytes, clock, lookups, visits, denied, since>>

NoName == 0

IconInit ==
  /\ installed = [n \in IconNames |-> 0]
  /\ cache = <<>>
  /\ cacheBytes = 0
  /\ clock = 0
  /\ lookups = LookupLimit
  /\ visits = VisitLimit
  /\ denied = NoName
  /\ since = [n \in IconNames |-> 0]

\* decode_png refuses files and images that are too large, broken or indexed.
Decodes(file) ==
  /\ file.bytes <= FileLimit
  /\ {file.width, file.height} \subseteq 1..EdgeLimit
  /\ file.width * file.height * file.channels <= DecodedLimit
  /\ file.whole

\* Both sizes, drawn and encoded; a file that cannot be used is as good as none.
EncodedBytes(file) ==
  LET pixels == file.width * file.height
      edges == {edge \in {SmallEdge, LargeEdge} :
                  Decodes(file) /\ Drawn(file.width, file.height, pixels, edge)}
  IN file.encoded * Cardinality(edges)

InstallIcon(n) ==
  /\ installed[n] = 0
  /\ \E file \in IconFiles : installed' = [installed EXCEPT ![n] = EncodedBytes(file)]
  /\ denied' = NoName
  /\ UNCHANGED <<cache, cacheBytes, clock, lookups, visits, since>>

RemoveIcon(n) ==
  /\ installed[n] # 0
  /\ installed' = [installed EXCEPT ![n] = 0]
  /\ since' = [since EXCEPT ![n] = 0]
  /\ denied' = NoName
  /\ UNCHANGED <<cache, cacheBytes, clock, lookups, visits>>

BeginSnapshot ==
  /\ lookups' = LookupLimit
  /\ visits' = VisitLimit
  /\ denied' = NoName
  /\ UNCHANGED <<installed, cache, cacheBytes, clock, since>>

(***************************************************************************)
(* resolve                                                                 *)
(***************************************************************************)
Bytes(c, names) == SumFunctionOnSet([n \in DOMAIN c |-> c[n].bytes], names)

\* The counter once only the entries of c are left.
Counted(c) == IF clock = ClockLimit THEN 0 ELSE cacheBytes - Bytes(cache, DOMAIN cache \ DOMAIN c)

\* evict_cache_to_limits drops the least recently used until the rest fits: an
\* entry stays if it fits together with those used since (or as recently, with
\* a greater name).
NewerThan(c, n) ==
  {m \in DOMAIN c : c[m].used > c[n].used \/ (c[m].used = c[n].used /\ m >= n)}
Fits(c, names) == Cardinality(names) <= CacheEntries /\ Bytes(c, names) <= CacheBytes
Survivors(c) == {n \in DOMAIN c : Fits(c, NewerThan(c, n))}

\* Mutant: what is evicted is not counted down.
InsertUncounted(c, n, size, access) ==
  IF size > CacheBytes THEN cache' = c /\ cacheBytes' = Counted(c)
  ELSE LET new == [m \in DOMAIN c \cup {n} |->
                    IF m # n THEN c[m] ELSE [bytes |-> size, used |-> access, expires |-> 0]]
       IN cache' = Restrict(new, Survivors(new)) /\ cacheBytes' = Counted(c) + size

\* insert_cache: an answer that is too large is not kept, an empty one expires.
\* The counter follows the entry that is replaced, the new one and those evicted.
Insert(c, n, size, access) ==
  IF size > CacheBytes THEN cache' = c /\ cacheBytes' = Counted(c)
  ELSE LET new == [m \in DOMAIN c \cup {n} |->
                    IF m # n THEN c[m]
                    ELSE [bytes |-> size, used |-> access,
                          expires |-> IF size = 0 THEN Min({access + NegativeTtl, ClockLimit}) ELSE 0]]
       IN /\ cache' = Restrict(new, Survivors(new))
          /\ cacheBytes' = Counted(c) + size - Bytes(new, DOMAIN new \ Survivors(new))

\* next_access empties the cache when the counter is used up.
Accessed == IF clock = ClockLimit THEN <<>> ELSE cache
Access == IF clock = ClockLimit THEN 1 ELSE clock + 1

\* cached_icons removes an expired entry.
Expired(n) ==
  n \in DOMAIN Accessed /\ Accessed[n].expires # 0 /\ Access >= Accessed[n].expires

\* find_icon tries the usual paths, which costs nothing, then as many directory
\* entries as are left: an icon that is only there is found if they reach.
Found(n, cost) ==
  IF installed[n] = 0 \/ cost > visits THEN 0 ELSE installed[n]

Resolve(n) ==
  /\ clock' = Access
  /\ LET kept == IF Expired(n) THEN Restrict(Accessed, DOMAIN Accessed \ {n}) ELSE Accessed
     IN \/ /\ n \in DOMAIN kept
           /\ cache' = [kept EXCEPT ![n].used = Access]
           /\ cacheBytes' = Counted(kept)
           /\ denied' = IF kept[n].bytes = 0 THEN n ELSE NoName
           /\ UNCHANGED <<lookups, visits>>
        \/ /\ n \notin DOMAIN kept /\ lookups = 0
           /\ cache' = kept
           /\ cacheBytes' = Counted(kept)
           /\ denied' = NoName
           /\ UNCHANGED <<lookups, visits>>
        \/ /\ n \notin DOMAIN kept /\ lookups > 0
           /\ lookups' = lookups - 1
           /\ \E cost \in 0..VisitLimit :
                /\ visits' = visits - Min({visits, cost})
                /\ Insert(kept, n, Found(n, cost), Access)
                /\ denied' = NoName
  /\ since' = [m \in IconNames |->
                 IF installed[m] = 0 \/ (m = n /\ lookups' # lookups) THEN 0
                 ELSE Min({since[m] + 1, NegativeTtl})]
  /\ UNCHANGED installed

IconNext ==
  \/ \E n \in IconNames : InstallIcon(n) \/ RemoveIcon(n) \/ Resolve(n)
  \/ BeginSnapshot

IconSpec == IconInit /\ [][IconNext]_iconVars

-----------------------------------------------------------------------------
(* Properties *)

\* However names are looked up, used again, evicted and cleared, the cache stays
\* within its limits and its counter true (saturating arithmetic would hide a
\* wrong one and in time evict everything, or nothing); and a name is denied from
\* the cache for less than the length of an expiry after it was last looked up,
\* however often it is asked for.
CacheSound ==
  /\ cacheBytes = Bytes(cache, DOMAIN cache)
  /\ Fits(cache, DOMAIN cache)
  /\ denied # NoName /\ installed[denied] # 0 => since[denied] < NegativeTtl

=============================================================================
