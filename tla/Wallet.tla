------------------------------- MODULE Wallet -------------------------------
(***************************************************************************)
(* What Core keeps of a wallet (lib/wallet): the seed, the cache of keys   *)
(* derived from it and the keyset, all encrypted under the wallet KEK; the *)
(* commands that create and use them, and the wipe (lib/onboarding) that   *)
(* deletes them together with the means to unlock the device.              *)
(*                                                                         *)
(* The NFC task hands out one command at a time, so one program runs: the  *)
(* operations it still has to do, each of them at most one change of the   *)
(* flash.  Power may be lost between any two.                              *)
(***************************************************************************)
EXTENDS Integers, Sequences

CONSTANTS
    TemplateCount, \* how many fingerprint templates there can be
    MaxWipes,      \* bound on the wipes begun
    MaxFaults,     \* bound on file operations that fail
    MaxCrashes     \* bound on losses of power

ASSUME ConstantsAssumption ==
    {TemplateCount, MaxWipes, MaxFaults, MaxCrashes} \subseteq Nat

\* A KEK or a seed is generated when there is none, and each was lost to a
\* wipe, a read or write that failed or a loss of power.
MaxMade == 1 + MaxWipes + MaxFaults + MaxCrashes

VARIABLES
    flash,     \* the files
    ram,       \* wkek, wkek_loaded, derived_key_cache; what the command derived
    todo,      \* the operations the running command still has to do
    given,     \* history: seeds of the keys answered since the seed was last deleted
    failed,    \* history: how many deletions of the running wipe failed
    spoiled,   \* history: was such a wipe cut by a loss of power, or given up?
    count      \* how many of the things the constants bound

vars == <<flash, ram, todo, given, failed, spoiled, count>>

\* A template's file has its number in its name.
Templates == 0 .. TemplateCount - 1
FileOf(t) == <<"template", t>>
Named == {"wkek", "seed", "cache", "keyset", "pubkey", "unlock"}
Fingerprints == {FileOf(t) : t \in Templates}
Files == {<<"file", n>> : n \in Named} \cup Fingerprints

wkek == <<"file", "wkek">>
seed == <<"file", "seed">>
cache == <<"file", "cache">>
keyset == <<"file", "keyset">>
pubkey == <<"file", "pubkey">>
unlock == <<"file", "unlock">>

CacheKeys == {"external", "internal", "auth"}
NoKeys == [k \in CacheKeys |-> 0]

\* A file is sealed under a KEK (0: not encrypted) and holds keys of seeds.
\* LittleFS enters a new file, empty, into its directory when it is opened.
Sealed(key, holds) == [key |-> key, holds |-> holds]
Absent == Sealed(-1, NoKeys)
Empty == Sealed(-2, NoKeys)
OfSeed(s) == [k \in CacheKeys |-> s]

TypeOK ==
    /\ flash \in [Files -> [key : -2 .. MaxMade, holds : [CacheKeys -> 0 .. MaxMade]]]
    /\ ram \in [wkek : 0 .. MaxMade, loaded : BOOLEAN, init : BOOLEAN,
                cache : [CacheKeys -> 0 .. MaxMade], seed : 0 .. MaxMade,
                got : SUBSET (1 .. MaxMade)]
    /\ given \subseteq 1 .. MaxMade
    /\ failed \in 0 .. MaxFaults /\ spoiled \in BOOLEAN
    /\ count \in [keys : 0 .. MaxMade, seeds : 0 .. MaxMade, wipes : 0 .. MaxWipes,
                  faults : 0 .. MaxFaults, misreads : 0 .. MaxFaults,
                  crashes : 0 .. MaxCrashes]
    /\ ram.loaded => ram.wkek > 0
    /\ ram.init => 0 \notin {ram.cache[k] : k \in CacheKeys}

\* RAM after a reset: the KEK is not loaded, the cache not initialised.
Booted == [wkek |-> 0, loaded |-> FALSE, init |-> FALSE, cache |-> NoKeys, seed |-> 0, got |-> {}]

Init ==
    /\ flash = [f \in Files |-> Absent]
    /\ ram = Booted
    /\ todo = <<>>
    /\ given = {}
    /\ failed = 0 /\ spoiled = FALSE
    /\ count = [keys |-> 0, seeds |-> 0, wipes |-> 0, faults |-> 0,
                misreads |-> 0, crashes |-> 0]

Idle == todo = <<>>

\* lfs_stat waits for the file system without a timeout, and is taken not to fail.
fs_file_exists(f) == flash[f] # Absent
wallet_is_initialized == fs_file_exists(seed)

\* aes_gcm_decrypt: the tag is right only under the key the file was sealed with.
Opens(f) == flash[f].key = ram.wkek /\ ram.wkek > 0

-----------------------------------------------------------------------------
(* Programs: sequences of operations, each with the file or key it is about *)

fs_util_write_global(f) == <<<<"open", f>>, <<"write", f>>>>

wkek_lazy_init == <<<<"wkek", wkek>>>>

wkek_encrypt_and_store(f) == wkek_lazy_init \o fs_util_write_global(f)

\* The key derived from the seed goes to `dest`: a key of the cache, or the caller.
derive_key_priv_from_seed(dest) == wkek_lazy_init \o <<<<"seed", seed>>, <<"derived", dest>>>>

create_derived_key_cache ==
    derive_key_priv_from_seed("external") \o derive_key_priv_from_seed("internal")
    \o derive_key_priv_from_seed("auth") \o wkek_encrypt_and_store(cache)

wallet_derive_key_priv_using_cache(path) == <<<<"use", path>>>>

key_manager_task_port_handle_verify_keys_and_build_descriptor ==
    wallet_derive_key_priv_using_cache("auth") \o derive_key_priv_from_seed("caller")
    \o <<<<"wsm", keyset>>>> \o wkek_encrypt_and_store(keyset)
    \o fs_util_write_global(pubkey) \o wallet_derive_key_priv_using_cache("auth")
    \o <<<<"reply", seed>>>>

Removals(fs) == [i \in DOMAIN fs |-> <<"remove", fs[i]>>]

\* Mutant: the seed goes before the keys that were derived from it.
SeedFirst == Removals(<<seed, cache, keyset, wkek>>)

wallet_remove_files == Removals(<<cache, keyset, seed, wkek>>)

bio_wipe_state == Removals([i \in 1 .. TemplateCount |-> FileOf(i - 1)])

\* Mutant: the fingerprints go before the wallet.
FingerprintsFirst ==
    Removals(<<pubkey>>) \o bio_wipe_state \o wallet_remove_files \o Removals(<<unlock>>)

\* The deletions of one pass of onboarding_wipe_state.
WipePass ==
    Removals(<<pubkey>>) \o wallet_remove_files \o Removals(<<unlock>>) \o bio_wipe_state

onboarding_files_remain ==
    \E f \in {seed, wkek, unlock} \cup Fingerprints : fs_file_exists(f)

CanUnlock == \E f \in {unlock} \cup Fingerprints : fs_file_exists(f)

onboarding_complete == CanUnlock \/ wallet_is_initialized

-----------------------------------------------------------------------------
(* Operations *)

Doing(what) == todo # <<>> /\ Head(todo)[1] = what
Subject == Head(todo)[2]

Does(program) == todo' = program \o Tail(todo)

\* A call returned false.  While the cache is being initialised the key is
\* then derived from the seed; any other command answers an error.
Fails ==
    LET uses == {i \in DOMAIN todo : todo[i][1] = "hit"} IN
    IF uses = {} THEN todo' = <<>>
    ELSE LET i == CHOOSE j \in uses : \A k \in uses : j <= k IN
         todo' = derive_key_priv_from_seed("caller") \o SubSeq(todo, i + 1, Len(todo))

Fault ==
    /\ count.faults < MaxFaults
    /\ count' = [count EXCEPT !.faults = @ + 1]

Content(f) ==
    CASE f = wkek -> Sealed(ram.wkek, NoKeys)
      [] f \in {seed, keyset} -> Sealed(ram.wkek, OfSeed(ram.seed))
      [] f = cache -> Sealed(ram.wkek, ram.cache)
      [] OTHER -> Sealed(0, NoKeys)

FsOpen ==
    /\ Doing("open")
    /\ \/ /\ flash' = [flash EXCEPT ![Subject] = IF @ = Absent THEN Empty ELSE @]
          /\ Does(<<>>)
          /\ UNCHANGED count
       \/ /\ Fault
          /\ Fails
          /\ UNCHANGED flash
    /\ UNCHANGED <<ram, given, failed, spoiled>>

\* Mutant: the result of a write is not looked at.
WriteUnchecked ==
    /\ Doing("write")
    /\ \/ /\ flash' = [flash EXCEPT ![Subject] = Content(Subject)]
          /\ UNCHANGED count
       \/ /\ Fault
          /\ UNCHANGED flash
    /\ Does(<<>>)
    /\ UNCHANGED <<ram, given, failed, spoiled>>

FsWrite ==
    /\ Doing("write")
    /\ \/ /\ flash' = [flash EXCEPT ![Subject] = Content(Subject)]
          /\ Does(<<>>)
          /\ UNCHANGED count
       \/ /\ Fault
          /\ Fails
          /\ UNCHANGED flash
    /\ UNCHANGED <<ram, given, failed, spoiled>>

\* wkek_exists, and if it does not wkek_generate_and_store.
WkekLazyInit ==
    /\ Doing("wkek")
    /\ \/ /\ ~fs_file_exists(wkek)
          /\ count' = [count EXCEPT !.keys = @ + 1]
          /\ ram' = [ram EXCEPT !.wkek = count.keys + 1]
          /\ Does(fs_util_write_global(wkek) \o <<<<"load", wkek>>>>)
       \/ /\ fs_file_exists(wkek)
          /\ Does(<<<<"load", wkek>>>>)
          /\ UNCHANGED <<ram, count>>
    /\ UNCHANGED <<flash, given, failed, spoiled>>

wkek_load ==
    /\ Doing("load")
    /\ \/ /\ ram.loaded \/ flash[wkek].key > 0
          /\ ram' = [ram EXCEPT !.loaded = TRUE,
                                !.wkek = IF ram.loaded THEN @ ELSE flash[wkek].key]
          /\ Does(<<>>)
          /\ UNCHANGED count
       \/ /\ ~ram.loaded
          /\ (flash[wkek].key <= 0 /\ UNCHANGED count) \/ Fault
          /\ Fails
          /\ UNCHANGED ram
    /\ UNCHANGED <<flash, given, failed, spoiled>>

\* A seed that is not there, or cannot be read, is replaced by a new one, also
\* when the file is intact and only this read failed: the lock of the one open
\* file was not free in time, or LittleFS answered an error.
Misread ==
    /\ count.faults < MaxFaults
    /\ count' = [count EXCEPT !.seeds = @ + 1, !.faults = @ + 1, !.misreads = @ + 1]

master_key_lazy_init ==
    /\ Doing("seed")
    /\ \/ /\ Opens(seed)
          /\ ram' = [ram EXCEPT !.seed = flash[seed].holds["auth"]]
          /\ Does(<<>>)
          /\ UNCHANGED count
       \/ /\ IF Opens(seed) THEN Misread ELSE count' = [count EXCEPT !.seeds = @ + 1]
          /\ ram' = [ram EXCEPT !.seed = count.seeds + 1]
          /\ Does(wkek_encrypt_and_store(seed))
    /\ UNCHANGED <<flash, given, failed, spoiled>>

Derived ==
    /\ Doing("derived")
    /\ ram' = IF Subject = "caller" THEN [ram EXCEPT !.got = @ \cup {ram.seed}]
              ELSE [ram EXCEPT !.cache[Subject] = ram.seed]
    /\ Does(<<>>)
    /\ UNCHANGED <<flash, given, failed, spoiled, count>>

\* wallet_derive_key_priv_using_cache up to the file of the cache.
UseCache ==
    LET path == Subject IN
    /\ Doing("use")
    /\ IF path = "auth" /\ ~fs_file_exists(cache) THEN Does(derive_key_priv_from_seed("caller"))
       ELSE IF ram.init THEN Does(<<<<"hit", path>>>>)
       ELSE IF ~fs_file_exists(cache) THEN Does(create_derived_key_cache \o <<<<"hit", path>>>>)
       ELSE IF flash[cache] = Empty THEN Does(derive_key_priv_from_seed("caller"))
       ELSE Does(wkek_lazy_init \o <<<<"unseal", cache>>, <<"hit", path>>>>)
    /\ UNCHANGED <<flash, ram, given, failed, spoiled, count>>

\* A tag that is wrong may leave anything in derived_key_cache, its version
\* included; a wrong version has the file deleted and the cache created anew.
\* The read may fail, and the deletion.
UnsealCache ==
    /\ Doing("unseal") /\ Subject = cache
    /\ \/ /\ Opens(cache)
          /\ ram' = [ram EXCEPT !.cache = flash[cache].holds]
          /\ Does(<<>>)
          /\ UNCHANGED <<flash, count>>
       \/ /\ ~Opens(cache)
          /\ Fails
          /\ UNCHANGED <<flash, ram, count>>
       \/ /\ ~Opens(cache)
          /\ flash' = [flash EXCEPT ![cache] = Absent]
          /\ Does(create_derived_key_cache)
          /\ UNCHANGED <<ram, count>>
       \/ /\ Fault
          /\ Fails
          /\ UNCHANGED <<flash, ram>>
    /\ UNCHANGED <<given, failed, spoiled>>

\* The cache is initialised; the key comes from it.
CacheHit ==
    /\ Doing("hit")
    /\ ram' = [ram EXCEPT !.init = TRUE, !.got = @ \cup {ram.cache[Subject]}]
    /\ Does(<<>>)
    /\ UNCHANGED <<flash, given, failed, spoiled, count>>

\* The server's signature over the keys is right, or the command ends.
VerifyWsm ==
    /\ Doing("wsm")
    /\ Does(<<>>) \/ todo' = <<>>
    /\ UNCHANGED <<flash, ram, given, failed, spoiled, count>>

UnsealKeyset ==
    /\ Doing("unseal") /\ Subject = keyset
    /\ \/ /\ Opens(keyset)
          /\ ram' = [ram EXCEPT !.got = @ \cup {flash[keyset].holds["auth"]}]
          /\ Does(<<>>)
          /\ UNCHANGED count
       \/ /\ (~Opens(keyset) /\ UNCHANGED count) \/ Fault
          /\ Fails
          /\ UNCHANGED ram
    /\ UNCHANGED <<flash, given, failed, spoiled>>

Reply ==
    /\ Doing("reply")
    /\ given' = given \cup ram.got
    /\ Does(<<>>)
    /\ UNCHANGED <<flash, ram, failed, spoiled, count>>

\* No caller looks at the result of a deletion.
fs_remove ==
    /\ Doing("remove")
    /\ \/ /\ flash' = [flash EXCEPT ![Subject] = Absent]
          /\ given' = IF Subject = seed THEN {} ELSE given
          /\ UNCHANGED <<failed, count>>
       \/ /\ Fault
          /\ fs_file_exists(Subject)
          /\ failed' = failed + 1
          /\ UNCHANGED <<flash, given>>
    /\ Does(<<>>)
    /\ UNCHANGED <<ram, spoiled>>

\* Mutant: the deletions are tried again only once.
VerifyOnce ==
    /\ Doing("verify")
    /\ Does(IF Subject < 1 /\ onboarding_files_remain
            THEN WipePass \o <<<<"verify", Subject + 1>>>> ELSE <<<<"wiped", 0>>>>)
    /\ UNCHANGED <<flash, ram, given, failed, spoiled, count>>

VerifyWiped ==
    /\ Doing("verify")
    /\ Does(IF Subject < 3 /\ onboarding_files_remain
            THEN WipePass \o <<<<"verify", Subject + 1>>>> ELSE <<<<"wiped", 0>>>>)
    /\ UNCHANGED <<flash, ram, given, failed, spoiled, count>>

\* A confirmed wipe is answered now, before the reset; the direct one, of W1 and
\* of a W3 that is not set up, was answered when it was handed to the key
\* manager, before anything was removed.
mcu_reset_with_reason ==
    /\ Doing("wiped")
    /\ ram' = Booted
    /\ todo' = <<>>
    /\ failed' = 0
    /\ spoiled' = (spoiled \/ onboarding_files_remain)
    /\ UNCHANGED <<flash, given, count>>

-----------------------------------------------------------------------------
(* Commands *)

Command(program) ==
    /\ Idle
    /\ todo' = program
    /\ ram' = [ram EXCEPT !.seed = 0, !.got = {}]

\* An authenticated command: somebody could unlock the device.
handle_derive ==
    /\ CanUnlock
    /\ Command(derive_key_priv_from_seed("caller") \o <<<<"reply", seed>>>>)
    /\ UNCHANGED <<flash, given, failed, spoiled, count>>

key_manager_derive_and_sign ==
    /\ CanUnlock
    /\ \E path \in CacheKeys :
         Command(wallet_derive_key_priv_using_cache(path) \o <<<<"reply", seed>>>>)
    /\ UNCHANGED <<flash, given, failed, spoiled, count>>

BuildDescriptor ==
    /\ CanUnlock
    /\ Command(key_manager_task_port_handle_verify_keys_and_build_descriptor)
    /\ UNCHANGED <<flash, given, failed, spoiled, count>>

key_manager_task_port_handle_get_address ==
    /\ CanUnlock
    /\ flash[keyset] \notin {Absent, Empty}
    /\ Command(wkek_lazy_init \o <<<<"unseal", keyset>>, <<"reply", seed>>>>)
    /\ UNCHANGED <<flash, given, failed, spoiled, count>>

\* Not an authenticated command.
handle_seal_csek ==
    /\ Command(wkek_lazy_init)
    /\ UNCHANGED <<flash, given, failed, spoiled, count>>

\* Mutant: the keys are zeroed and the cache still counts as initialised.
ClearStaysInitialised ==
    /\ Idle
    /\ ram' = [ram EXCEPT !.cache = NoKeys]
    /\ UNCHANGED <<flash, todo, given, failed, spoiled, count>>

wallet_clear_derived_key_cache ==
    /\ Idle
    /\ ram' = [ram EXCEPT !.cache = NoKeys, !.init = FALSE]
    /\ UNCHANGED <<flash, todo, given, failed, spoiled, count>>

\* Setting up a fingerprint or an unlock secret: the authentication task's.
SetUp ==
    /\ Idle
    /\ CanUnlock \/ ~onboarding_complete
    /\ \E f \in {unlock} \cup Fingerprints : flash' = [flash EXCEPT ![f] = Sealed(0, NoKeys)]
    /\ UNCHANGED <<ram, todo, given, failed, spoiled, count>>

\* A wipe is confirmed by somebody who can unlock, unless nothing is set up.
onboarding_wipe_state ==
    /\ CanUnlock \/ ~onboarding_complete
    /\ count.wipes < MaxWipes
    /\ Command(WipePass \o <<<<"verify", 0>>>>)
    /\ count' = [count EXCEPT !.wipes = @ + 1]
    /\ UNCHANGED <<flash, given, failed, spoiled>>

PowerLoss ==
    /\ count.crashes < MaxCrashes
    /\ ~Idle \/ ram # Booted
    /\ count' = [count EXCEPT !.crashes = @ + 1]
    /\ ram' = Booted
    /\ todo' = <<>>
    /\ spoiled' = (spoiled \/ failed > 0)
    /\ failed' = 0
    /\ UNCHANGED <<flash, given>>

Next ==
    \/ FsOpen \/ FsWrite \/ WkekLazyInit \/ wkek_load \/ master_key_lazy_init \/ Derived
    \/ UseCache \/ UnsealCache \/ CacheHit \/ VerifyWsm \/ UnsealKeyset \/ Reply
    \/ fs_remove \/ VerifyWiped \/ mcu_reset_with_reason
    \/ handle_derive \/ key_manager_derive_and_sign \/ BuildDescriptor
    \/ key_manager_task_port_handle_get_address \/ handle_seal_csek
    \/ wallet_clear_derived_key_cache \/ SetUp \/ onboarding_wipe_state \/ PowerLoss

Spec == Init /\ [][Next]_vars

-----------------------------------------------------------------------------
(* Properties *)

\* The KEK in flash opens the file.
Readable(f) == flash[f].key = flash[wkek].key /\ flash[f].key > 0

\* A key that was answered, by whichever command and however it was found, is
\* a key of the seed in flash, and the KEK in flash opens that seed: what the
\* app registered survives failed writes, losses of power and earlier wipes,
\* and failing reads of every file but one: when the seed itself is misread
\* although it is intact, master_key_lazy_init replaces it, and the keys that
\* were answered are lost.
AnsweredKeysKept ==
    (Idle /\ ~spoiled /\ count.misreads = 0) =>
        \A s \in given : Readable(seed) /\ flash[seed].holds = OfSeed(s)

\* Keys derived from a seed do not outlive it: what a later wallet could read
\* from the cache or the keyset belongs to the seed in flash, wherever a wipe
\* or the creation of a file was interrupted, unless an intact seed was misread
\* and replaced.
NoStaleKeys ==
    (~spoiled /\ count.misreads = 0) =>
        \A f \in {cache, keyset} : Idle /\ Readable(f) =>
            Readable(seed) /\ flash[f].holds = flash[seed].holds

\* A wipe that was interrupted can be tried again: whatever is left of a
\* wallet, something to unlock the device with is left as well.
StaysUnlockable == (Idle /\ ~spoiled /\ onboarding_complete) => CanUnlock

\* onboarding_wipe_state returns, and a confirmed wipe is answered with SUCCESS,
\* only when the seed, the KEK and everything that unlocks the device are gone,
\* though up to three deletions failed.
WipedClean == Doing("wiped") /\ failed <= 3 => ~onboarding_files_remain
==========================================================================
