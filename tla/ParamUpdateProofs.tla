-------------------------- MODULE ParamUpdateProofs --------------------------
(* Proofs about run-time parameter changes, for any frame ids, filters and *)
(* set-parameters calls, and both values of the publish parameters.        *)
EXTENDS ParamUpdate, TLAPS

FlagNames == {"validate_e2e", "e2e_strict"}

\* What the callback's locals and its argument say of the calls so far.
CallbackInv ==
  /\ cb = "idle" => batch = NoBatch /\ before = asked
  /\ cb # "idle" => new = intended
  /\ cb \in {"frame_id", "config"} => \A flag \in FlagNames : batch[flag] = Keep

\* The fields are those of the last call until this one has the lock.
FieldsInv ==
  /\ cb # "frame_id" => frame_id \in FrameIds
  /\ cb \in {"idle", "loop"} =>
       /\ builder = [frame_id |-> frame_id, filter |-> filter]
       /\ batch.frame_id = Keep => frame_id = intended.frame_id
       /\ batch.filter = Keep => filter = intended.filter
  /\ cb = "config" => frame_id = intended.frame_id

\* A flag is the one asked for, or the one before where its store is to come.
FlagsInv ==
  \A flag \in FlagNames :
    IF batch[flag] = Keep THEN flags[flag] = asked[flag]
                          ELSE flags[flag] = before[flag] /\ batch[flag] = asked[flag]

\* config_mutex_ is held through both critical sections that are several steps.
MutexInv ==
  /\ mutex = "cb" <=> cb \in {"frame_id", "config"}
  /\ mutex = "rdi" <=> rdi \in {"cloud", "array"}

\* What on_rdi_frame has built is of the builder's config while it has the lock.
CloudInv == (rdi = "array" => cloud = builder) /\ OneConfigPerFrame

\* The settings a gate may have seen include those of the call in progress.
GateInv ==
  /\ rdi \in {"validate", "strict_crc", "strict_meta", "lock"} =>
       before \in inforce /\ asked \in inforce
  /\ GateNeverTooLax

IInv == TypeOK /\ CallbackInv /\ FieldsInv /\ FlagsInv /\ MutexInv /\ CloudInv
        /\ GateInv /\ LockedReadsWhole

-----------------------------------------------------------------------------
\* Overriding a value by a parameter of the same type, or by none.
LEMMA OverType ==
  ASSUME NEW S, NEW old \in S, NEW v \in S \cup {Keep}
  PROVE  Over(old, v) \in S
BY DEF Over

\* A flag that is loaded is set so in the settings of the call in progress or
\* in those before it: the reason why no mixture of loads is too lax.
LEMMA LoadedFlag ==
  ASSUME IInv, NEW flag \in FlagNames
  PROVE  flags[flag] = before[flag] \/ flags[flag] = asked[flag]
BY DEF IInv, FlagsInv

\* The node starts with the fields, the builder and the flags it was given.
LEMMA InitIInv == Init => IInv
<1> SUFFICES ASSUME Init PROVE IInv
  OBVIOUS
<1>1. TypeOK
  BY ParamConstants DEF Init, TypeOK, Config, Flags, Batch, NoBatch, Good
<1>2. CallbackInv /\ FieldsInv /\ FlagsInv
  BY DEF Init, CallbackInv, FieldsInv, FlagsInv, FlagNames, NoBatch
<1>3. MutexInv /\ CloudInv /\ GateInv /\ LockedReadsWhole
  BY DEF Init, MutexInv, CloudInv, GateInv, OneConfigPerFrame, GateNeverTooLax,
     LockedReadsWhole
<1> QED BY <1>1, <1>2, <1>3 DEF IInv

-----------------------------------------------------------------------------
(* The callback                                                            *)

\* The begin of a call.
LEMMA BeginsIInv ==
  ASSUME IInv, NEW b \in Batches, CbBegins(b)
  PROVE  IInv'
<1> USE ParamConstants
<1>1. cb = "idle" /\ b \in Batch /\ batch = NoBatch /\ before = asked
  BY DEF CbBegins, BeginsWith, IInv, CallbackInv
<1>2. frame_id \in FrameIds /\ filter \in Filters /\ frame_id = intended.frame_id
      /\ filter = intended.filter
  BY <1>1 DEF IInv, FieldsInv, TypeOK, NoBatch
<1>3. new' = intended' /\ new' \in Config
  BY <1>1, <1>2, OverType DEF CbBegins, BeginsWith, Batch, Config
<1>4. asked' \in Flags
  BY <1>1, OverType DEF CbBegins, BeginsWith, Batch, IInv, TypeOK, Flags
<1>5. TypeOK'
  BY <1>1, <1>3, <1>4 DEF CbBegins, BeginsWith, IInv, TypeOK, fields, spivars
<1>6. CallbackInv'
  BY <1>3 DEF CbBegins, BeginsWith, CallbackInv
<1>7. FieldsInv'
  BY <1>1, <1>2 DEF CbBegins, BeginsWith, Over, FieldsInv, IInv, fields
<1>8. FlagsInv'
  BY <1>1 DEF CbBegins, BeginsWith, FlagsInv, FlagNames, Over, NoBatch, IInv
<1>9. MutexInv' /\ CloudInv' /\ LockedReadsWhole'
  BY <1>1 DEF CbBegins, BeginsWith, IInv, MutexInv, CloudInv, OneConfigPerFrame,
     LockedReadsWhole, fields, spivars
<1>10. GateInv'
  BY <1>1 DEF CbBegins, BeginsWith, IInv, GateInv, GateNeverTooLax, DropsUnder
<1> QED BY <1>5, <1>6, <1>7, <1>8, <1>9, <1>10 DEF IInv

\* The store of one flag of the batch.
LEMMA StoresIInv ==
  ASSUME IInv, NEW flag \in FlagNames, CbStores(flag)
  PROVE  IInv'
<1>1. TypeOK'
  BY DEF CbStores, IInv, TypeOK, Batch, Flags, FlagNames, fields, rdivars, spivars
<1>2. FlagsInv'
  BY DEF CbStores, IInv, TypeOK, Batch, Flags, FlagsInv, FlagNames
<1>3. CallbackInv' /\ FieldsInv'
  BY DEF CbStores, IInv, TypeOK, Batch, CallbackInv, FieldsInv, FlagNames, fields
<1>4. MutexInv' /\ CloudInv' /\ GateInv' /\ LockedReadsWhole'
  BY DEF CbStores, IInv, MutexInv, CloudInv, OneConfigPerFrame, GateInv,
     GateNeverTooLax, DropsUnder, LockedReadsWhole, fields, rdivars, spivars
<1> QED BY <1>1, <1>2, <1>3, <1>4 DEF IInv

\* The steps of a call behind its loop, and its return without a new config.
LEMMA CallbackIInv ==
  ASSUME IInv, CbUnchanged \/ CbLocks \/ CbFrameIdBegins \/ CbFrameIdEnds \/ CbConfig
  PROVE  IInv'
<1>1. CASE CbUnchanged
  <2>1. TypeOK'
    BY <1>1, ParamConstants DEF CbUnchanged, CbLooped, CbReturns, IInv, TypeOK, Batch,
       NoBatch, fields, rdivars, spivars
  <2>2. FlagsInv' /\ CallbackInv'
    BY <1>1 DEF CbUnchanged, CbLooped, CbReturns, IInv, FlagsInv, CallbackInv, FlagNames,
       NoBatch
  <2>3. FieldsInv'
    BY <1>1 DEF CbUnchanged, CbLooped, CbReturns, IInv, FieldsInv, fields
  <2>4. MutexInv' /\ CloudInv' /\ GateInv' /\ LockedReadsWhole'
    BY <1>1 DEF CbUnchanged, CbLooped, CbReturns, IInv, MutexInv, CloudInv,
       OneConfigPerFrame, GateInv, GateNeverTooLax, DropsUnder, LockedReadsWhole,
       fields, rdivars, spivars
  <2> QED BY <2>1, <2>2, <2>3, <2>4 DEF IInv
<1>2. CASE CbLocks
  BY <1>2 DEF CbLocks, CbLooped, IInv, TypeOK, FlagsInv, CallbackInv, FlagNames,
     FieldsInv, MutexInv, CloudInv, OneConfigPerFrame, GateInv, GateNeverTooLax,
     DropsUnder, LockedReadsWhole, fields, rdivars, spivars
<1>3. CASE CbFrameIdBegins
  BY <1>3 DEF CbFrameIdBegins, IInv, TypeOK, FlagsInv, CallbackInv, FlagNames,
     FieldsInv, MutexInv, CloudInv, OneConfigPerFrame, GateInv, GateNeverTooLax,
     DropsUnder, LockedReadsWhole, callback, rdivars, spivars
<1>4. CASE CbFrameIdEnds
  <2>1. new = intended /\ new.frame_id \in FrameIds
    BY <1>4 DEF CbFrameIdEnds, IInv, CallbackInv, TypeOK, Config
  <2> QED
    BY <1>4, <2>1 DEF CbFrameIdEnds, IInv, TypeOK, FlagsInv, CallbackInv, FlagNames,
       FieldsInv, MutexInv, CloudInv, OneConfigPerFrame, GateInv, GateNeverTooLax,
       DropsUnder, LockedReadsWhole, rdivars, spivars
<1>5. CASE CbConfig
  <2>1. /\ cb = "config" /\ new = intended /\ new \in Config /\ frame_id = new.frame_id
        /\ new.filter \in Filters /\ frame_id \in FrameIds
        /\ new = [frame_id |-> new.frame_id, filter |-> new.filter]
    BY <1>5 DEF CbConfig, IInv, CallbackInv, FieldsInv, TypeOK, Config
  <2>2. TypeOK'
    BY <1>5, <2>1, ParamConstants DEF CbConfig, CbReturns, IInv, TypeOK, Batch, NoBatch,
       rdivars, spivars
  <2>3. FieldsInv'
    BY <1>5, <2>1 DEF CbConfig, CbReturns, FieldsInv
  <2>4. FlagsInv' /\ CallbackInv'
    BY <1>5, <2>1 DEF CbConfig, CbReturns, IInv, FlagsInv, CallbackInv, FlagNames, NoBatch
  <2>5. MutexInv' /\ CloudInv' /\ GateInv' /\ LockedReadsWhole'
    BY <1>5, <2>1 DEF CbConfig, CbReturns, IInv, MutexInv, CloudInv,
       OneConfigPerFrame, GateInv, GateNeverTooLax, DropsUnder, LockedReadsWhole,
       rdivars, spivars
  <2> QED BY <2>2, <2>3, <2>4, <2>5 DEF IInv
<1> QED BY <1>1, <1>2, <1>3, <1>4, <1>5

-----------------------------------------------------------------------------
(* The receiver threads                                                    *)

\* The gate: the two or three loads of one frame, and the begin of the next.
LEMMA GateIInv ==
  ASSUME IInv,
         \/ \E c, m \in BOOLEAN : RdiBegins([crc |-> c, meta |-> m])
         \/ LoadValidate \/ LoadStrictCrc \/ LoadStrictMeta
  PROVE  IInv'
<1>1. ASSUME NEW c \in BOOLEAN, NEW m \in BOOLEAN, RdiBegins([crc |-> c, meta |-> m])
      PROVE  IInv'
  <2>1. TypeOK'
    BY <1>1 DEF RdiBegins, IInv, TypeOK, callback, fields, spivars
  <2>2. CallbackInv' /\ FieldsInv' /\ FlagsInv'
    BY <1>1 DEF RdiBegins, IInv, CallbackInv, FieldsInv, FlagsInv, FlagNames, callback, fields
  <2>3. MutexInv' /\ CloudInv' /\ GateInv' /\ LockedReadsWhole'
    BY <1>1 DEF RdiBegins, IInv, MutexInv, CloudInv, OneConfigPerFrame, GateInv,
       GateNeverTooLax, LockedReadsWhole, callback, fields, spivars
  <2> QED BY <2>1, <2>2, <2>3 DEF IInv
<1>2. ASSUME NEW from, NEW to \in {"strict_crc", "strict_meta", "lock", "dropped"},
             from \in {"validate", "strict_crc", "strict_meta"}, GateStep(from, to),
             to = "lock" => \E s \in {before, asked} : ~DropsUnder(s, frame)
      PROVE  IInv'
  <2>1. TypeOK'
    BY <1>2 DEF GateStep, IInv, TypeOK, callback, fields, spivars
  <2>2. CallbackInv' /\ FieldsInv' /\ FlagsInv'
    BY <1>2 DEF GateStep, IInv, CallbackInv, FieldsInv, FlagsInv, FlagNames, callback, fields
  <2>3. MutexInv' /\ CloudInv' /\ LockedReadsWhole'
    BY <1>2 DEF GateStep, IInv, MutexInv, CloudInv, OneConfigPerFrame,
       LockedReadsWhole, callback, fields, spivars
  <2>4. GateInv'
    BY <1>2 DEF GateStep, IInv, GateInv, GateNeverTooLax, DropsUnder, callback
  <2> QED BY <2>1, <2>2, <2>3, <2>4 DEF IInv
<1>3. CASE LoadValidate
  <2>1. ~flags.validate_e2e => ~before.validate_e2e \/ ~asked.validate_e2e
    BY LoadedFlag DEF FlagNames
  <2>2. AfterCrc = "lock" /\ ~(flags.validate_e2e /\ ~frame.crc) =>
          \E s \in {before, asked} : ~DropsUnder(s, frame)
    BY <2>1 DEF AfterCrc, DropsUnder
  <2> QED BY <1>2, <1>3, <2>2 DEF LoadValidate, AfterCrc
<1>4. CASE LoadStrictCrc \/ LoadStrictMeta
  <2>1. ~flags.e2e_strict => ~before.e2e_strict \/ ~asked.e2e_strict
    BY LoadedFlag DEF FlagNames
  <2>2. ~flags.e2e_strict => \E s \in {before, asked} : ~DropsUnder(s, frame)
    BY <2>1 DEF DropsUnder
  <2> QED BY <1>2, <1>4, <2>2 DEF LoadStrictCrc, LoadStrictMeta, AfterCrc
<1> QED BY <1>1, <1>3, <1>4

\* The messages of one frame.
LEMMA BuildIInv ==
  ASSUME IInv, RdiLocks \/ BuildCloud \/ BuildArray \/ BuildMarker \/ RdiEnds
  PROVE  IInv'
<1> USE DEF RdiLocks, BuildCloud, BuildsCloud, BuildArray, BuildMarker, RdiEnds
<1>1. TypeOK'
  <2> Good \in [crc : BOOLEAN, meta : BOOLEAN]
    BY DEF Good
  <2>1. CASE RdiLocks
    BY <2>1 DEF IInv, TypeOK, callback, fields, spivars
  <2>2. CASE BuildCloud
    BY <2>2 DEF IInv, TypeOK, callback, fields, spivars
  <2>3. CASE BuildArray
    BY <2>3 DEF IInv, TypeOK, callback, fields, spivars
  <2>4. CASE BuildMarker
    BY <2>4 DEF IInv, TypeOK, callback, fields, spivars
  <2>5. CASE RdiEnds
    BY <2>5 DEF IInv, TypeOK, callback, fields, spivars
  <2> QED BY <2>1, <2>2, <2>3, <2>4, <2>5
<1>2. CallbackInv' /\ FieldsInv' /\ FlagsInv'
  BY DEF IInv, CallbackInv, FieldsInv, FlagsInv, FlagNames, callback, fields
<1>3. MutexInv'
  BY DEF IInv, MutexInv, TypeOK, callback
<1>4. CloudInv'
  BY DEF IInv, CloudInv, OneConfigPerFrame, fields
<1>5. GateInv' /\ LockedReadsWhole'
  BY DEF IInv, GateInv, GateNeverTooLax, LockedReadsWhole, spivars
<1> QED BY <1>1, <1>2, <1>3, <1>4, <1>5 DEF IInv

\* The SPI and SHI threads, which only read.
LEMMA ReadersIInv ==
  ASSUME IInv, SpiHeader \/ SpiTransform \/ SpiEnds \/ ShiHeader \/ ShiEnds
  PROVE  IInv'
<1> USE DEF SpiHeader, SpiTransform, SpiEnds, ShiHeader, ShiEnds
<1>1. mutex = "none" => frame_id \in FrameIds
  BY DEF IInv, MutexInv, FieldsInv
<1>2. TypeOK' /\ LockedReadsWhole'
  BY <1>1 DEF IInv, TypeOK, LockedReadsWhole, callback, fields, rdivars, spivars
<1>3. CallbackInv' /\ FieldsInv' /\ FlagsInv'
  BY DEF IInv, CallbackInv, FieldsInv, FlagsInv, FlagNames, callback, fields
<1>4. MutexInv' /\ CloudInv' /\ GateInv'
  BY DEF IInv, MutexInv, CloudInv, OneConfigPerFrame, GateInv, GateNeverTooLax,
     DropsUnder, callback, fields, rdivars
<1> QED BY <1>2, <1>3, <1>4 DEF IInv

-----------------------------------------------------------------------------
\* Every reachable state satisfies the inductive invariant.
THEOREM ParamInvariant == Spec => []IInv
<1>1. IInv /\ [Next]_vars => IInv'
  <2>1. IInv /\ UNCHANGED vars => IInv'
    BY DEF IInv, TypeOK, CallbackInv, FieldsInv, FlagsInv, FlagNames, MutexInv, CloudInv,
       OneConfigPerFrame, GateInv, GateNeverTooLax, DropsUnder, LockedReadsWhole,
       vars, callback, fields, rdivars, spivars
  <2> QED
    BY <2>1, BeginsIInv, StoresIInv, CallbackIInv, GateIInv, BuildIInv, ReadersIInv
       DEF Next, FlagNames
<1> QED BY <1>1, InitIInv, PTL DEF Spec

\* Type correctness: in particular no config is built from a half-written frame
\* id, although on_parameter_change reads the field before it takes the lock.
THEOREM ParamTypes == Spec => []TypeOK
<1>1. IInv => TypeOK
  BY DEF IInv
<1> QED BY <1>1, ParamInvariant, PTL

\* Every set-parameters call takes effect as a whole and undoes no other.
THEOREM UpdatesApply == Spec => []UpdatesTakeEffect
<1>1. IInv => UpdatesTakeEffect
  <2> SUFFICES ASSUME IInv, cb = "idle"
               PROVE  /\ builder = intended /\ flags = asked
                      /\ frame_id = intended.frame_id /\ filter = intended.filter
    BY DEF UpdatesTakeEffect
  <2>1. frame_id = intended.frame_id /\ filter = intended.filter
    BY DEF IInv, CallbackInv, FieldsInv, NoBatch
  <2>2. builder = intended
    BY <2>1 DEF IInv, FieldsInv, TypeOK, Config
  <2>3. \A flag \in FlagNames : flags[flag] = asked[flag]
    BY DEF IInv, CallbackInv, FlagsInv, FlagNames, NoBatch
  <2>4. flags = asked
    BY <2>3 DEF IInv, TypeOK, Flags, FlagNames
  <2> QED BY <2>1, <2>2, <2>4
<1> QED BY <1>1, ParamInvariant, PTL

\* The point cloud and the detection array of one frame agree.
THEOREM FramesOfOneConfig == Spec => []OneConfigPerFrame
<1>1. IInv => OneConfigPerFrame
  BY DEF IInv, CloudInv
<1> QED BY <1>1, ParamInvariant, PTL

\* The SPI thread publishes whole frame ids.
THEOREM ReadsUnderLockAreWhole == Spec => []LockedReadsWhole
<1>1. IInv => LockedReadsWhole
  BY DEF IInv
<1> QED BY <1>1, ParamInvariant, PTL

\* No mixture of flag loads passes what every setting asked for would drop.
THEOREM GateHolds == Spec => []GateNeverTooLax
<1>1. IInv => GateNeverTooLax
  BY DEF IInv, GateInv
<1> QED BY <1>1, ParamInvariant, PTL
=============================================================================
