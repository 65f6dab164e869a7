----------------------------- MODULE ParamUpdate -----------------------------
(***************************************************************************)
(* Run-time parameter changes against the receiver threads: the callback   *)
(* on_parameter_change, and where consume_e2e_header, on_rdi_frame,        *)
(* on_shi_message and on_spi_message of afi920_node.cpp read what it       *)
(* writes.  config_mutex_ guards some of these accesses.                   *)
(*                                                                         *)
(* The executor runs one callback at a time.  A step is one access to      *)
(* shared state; a critical section that is a single read is one step,     *)
(* which waits for the mutex.  min_range_, max_range_, min_snr_ and        *)
(* min_existence_probability_ are handled alike and stand here as one      *)
(* value, filter.  frame_id_ is a std::string: while it is assigned, a     *)
(* reader without the lock may find anything, which is the value Torn.     *)
(* A local variable is forgotten when it goes out of scope.                *)
(***************************************************************************)
EXTENDS Naturals

CONSTANTS FrameIds, Filters,   \* values of the parameters
          Torn, Keep,          \* a half-written string; a parameter not in a batch
          Batches,             \* the set-parameters calls that may be made
          PublishDetections,   \* publish_detections, fixed at construction
          PublishTf            \* publish_tf, fixed at construction

Config  == [frame_id : FrameIds, filter : Filters]
Flags   == [validate_e2e : BOOLEAN, e2e_strict : BOOLEAN]
Batch   == [frame_id : FrameIds \cup {Keep}, filter : Filters \cup {Keep},
            validate_e2e : BOOLEAN \cup {Keep}, e2e_strict : BOOLEAN \cup {Keep}]
NoBatch == [frame_id |-> Keep, filter |-> Keep, validate_e2e |-> Keep,
            e2e_strict |-> Keep]
NotYet  == [frame_id |-> Torn, filter |-> Torn]

ASSUME ParamConstants ==
  /\ Torn \notin FrameIds /\ Keep \notin FrameIds /\ Keep \notin Filters
  /\ Torn \notin Filters /\ Keep \notin BOOLEAN /\ Keep # Torn
  /\ Batches \subseteq Batch
  /\ PublishDetections \in BOOLEAN /\ PublishTf \in BOOLEAN

VARIABLES
  cb, new, batch,        \* the callback: where it is, its locals, its argument
  mutex,                 \* holder of config_mutex_, or "none"
  frame_id, filter,      \* the node's fields
  builder,               \* the PointCloudBuilder's config
  flags,                 \* the atomics validate_e2e_ and e2e_strict_
  rdi, frame, cloud, arr, marker,   \* the RDI thread
  spi, sp_frame, tf_frame,          \* the SPI thread
  hi_frame,              \* the header the SHI thread is publishing, or NotYet's
  intended,              \* history: the config all the batches asked for
  asked,                 \* history: the flags all the batches asked for
  before,                \* history: asked without the batch in progress
  inforce                \* history: the flags asked for since the gate began

fields   == <<frame_id, filter, builder>>
callback == <<cb, new, batch, intended, asked, before>>
rdivars  == <<rdi, frame, cloud, arr, marker, inforce>>
spivars  == <<spi, sp_frame, tf_frame>>
vars     == <<callback, mutex, fields, flags, rdivars, spivars, hi_frame>>

Good == [crc |-> TRUE, meta |-> TRUE]
Over(old, v) == IF v = Keep THEN old ELSE v

Init ==
  /\ frame_id \in FrameIds /\ filter \in Filters
  /\ builder = [frame_id |-> frame_id, filter |-> filter]
  /\ flags \in Flags
  /\ intended = builder /\ asked = flags /\ before = asked
  /\ cb = "idle" /\ new = NotYet /\ batch = NoBatch
  /\ mutex = "none"
  /\ rdi = "idle" /\ frame = Good /\ inforce = {}
  /\ cloud = NotYet /\ arr = NotYet /\ marker = Torn
  /\ spi = "idle" /\ sp_frame = Torn /\ tf_frame = Torn
  /\ hi_frame = Torn

-----------------------------------------------------------------------------
(* on_parameter_change                                                     *)

BeginsWith(b, f, x) ==
  /\ cb = "idle"
  /\ new' = [frame_id |-> Over(f, b.frame_id), filter |-> Over(x, b.filter)]
  /\ batch' = b /\ cb' = "loop"
  /\ intended' = [frame_id |-> Over(intended.frame_id, b.frame_id),
                  filter |-> Over(intended.filter, b.filter)]
  /\ asked' = [validate_e2e |-> Over(asked.validate_e2e, b.validate_e2e),
               e2e_strict |-> Over(asked.e2e_strict, b.e2e_strict)]
  /\ before' = asked
  /\ inforce' = IF inforce = {} THEN {} ELSE inforce \cup {asked'}
  /\ UNCHANGED <<mutex, fields, flags, rdi, frame, cloud, arr, marker, spivars,
                 hi_frame>>

\* Mutant: new_frame_id is not initialised from the field.
CbBeginsBlank(b) == BeginsWith(b, Keep, filter)

\* The locals start from the fields and take the batch's values.
CbBegins(b) == BeginsWith(b, frame_id, filter)

\* A flag of the batch is stored as the loop meets it; the two may come in
\* either order.
CbStores(flag) ==
  /\ cb = "loop" /\ batch[flag] # Keep
  /\ flags' = [flags EXCEPT ![flag] = batch[flag]]
  /\ batch' = [batch EXCEPT ![flag] = Keep]
  /\ UNCHANGED <<cb, new, intended, asked, before, mutex, fields, rdivars,
                 spivars, hi_frame>>

CbReturns ==
  /\ cb' = "idle" /\ new' = NotYet /\ batch' = NoBatch /\ before' = asked
  /\ UNCHANGED <<intended, asked>>

CbLooped ==
  /\ cb = "loop" /\ batch.validate_e2e = Keep /\ batch.e2e_strict = Keep
  /\ UNCHANGED <<fields, flags, rdivars, spivars, hi_frame>>

\* End of the loop: without config_changed the callback returns.
CbUnchanged ==
  /\ CbLooped /\ batch.frame_id = Keep /\ batch.filter = Keep
  /\ CbReturns /\ UNCHANGED mutex

CbLocks ==
  /\ CbLooped /\ (batch.frame_id # Keep \/ batch.filter # Keep)
  /\ mutex = "none" /\ mutex' = "cb" /\ cb' = "frame_id"
  /\ UNCHANGED <<new, batch, intended, asked, before>>

CbFrameIdBegins ==
  /\ cb = "frame_id" /\ frame_id # Torn
  /\ frame_id' = Torn
  /\ UNCHANGED <<callback, mutex, filter, builder, flags, rdivars, spivars,
                 hi_frame>>

CbFrameIdEnds ==
  /\ cb = "frame_id" /\ frame_id = Torn
  /\ frame_id' = new.frame_id /\ cb' = "config"
  /\ UNCHANGED <<new, batch, intended, asked, before, mutex, filter, builder,
                 flags, rdivars, spivars, hi_frame>>

\* Mutant: the builder gets the new config, the filter fields keep the old one,
\* which the next call would start from.
CbConfigBuilderOnly ==
  /\ cb = "config"
  /\ builder' = new /\ mutex' = "none" /\ CbReturns
  /\ UNCHANGED <<frame_id, filter, flags, rdivars, spivars, hi_frame>>

\* The filter fields and update_config, then the lock is released.
CbConfig ==
  /\ cb = "config"
  /\ filter' = new.filter /\ builder' = new
  /\ mutex' = "none" /\ CbReturns
  /\ UNCHANGED <<frame_id, flags, rdivars, spivars, hi_frame>>

-----------------------------------------------------------------------------
(* The RDI thread: the gate of consume_e2e_header, then on_rdi_frame       *)

RdiBegins(f) ==
  /\ rdi = "idle"
  /\ rdi' = "validate" /\ frame' = f /\ inforce' = {before, asked}
  /\ UNCHANGED <<callback, mutex, fields, flags, cloud, arr, marker, spivars,
                 hi_frame>>

GateStep(from, to) ==
  /\ rdi = from /\ rdi' = to
  /\ UNCHANGED <<callback, mutex, fields, flags, frame, cloud, arr, marker,
                 inforce, spivars, hi_frame>>

AfterCrc == IF frame.meta THEN "lock" ELSE "strict_meta"

LoadValidate ==
  GateStep("validate",
           IF flags.validate_e2e /\ ~frame.crc THEN "strict_crc" ELSE AfterCrc)

\* Mutant: a CRC mismatch is only warned about.
LoadStrictCrcWarns == GateStep("strict_crc", AfterCrc)

\* A CRC mismatch: dropped when strict.
LoadStrictCrc ==
  GateStep("strict_crc", IF flags.e2e_strict THEN "dropped" ELSE AfterCrc)

\* A length or data id mismatch: dropped when strict.
LoadStrictMeta ==
  GateStep("strict_meta", IF flags.e2e_strict THEN "dropped" ELSE "lock")

RdiLocks ==
  /\ rdi = "lock" /\ mutex = "none"
  /\ mutex' = "rdi" /\ rdi' = "cloud"
  /\ frame' = Good /\ inforce' = {}
  /\ UNCHANGED <<callback, fields, flags, cloud, arr, marker, spivars, hi_frame>>

BuildsCloud(m) ==
  /\ rdi = "cloud"
  /\ cloud' = builder /\ mutex' = m /\ rdi' = "array"
  /\ UNCHANGED <<callback, fields, flags, frame, inforce, arr, marker, spivars,
                 hi_frame>>

\* Mutant: each message is built in a critical section of its own.
BuildCloudUnlocks == BuildsCloud("none")

BuildCloud == BuildsCloud(mutex)

\* The array, when asked for; the lock is released.
BuildArray ==
  /\ rdi = "array"
  /\ arr' = IF PublishDetections THEN builder ELSE arr
  /\ mutex' = "none" /\ rdi' = "marker"
  /\ UNCHANGED <<callback, fields, flags, frame, inforce, cloud, marker, spivars,
                 hi_frame>>

\* The text marker takes frame_id_ without the lock.
BuildMarker ==
  /\ rdi = "marker"
  /\ marker' = frame_id /\ rdi' = "published"
  /\ UNCHANGED <<callback, mutex, fields, flags, frame, inforce, cloud, arr,
                 spivars, hi_frame>>

RdiEnds ==
  /\ rdi \in {"published", "dropped"}
  /\ rdi' = "idle" /\ frame' = Good /\ inforce' = {}
  /\ cloud' = NotYet /\ arr' = NotYet /\ marker' = Torn
  /\ UNCHANGED <<callback, mutex, fields, flags, spivars, hi_frame>>

-----------------------------------------------------------------------------
(* The SPI and SHI threads                                                 *)

\* Mutant: the header takes frame_id_ without the lock.
SpiHeaderUnlocked ==
  /\ spi = "idle"
  /\ sp_frame' = frame_id /\ spi' = IF PublishTf THEN "transform" ELSE "published"
  /\ UNCHANGED <<callback, mutex, fields, flags, rdivars, tf_frame, hi_frame>>

\* The header of the message, under the first lock.
SpiHeader ==
  /\ spi = "idle" /\ mutex = "none"
  /\ sp_frame' = frame_id /\ spi' = IF PublishTf THEN "transform" ELSE "published"
  /\ UNCHANGED <<callback, mutex, fields, flags, rdivars, tf_frame, hi_frame>>

\* The child frame of the transform, under the second.
SpiTransform ==
  /\ spi = "transform" /\ mutex = "none"
  /\ tf_frame' = frame_id /\ spi' = "published"
  /\ UNCHANGED <<callback, mutex, fields, flags, rdivars, sp_frame, hi_frame>>

SpiEnds ==
  /\ spi = "published"
  /\ spi' = "idle" /\ sp_frame' = Torn /\ tf_frame' = Torn
  /\ UNCHANGED <<callback, mutex, fields, flags, rdivars, hi_frame>>

ShiHeader ==
  /\ hi_frame = Torn /\ mutex = "none"
  /\ hi_frame' = frame_id
  /\ UNCHANGED <<callback, mutex, fields, flags, rdivars, spivars>>

ShiEnds ==
  /\ hi_frame # Torn /\ hi_frame' = Torn
  /\ UNCHANGED <<callback, mutex, fields, flags, rdivars, spivars>>

-----------------------------------------------------------------------------
Next ==
  \/ \E b \in Batches : CbBegins(b)
  \/ \E flag \in {"validate_e2e", "e2e_strict"} : CbStores(flag)
  \/ CbUnchanged \/ CbLocks
  \/ CbFrameIdBegins \/ CbFrameIdEnds \/ CbConfig
  \/ \E c, m \in BOOLEAN : RdiBegins([crc |-> c, meta |-> m])
  \/ LoadValidate \/ LoadStrictCrc \/ LoadStrictMeta
  \/ RdiLocks \/ BuildCloud \/ BuildArray \/ BuildMarker \/ RdiEnds
  \/ SpiHeader \/ SpiTransform \/ SpiEnds
  \/ ShiHeader \/ ShiEnds

Spec == Init /\ [][Next]_vars

-----------------------------------------------------------------------------
(* Properties                                                              *)

TypeOK ==
  /\ cb \in {"idle", "loop", "frame_id", "config"}
  /\ new \in Config \cup {NotYet} /\ batch \in Batch
  /\ intended \in Config /\ asked \in Flags /\ before \in Flags
  /\ mutex \in {"none", "cb", "rdi"}
  /\ frame_id \in FrameIds \cup {Torn} /\ filter \in Filters
  /\ builder \in Config /\ flags \in Flags
  /\ rdi \in {"idle", "validate", "strict_crc", "strict_meta", "lock", "cloud",
              "array", "marker", "published", "dropped"}
  /\ frame \in [crc : BOOLEAN, meta : BOOLEAN] /\ inforce \subseteq Flags
  /\ cloud \in Config \cup {NotYet} /\ arr \in Config \cup {NotYet}
  /\ marker \in FrameIds \cup {Torn}
  /\ spi \in {"idle", "transform", "published"}
  /\ sp_frame \in FrameIds \cup {Torn} /\ tf_frame \in FrameIds \cup {Torn}
  /\ hi_frame \in FrameIds \cup {Torn}

\* When a set-parameters call has returned, the fields, the builder and the
\* flags hold what all the calls so far asked for: no call undoes a part of an
\* earlier one, although on_parameter_change rebuilds the whole config from the
\* fields.
UpdatesTakeEffect ==
  cb = "idle" =>
    /\ builder = intended /\ flags = asked
    /\ frame_id = intended.frame_id /\ filter = intended.filter

\* The point cloud and the detection array of one frame are filtered and
\* labelled by one config, however the callback interleaves (on_rdi_frame
\* builds both in one critical section).
OneConfigPerFrame ==
  rdi \in {"marker", "published"} /\ PublishDetections => cloud = arr

\* The SPI thread, which takes config_mutex_ for its header and again for its
\* transform, publishes frame ids somebody set, never a half-written one.
LockedReadsWhole ==
  /\ spi # "idle" => sp_frame \in FrameIds
  /\ spi = "published" /\ PublishTf => tf_frame \in FrameIds

\* What consume_e2e_header decides of frame f under one setting s of the flags.
DropsUnder(s, f) == s.e2e_strict /\ (~f.meta \/ (s.validate_e2e /\ ~f.crc))

\* consume_e2e_header loads the flags two or three times.  No mixture of loads
\* lets a frame through that every setting asked for meanwhile would drop.
GateNeverTooLax == rdi = "lock" => \E s \in inforce : ~DropsUnder(s, frame)

\* "Collect new values first, then apply under lock" (on_parameter_change): a
\* frame is dropped only if some setting asked for while the gate ran drops it,
\* never by a mixture of the flags of two settings.
GateNeverTooStrict == rdi = "dropped" => \E s \in inforce : DropsUnder(s, frame)

\* "Build messages under lock (protects against concurrent config updates)"
\* (on_rdi_frame): the messages published for one frame name one frame id.
OneFrameIdPerFrame == rdi = "published" => marker = cloud.frame_id
=============================================================================
