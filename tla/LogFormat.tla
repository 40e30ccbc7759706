------------------------------ MODULE LogFormat ------------------------------
(***************************************************************************)
(* The bytes of the journal. Every component turns its records into        *)
(* protobuf messages inside a version envelope; the journal's output       *)
(* stream and the checkpoint service put them, each behind a header, into  *)
(* the buffer of a blob; the input stream takes the blob apart again, and  *)
(* the components decode what they find.                                   *)
(*                                                                         *)
(* A buffer is a sequence of words of two bytes: a uint64 takes four, the  *)
(* status of a log one. A word is <<value, i>>, the i-th word of a value,  *)
(* so a read at the wrong offset finds no value. A message is the set of   *)
(* the fields it has on the wire, <<name, kind, value, index>>: a scalar   *)
(* that has its default value is not there. A result is a sequence: empty  *)
(* when the operation fails, else its one value.                           *)
(*                                                                         *)
(* The part as a whole: one blob of the ask is written (a batch of logs, a *)
(* checkpoint of the memory, the name of the last checkpoint), is read     *)
(* whole or cut short, and its logs are decoded one after the other.       *)
(***************************************************************************)
EXTENDS Naturals, Sequences, FiniteSets, SequencesExt

CONSTANTS
    LfAsks,       \* what is written: [kind, logs or memory, version, room, cuts]
    LfMaxHalf,    \* the largest half of a UUID
    LfThreshold   \* kBufferIncreaseThreshold, in words

VARIABLES
    lfAsk,      \* what is written
    lfPc,       \* the next step; "refused" when some step failed, "end" after the last log
    lfBuffer,   \* [bytes, capacity, length] of the blob, as written and then as read
    lfWritten,  \* the length of the blob as written
    lfOffset,   \* the reader's offset
    lfRead,     \* the logs decoded: [component, id, record]
    lfFound     \* the memory recovered from them: [transactions, keys]

lfVars == <<lfAsk, lfPc, lfBuffer, lfWritten, lfOffset, lfRead, lfFound>>

Refused == <<>>

-----------------------------------------------------------------------------
(* Protobuf messages (a library).                                           *)

Scalar(name, v, default) == IF v = default THEN {} ELSE {<<name, "scalar", v, 0>>}
Optional(name, v) == {<<name, "scalar", v[i], 0>> : i \in DOMAIN v}
Message(name, m) == {<<name, "message", m, 0>>}
Bytes(name, m) == IF m = {} THEN {} ELSE Message(name, m)
Repeated(name, ms) == {<<name, "message", ms[i], i>> : i \in DOMAIN ms}

Named(m, name) == {f \in m : f[1] = name}
Value(m, name, default) == IF Named(m, name) = {} THEN default ELSE (CHOOSE f \in Named(m, name) : TRUE)[3]
Present(m, name) == IF Named(m, name) = {} THEN <<>> ELSE <<Value(m, name, 0)>>
Items(m, name) == [i \in 1..Cardinality(Named(m, name)) |-> (CHOOSE f \in Named(m, name) : f[4] = i)[3]]

RECURSIVE ByteSizeLong(_)
ByteSizeLong(m) ==
    MapThenSumSet(LAMBDA f : 1 + IF f[2] = "scalar" THEN 0 ELSE ByteSizeLong(f[3]), m)

-----------------------------------------------------------------------------
(* The buffer.                                                              *)

NewBuffer(capacity) == [bytes |-> <<>>, capacity |-> capacity, length |-> 0]

\* A field is <<value, number of words>>.
U64(v) == <<<<"u64", v>>, 4>>
U16(v) == <<<<"u16", v>>, 1>>
Uuid(id) == <<U64(id[1]), U64(id[2])>>
Words(field) == [i \in 1..field[2] |-> <<field[1], i>>]
Length(fields) == FoldLeft(LAMBDA n, f : n + f[2], 0, fields)

Serialize(buffer, offset, fields) ==
    IF offset + Length(fields) > buffer.capacity
    THEN Refused
    ELSE <<[buffer EXCEPT !.bytes = SubSeq(@, 1, offset) \o FlattenSeq([i \in DOMAIN fields |-> Words(fields[i])])]>>

\* Words that are not the words of one value are read as no value the writer wrote.
Deserialize(buffer, offset, n) ==
    LET read == SubSeq(buffer.bytes, offset + 1, offset + n)
        first == read[1][1]
    IN IF offset + n > buffer.length THEN Refused
       ELSE IF n > 0 /\ read = Words(<<first, n>>) THEN <<first>> ELSE <<<<"garbage">>>>

IsU64(read) == read # Refused /\ read[1][1] = "u64"

\* [object_size][serialized_object]
MessageFields(m) == <<U64(ByteSizeLong(m))>> \o IF m = {} THEN <<>> ELSE <<<<<<"proto", m>>, ByteSizeLong(m)>>>>
SerializeMessage(buffer, offset, m) == Serialize(buffer, offset, MessageFields(m))

DeserializeMessage(buffer, offset) ==
    LET size == Deserialize(buffer, offset, 4)
        n == size[1][2]
        body == Deserialize(buffer, offset + 4, n)
    IN IF ~IsU64(size) THEN Refused
       ELSE IF n = 0 THEN <<{}>>
       ELSE IF body = Refused \/ body[1][1] # "proto" THEN Refused ELSE <<body[1][2]>>

\* A message in a buffer or a string of its own: none has length 0.
DeserializeProtoMessage(m) == IF m = {} THEN Refused ELSE <<m>>

\* Every record travels in a log of version 1.0.
Envelope(body) ==
    Message("version", Scalar("major", 1, 0) \cup Scalar("minor", 0, 0)) \cup Bytes("log_body", body)

ValidateVersion(m) ==
    LET version == Value(m, "version", {})
    IN Value(version, "major", 0) = 1 /\ Value(version, "minor", 0) = 0

Opened(m) == IF m = {} \/ ~ValidateVersion(m) THEN Refused ELSE DeserializeProtoMessage(Value(m, "log_body", {}))

-----------------------------------------------------------------------------
(* The logs of a blob, and what stands at the end of a checkpoint.          *)

kCheckpointMetadataMagicNumber == 77
kLogHeaderLength == 3 * 4 + 1 + 4 * 4

LogHeader(timestamp, log) ==
    <<U64(1), U64(0), U64(timestamp), U16("Log")>> \o Uuid(log.component) \o Uuid(log.id)

SerializeLogHeader(buffer, offset, timestamp, log) == Serialize(buffer, offset, LogHeader(timestamp, log))

\* The fields of the header have fixed places.
DeserializeLogHeader(buffer, offset) ==
    LET at(place) == Deserialize(buffer, offset + place, 4)[1]
        u64(place) == IF at(place)[1] = "u64" THEN at(place)[2] ELSE LfMaxHalf + 1
    IN IF offset + kLogHeaderLength > buffer.length THEN Refused
       ELSE IF ~(u64(0) = 1 /\ u64(4) = 0) THEN Refused
       ELSE <<[component |-> <<u64(13), u64(17)>>, id |-> <<u64(21), u64(25)>>]>>

JournalLog(body) == Bytes("log_body", body)
SerializeJournalLog(buffer, offset, body) == SerializeMessage(buffer, offset, JournalLog(body))
DeserializeJournalLog(buffer, offset) == DeserializeMessage(buffer, offset)

GetSerializedLogByteSize(body) == ByteSizeLong(JournalLog(body)) + 4 + kLogHeaderLength

LastCheckpointMetadata(id) == Scalar("last_checkpoint_id", id, 0)
CheckpointMetadata(journal) == Scalar("last_processed_journal_id", journal, 0)

\* [metadata][metadata header+body length][magic number]
SerializeCheckpointMetadata(buffer, offset, journal) ==
    LET metadata == MessageFields(CheckpointMetadata(journal))
    IN Serialize(buffer, offset, metadata \o <<U64(Length(metadata)), U64(kCheckpointMetadataMagicNumber)>>)

\* The journal's id and how many words of the buffer's end the metadata takes.
DeserializeCheckpointMetadata(buffer) ==
    LET magic == Deserialize(buffer, buffer.length - 4, 4)
        size == Deserialize(buffer, buffer.length - 8, 4)
        metadata == DeserializeMessage(buffer, buffer.length - 8 - size[1][2])
    IN IF buffer.length < 4 THEN Refused
       ELSE IF magic # <<<<"u64", kCheckpointMetadataMagicNumber>>>> THEN Refused
       ELSE IF buffer.length < 8 THEN Refused
       ELSE IF ~IsU64(size) \/ buffer.length - 8 < size[1][2] THEN Refused
       ELSE IF metadata = Refused THEN Refused
       ELSE <<[journal |-> Value(metadata[1], "last_processed_journal_id", 0),
               taken |-> 8 + 4 + ByteSizeLong(metadata[1])]>>

-----------------------------------------------------------------------------
(* The records of the timeframe manager of a budget key. A frame is         *)
(* [bucket, tokens, active, holder]; a group maps its buckets to frames.    *)

UuidMessage(id) == Scalar("high", id[1], 0) \cup Scalar("low", id[2], 0)
UuidOf(m) == <<Value(m, "high", 0), Value(m, "low", 0)>>

SerializeBudgetKeyTimeframeLog_1_0(frame) ==
    Scalar("time_bucket", frame.bucket, 0) \cup Scalar("token_count", frame.tokens, 0)
    \cup Scalar("active_token_count", frame.active, 0)
    \cup Message("active_transaction_id", UuidMessage(frame.holder))

FrameOf(m) ==
    [bucket |-> Value(m, "time_bucket", 0), tokens |-> Value(m, "token_count", 0),
     active |-> Value(m, "active_token_count", 0), holder |-> UuidOf(Value(m, "active_transaction_id", {}))]

DeserializeBudgetKeyTimeframeLog_1_0(m) == IF m = {} THEN Refused ELSE <<FrameOf(m)>>

FrameMessages(frames) == [i \in DOMAIN frames |-> SerializeBudgetKeyTimeframeLog_1_0(frames[i])]

SerializeBatchBudgetKeyTimeframeLog_1_0(frames) ==
    IF frames = <<>> THEN Refused ELSE <<Repeated("items", FrameMessages(frames))>>

DeserializeBatchBudgetKeyTimeframeLog_1_0(m) ==
    LET items == Items(m, "items")
    IN IF m = {} \/ items = <<>> THEN Refused ELSE <<[i \in DOMAIN items |-> FrameOf(items[i])]>>

SerializeBudgetKeyTimeframeGroupLog_1_0(group, frames) ==
    Scalar("time_group", group, 0)
    \cup Repeated("items", FrameMessages([i \in 1..Cardinality(DOMAIN frames) |-> frames[SetToSeq(DOMAIN frames)[i]]]))

DeserializeBudgetKeyTimeframeGroupLog_1_0(m) ==
    LET items == Items(m, "items")
        frames == {FrameOf(items[i]) : i \in DOMAIN items}
    IN IF m = {} THEN Refused
       ELSE <<[b \in {f.bucket : f \in frames} |-> CHOOSE f \in frames : f.bucket = b]>>

SerializeBudgetKeyTimeframeManagerLog_1_0(operation, group, body) ==
    Scalar("operation_type", operation, "OPERATION_TYPE_UNKNOWN") \cup Scalar("time_group", group, 0)
    \cup Bytes("log_body", body)

ManagerLog(operation, group, body) ==
    Envelope(SerializeBudgetKeyTimeframeManagerLog_1_0(operation, group, body))

SerializeBudgetKeyTimeframeLog(r) ==
    <<ManagerLog("UPDATE_TIMEFRAME_RECORD", r.group, SerializeBudgetKeyTimeframeLog_1_0(r.frame))>>

SerializeBatchBudgetKeyTimeframeLog(r) ==
    LET body == SerializeBatchBudgetKeyTimeframeLog_1_0(r.frames)
    IN IF body = Refused THEN Refused
       ELSE <<ManagerLog("BATCH_UPDATE_TIMEFRAME_RECORDS_OF_TIMEGROUP", r.group, body[1])>>

SerializeBudgetKeyTimeframeGroupLog(r) ==
    <<ManagerLog("INSERT_TIMEGROUP_INTO_CACHE", r.group, SerializeBudgetKeyTimeframeGroupLog_1_0(r.group, r.frames))>>

SerializeBudgetKeyTimeframeGroupRemoval(r) == <<ManagerLog("REMOVE_TIMEGROUP_FROM_CACHE", r.group, {})>>

DeserializeBudgetKeyTimeframeManagerLog(m) == Opened(m)

\* What the manager's recovery makes of a log.
ManagerRecord(bytes) ==
    LET log == DeserializeBudgetKeyTimeframeManagerLog(bytes)
        operation == Value(log[1], "operation_type", "OPERATION_TYPE_UNKNOWN")
        group == Value(log[1], "time_group", 0)
        body == Value(log[1], "log_body", {})
        update == DeserializeBudgetKeyTimeframeLog_1_0(body)
        batch == DeserializeBatchBudgetKeyTimeframeLog_1_0(body)
        insert == DeserializeBudgetKeyTimeframeGroupLog_1_0(body)
    IN IF log = Refused THEN Refused
       ELSE CASE operation = "UPDATE_TIMEFRAME_RECORD" /\ update # Refused ->
                     <<[kind |-> "update", group |-> group, frame |-> update[1]]>>
              [] operation = "BATCH_UPDATE_TIMEFRAME_RECORDS_OF_TIMEGROUP" /\ batch # Refused ->
                     <<[kind |-> "batch", group |-> group, frames |-> batch[1]]>>
              [] operation = "INSERT_TIMEGROUP_INTO_CACHE" /\ insert # Refused ->
                     <<[kind |-> "insert", group |-> group, frames |-> insert[1]]>>
              [] operation = "REMOVE_TIMEGROUP_FROM_CACHE" -> <<[kind |-> "remove", group |-> group]>>
              [] OTHER -> Refused

-----------------------------------------------------------------------------
(* The records of a budget key and of the provider of the keys.             *)

GetTimeframeManagerId(id) == <<LfMaxHalf - id[1], LfMaxHalf - id[2]>>

SerializeBudgetKey(r) == <<Envelope(Message("timeframe_manager_id", UuidMessage(r.manager)))>>

KeyRecord(bytes) ==
    LET log == Opened(bytes)
    IN IF log = Refused THEN Refused
       ELSE <<[kind |-> "key", manager |-> UuidOf(Value(log[1], "timeframe_manager_id", {}))]>>

SerializeBudgetKeyProviderPair(r) ==
    <<Envelope(Scalar("budget_key_name", r.name, "") \cup Scalar("operation_type", r.operation, "OPERATION_TYPE_UNKNOWN")
               \cup Message("id", UuidMessage(r.id)))>>

PairRecord(bytes) ==
    LET log == Opened(bytes)
        operation == Value(log[1], "operation_type", "OPERATION_TYPE_UNKNOWN")
    IN IF log = Refused \/ operation \notin {"LOAD_INTO_CACHE", "DELETE_FROM_CACHE"} THEN Refused
       ELSE <<[kind |-> "pair", name |-> Value(log[1], "budget_key_name", ""), operation |-> operation,
               id |-> UuidOf(Value(log[1], "id", {}))]>>

-----------------------------------------------------------------------------
(* Commands of a transaction: [command, key, budgets]. A budget is          *)
(* [bucket, tokens, index]; its index in the request may be missing.        *)

BudgetFields(b) == Scalar("time_bucket", b.bucket, 0) \cup Scalar("token_count", b.tokens, 0)
BudgetOf(m, index) == [bucket |-> Value(m, "time_bucket", 0), tokens |-> Value(m, "token_count", 0), index |-> index]

CanSerialize(c) == c.command \in {"consume", "batch"}
CanDeserialize(m) == ValidateVersion(m)

ConsumeSerializeVersion_1_0(c) == Scalar("budget_key_name", c.key, "") \cup BudgetFields(c.budgets[1])
ConsumeSerializeVersion_1_1(c) == ConsumeSerializeVersion_1_0(c) \cup Optional("request_index", c.budgets[1].index)
ConsumeDeserializeVersion_1_0(m) ==
    [command |-> "consume", key |-> Value(m, "budget_key_name", ""), budgets |-> <<BudgetOf(m, <<>>)>>]
ConsumeDeserializeVersion_1_1(m) ==
    [command |-> "consume", key |-> Value(m, "budget_key_name", ""),
     budgets |-> <<BudgetOf(m, Present(m, "request_index"))>>]

BatchSerializeVersion_1_0(c) ==
    Scalar("budget_key_name", c.key, "")
    \cup Repeated("budget_consumptions",
                  [i \in DOMAIN c.budgets |-> BudgetFields(c.budgets[i]) \cup Optional("request_index", c.budgets[i].index)])
BatchDeserializeVersion_1_0(m) ==
    LET items == Items(m, "budget_consumptions")
    IN [command |-> "batch", key |-> Value(m, "budget_key_name", ""),
        budgets |-> [i \in DOMAIN items |-> BudgetOf(items[i], Present(items[i], "request_index"))]]

SerializeConsumeBudgetCommandToTransactionLog(c, version) ==
    CASE version = "1_1" ->
             Scalar("type", "CONSUME_BUDGET_COMMAND_1_1", "") \cup Bytes("log_body", ConsumeSerializeVersion_1_1(c))
      [] version = "1_0" ->
             Scalar("type", "CONSUME_BUDGET_COMMAND_1_0", "") \cup Bytes("log_body", ConsumeSerializeVersion_1_0(c))

SerializeBatchConsumeBudgetCommandToTransactionLog(c) ==
    Scalar("type", "BATCH_CONSUME_BUDGET_COMMAND_1_0", "") \cup Bytes("log_body", BatchSerializeVersion_1_0(c))

SerializeCommand(c, version) ==
    IF ~CanSerialize(c) THEN Refused
    ELSE <<Envelope(IF c.command = "consume"
                    THEN SerializeConsumeBudgetCommandToTransactionLog(c, version)
                    ELSE SerializeBatchConsumeBudgetCommandToTransactionLog(c))>>

DeserializeCommand(m) ==
    LET log == Value(m, "log_body", {})
        type == Value(log, "type", "")
        body == Value(log, "log_body", {})
    IN IF m = {} \/ ~CanDeserialize(m) \/ log = {} \/ body = {} THEN Refused
       ELSE CASE type = "CONSUME_BUDGET_COMMAND_1_1" -> <<ConsumeDeserializeVersion_1_1(body)>>
              [] type = "CONSUME_BUDGET_COMMAND_1_0" -> <<ConsumeDeserializeVersion_1_0(body)>>
              [] type = "BATCH_CONSUME_BUDGET_COMMAND_1_0" -> <<BatchDeserializeVersion_1_0(body)>>
              [] OTHER -> Refused

-----------------------------------------------------------------------------
(* The records of the transaction engine: a transaction, and a phase of it. *)

PhaseNames ==
    <<<<"NotStarted", "NOT_STARTED">>, <<"Begin", "BEGIN">>, <<"Prepare", "PREPARE">>, <<"Commit", "COMMIT">>,
      <<"CommitNotify", "COMMIT_NOTIFY">>, <<"Committed", "COMMITTED">>, <<"AbortNotify", "ABORT_NOTIFY">>,
      <<"Aborted", "ABORTED">>, <<"End", "END">>>>

ConvertPhaseToProtoPhase(phase) ==
    IF \E i \in DOMAIN PhaseNames : PhaseNames[i][1] = phase
    THEN (CHOOSE n \in Range(PhaseNames) : n[1] = phase)[2]
    ELSE "TRANSACTION_PHASE_TYPE_UNKNOWN"

ConvertProtoPhaseToPhase(phase) ==
    IF \E i \in DOMAIN PhaseNames : PhaseNames[i][2] = phase
    THEN (CHOOSE n \in Range(PhaseNames) : n[2] = phase)[1]
    ELSE "Unknown"

\* The status of a result, and back: a status the map does not have is a failure.
kExecutionStatusToProtoMap ==
    [Success |-> "EXECUTION_STATUS_SUCCESS", Failure |-> "EXECUTION_STATUS_FAILURE", Retry |-> "EXECUTION_STATUS_RETRY"]
ExecutionResultOf(m) ==
    LET status == Value(m, "status", "EXECUTION_STATUS_UNKNOWN")
        names == {n \in DOMAIN kExecutionStatusToProtoMap : kExecutionStatusToProtoMap[n] = status}
    IN [status |-> IF names = {} THEN "Failure" ELSE CHOOSE n \in names : TRUE, code |-> Value(m, "status_code", 0)]

EngineLog(type, body) == Envelope(Scalar("type", type, "TRANSACTION_LOG_TYPE_UNKNOWN") \cup Bytes("log_body", body))

SerializeTransactionLog(r, version) ==
    LET bodies == [i \in DOMAIN r.commands |-> SerializeCommand(r.commands[i], version)]
    IN IF \E i \in DOMAIN bodies : bodies[i] = Refused THEN Refused
       ELSE <<EngineLog("TRANSACTION_LOG",
                  Message("id", UuidMessage(r.id)) \cup Scalar("timeout", r.timeout, 0)
                  \cup Scalar("is_coordinated_remotely", r.remote, FALSE)
                  \cup (IF r.remote THEN Scalar("transaction_secret", r.secret, "")
                                         \cup Scalar("transaction_origin", r.origin, "")
                        ELSE {})
                  \cup Repeated("commands", [i \in DOMAIN bodies |-> Bytes("command_body", bodies[i][1])]))>>

SerializePhaseLog(r) ==
    <<EngineLog("TRANSACTION_PHASE_LOG",
          Message("id", UuidMessage(r.id))
          \cup Scalar("phase", ConvertPhaseToProtoPhase(r.phase), "TRANSACTION_PHASE_TYPE_UNKNOWN")
          \cup Scalar("failed", r.failed, FALSE)
          \cup Message("result", Scalar("status", kExecutionStatusToProtoMap[r.result.status], "EXECUTION_STATUS_UNKNOWN")
                                 \cup Scalar("status_code", r.result.code, 0)))>>

TransactionRecord(m) ==
    LET items == Items(m, "commands")
        commands == [i \in DOMAIN items |-> DeserializeCommand(Value(items[i], "command_body", {}))]
    IN IF m = {} \/ (\E i \in DOMAIN commands : commands[i] = Refused) THEN Refused
       ELSE <<[kind |-> "transaction", id |-> UuidOf(Value(m, "id", {})), timeout |-> Value(m, "timeout", 0),
               remote |-> Value(m, "is_coordinated_remotely", FALSE),
               secret |-> Value(m, "transaction_secret", ""), origin |-> Value(m, "transaction_origin", ""),
               commands |-> [i \in DOMAIN commands |-> commands[i][1]]]>>

PhaseRecord(m) ==
    IF m = {} THEN Refused
    ELSE <<[kind |-> "phase", id |-> UuidOf(Value(m, "id", {})),
            phase |-> ConvertProtoPhaseToPhase(Value(m, "phase", "TRANSACTION_PHASE_TYPE_UNKNOWN")),
            failed |-> Value(m, "failed", FALSE), result |-> ExecutionResultOf(Value(m, "result", {}))]>>

EngineRecord(bytes) ==
    LET log == Opened(bytes)
        type == Value(log[1], "type", "TRANSACTION_LOG_TYPE_UNKNOWN")
        body == Value(log[1], "log_body", {})
    IN IF log = Refused THEN Refused
       ELSE CASE type = "TRANSACTION_LOG" -> TransactionRecord(body)
              [] type = "TRANSACTION_PHASE_LOG" -> PhaseRecord(body)
              [] OTHER -> Refused

-----------------------------------------------------------------------------
(* Writing. A log to write is [component, id, record].                      *)

kTransactionEngineId == <<1, 0>>
kBudgetKeyProviderId == <<1, 1>>

\* The bytes of a record, as its component serialises it.
Encoded(r) ==
    CASE r.kind = "update" -> SerializeBudgetKeyTimeframeLog(r)
      [] r.kind = "batch" -> SerializeBatchBudgetKeyTimeframeLog(r)
      [] r.kind = "insert" -> SerializeBudgetKeyTimeframeGroupLog(r)
      [] r.kind = "remove" -> SerializeBudgetKeyTimeframeGroupRemoval(r)
      [] r.kind = "key" -> SerializeBudgetKey(r)
      [] r.kind = "pair" -> SerializeBudgetKeyProviderPair(r)
      [] r.kind = "transaction" -> SerializeTransactionLog(r, lfAsk.version)
      [] r.kind = "phase" -> SerializePhaseLog(r)

\* A record that its component cannot serialise never reaches the journal.
Logged == SelectSeq(lfAsk.logs, LAMBDA log : Encoded(log.record) # Refused)

SerializeLog(buffer, log) ==
    LET header == SerializeLogHeader(buffer, buffer.length, 1, log)
        body == SerializeJournalLog(header[1], buffer.length + kLogHeaderLength, Encoded(log.record)[1])
    IN IF header = Refused \/ body = Refused THEN Refused
       ELSE <<[body[1] EXCEPT !.length = Len(body[1].bytes)]>>

\* A journal's buffer has the size computed beforehand; it must be filled exactly.
WriteBatchBuffer ==
    LET needed == FoldLeft(LAMBDA n, log : n + GetSerializedLogByteSize(Encoded(log.record)[1]), 0, Logged)
        filled == FoldLeft(LAMBDA b, log : IF b = Refused THEN Refused ELSE SerializeLog(b[1], log),
                           <<NewBuffer(needed)>>, Logged)
    IN /\ lfPc = "write" /\ lfAsk.kind = "journal"
       /\ IF filled = Refused \/ filled[1].length # needed
          THEN lfPc' = "refused" /\ UNCHANGED <<lfBuffer, lfWritten>>
          ELSE lfPc' = "stored" /\ lfBuffer' = filled[1] /\ lfWritten' = needed
       /\ UNCHANGED <<lfAsk, lfOffset, lfRead, lfFound>>

LogsOf(component, records) == [i \in DOMAIN records |-> [component |-> component, id |-> <<0, i>>, record |-> records[i]]]

EngineCheckpoint(memory) ==
    LET held == SetToSeq(memory.transactions)
    IN LogsOf(kTransactionEngineId, FlattenSeq([i \in DOMAIN held |-> <<held[i].transaction, held[i].state>>]))

TimeframeManagerCheckpoint(key) ==
    LET groups == SetToSeq(DOMAIN key.groups)
    IN LogsOf(GetTimeframeManagerId(key.id),
              [i \in DOMAIN groups |-> [kind |-> "insert", group |-> groups[i], frames |-> key.groups[groups[i]]]])

BudgetKeyCheckpoint(key) ==
    LogsOf(key.id, <<[kind |-> "key", manager |-> GetTimeframeManagerId(key.id)]>>)
    \o IF key.manager = <<>> THEN <<>> ELSE TimeframeManagerCheckpoint(key)

BudgetKeyProviderCheckpoint(memory) ==
    LET names == SetToSeq(DOMAIN memory.keys)
    IN LogsOf(kBudgetKeyProviderId,
              [i \in DOMAIN names |-> [kind |-> "pair", name |-> names[i], operation |-> "LOAD_INTO_CACHE",
                                       id |-> memory.keys[names[i]].id]])
       \o FlattenSeq([i \in DOMAIN names |-> BudgetKeyCheckpoint(memory.keys[names[i]])])

CheckpointLogs(memory) == EngineCheckpoint(memory) \o BudgetKeyProviderCheckpoint(memory)

\* The buffer of a checkpoint doubles until what comes next fits.
Doubled(buffer, fields) ==
    [buffer EXCEPT !.capacity = CHOOSE c \in {@ * 2^k : k \in 0..10} :
                                    /\ c >= buffer.length + Length(fields)
                                    /\ c = @ \/ c < 2 * (buffer.length + Length(fields))]

AppendFields(buffer, fields) ==
    LET b == Serialize(Doubled(buffer, fields), buffer.length, fields)[1] IN [b EXCEPT !.length = Len(b.bytes)]

WriteCheckpointBuffer ==
    LET logs == CheckpointLogs(lfAsk.memory)
        filled == FoldLeft(LAMBDA b, log : AppendFields(AppendFields(b, LogHeader(1, log)),
                                                        MessageFields(JournalLog(Encoded(log.record)[1]))),
                           NewBuffer(lfAsk.room), logs)
        roomy == IF filled.capacity - filled.length < LfThreshold
                 THEN [filled EXCEPT !.capacity = @ + LfThreshold] ELSE filled
        whole == SerializeCheckpointMetadata(roomy, roomy.length, lfAsk.journal)
    IN /\ lfPc = "write" /\ lfAsk.kind = "checkpoint"
       /\ IF logs = <<>> \/ (\E i \in DOMAIN logs : Encoded(logs[i].record) = Refused) \/ whole = Refused
          THEN lfPc' = "refused" /\ UNCHANGED <<lfBuffer, lfWritten>>
          ELSE /\ lfPc' = "stored" /\ lfWritten' = Len(whole[1].bytes)
               /\ lfBuffer' = [whole[1] EXCEPT !.length = Len(whole[1].bytes)]
       /\ UNCHANGED <<lfAsk, lfOffset, lfRead, lfFound>>

\* The name of the last checkpoint, in a blob of its own.
SerializeLastCheckpointMetadata ==
    LET whole == SerializeMessage(NewBuffer(lfAsk.room), 0, LastCheckpointMetadata(lfAsk.journal))
    IN /\ lfPc = "write" /\ lfAsk.kind = "last"
       /\ IF whole = Refused THEN lfPc' = "refused" /\ UNCHANGED <<lfBuffer, lfWritten>>
          ELSE /\ lfPc' = "stored" /\ lfWritten' = Len(whole[1].bytes)
               /\ lfBuffer' = [whole[1] EXCEPT !.length = Len(whole[1].bytes)]
       /\ UNCHANGED <<lfAsk, lfOffset, lfRead, lfFound>>

-----------------------------------------------------------------------------
(* Reading.                                                                 *)

\* The blob as it is read: whole, or cut short.
Fetch ==
    /\ lfPc = "stored"
    /\ \E n \in (lfWritten - lfAsk.cuts)..lfWritten :
           n >= 0 /\ lfBuffer' = [bytes |-> SubSeq(lfBuffer.bytes, 1, n), capacity |-> n, length |-> n]
    /\ lfPc' = IF lfAsk.kind = "journal" THEN "logs" ELSE "metadata"
    /\ UNCHANGED <<lfAsk, lfWritten, lfOffset, lfRead, lfFound>>

ReadMetadata ==
    LET last == DeserializeMessage(lfBuffer, 0)
        metadata == DeserializeCheckpointMetadata(lfBuffer)
    IN /\ lfPc = "metadata"
       /\ \/ /\ lfAsk.kind = "last"
             /\ IF last = Refused THEN lfPc' = "refused" /\ UNCHANGED lfRead
                ELSE lfPc' = "end" /\ lfRead' = <<Value(last[1], "last_checkpoint_id", 0)>>
             /\ UNCHANGED lfBuffer
          \/ /\ lfAsk.kind = "checkpoint"
             /\ IF metadata = Refused THEN lfPc' = "refused" /\ UNCHANGED lfBuffer
                ELSE lfPc' = "logs" /\ lfBuffer' = [lfBuffer EXCEPT !.length = @ - metadata[1].taken]
             /\ UNCHANGED lfRead
       /\ UNCHANGED <<lfAsk, lfWritten, lfOffset, lfFound>>

KeysWith(found, id) == {n \in DOMAIN found.keys : found.keys[n].id = id}
KeysManagedBy(found, id) == {n \in DOMAIN found.keys : found.keys[n].manager = <<id>>}

With(f, x, v) == [y \in DOMAIN f \cup {x} |-> IF y = x THEN v ELSE f[y]]
Without(f, x) == [y \in DOMAIN f \ {x} |-> f[y]]

RecoverTransaction(found, r) ==
    IF r.remote /\ (r.secret = "" \/ r.origin = "") THEN Refused
    ELSE IF \E t \in found.transactions : t.transaction.id = r.id THEN Refused
    ELSE <<[found EXCEPT !.transactions = @ \cup {[transaction |-> r, state |-> <<>>]}]>>

PhaseRank(phase) == Cardinality({i \in DOMAIN PhaseNames : \A k \in 1..i : PhaseNames[k][1] # phase})

RecoverPhase(found, r) ==
    LET known == {t \in found.transactions : t.transaction.id = r.id}
        current == {IF t.state = <<>> THEN "NotStarted" ELSE t.state[1].phase : t \in known}
    IN IF known = {} THEN IF r.phase = "End" THEN <<found>> ELSE Refused
       ELSE IF \E phase \in current : PhaseRank(r.phase) < PhaseRank(phase) THEN Refused
       ELSE <<[found EXCEPT !.transactions =
                  (@ \ known) \cup IF r.phase = "End" THEN {}
                                   ELSE {[transaction |-> t.transaction, state |-> <<r>>] : t \in known}]>>

RecoverPair(found, r) ==
    IF r.operation = "DELETE_FROM_CACHE" THEN <<[found EXCEPT !.keys = Without(@, r.name)]>>
    ELSE IF r.name \in DOMAIN found.keys /\ found.keys[r.name].id # r.id THEN Refused
    ELSE <<[found EXCEPT !.keys = With(@, r.name, [id |-> r.id, manager |-> <<>>, groups |-> <<>>])]>>

\* A new timeframe manager, without groups.
RecoverKey(found, name, r) == <<[found EXCEPT !.keys[name].manager = <<r.manager>>, !.keys[name].groups = <<>>]>>

UpdateFrames(frames, updates) == FoldLeft(LAMBDA g, f : With(g, f.bucket, f), frames, updates)

RecoverManager(found, name, r) ==
    LET groups == found.keys[name].groups
    IN CASE r.kind = "insert" -> <<[found EXCEPT !.keys[name].groups = With(@, r.group, r.frames)]>>
         [] r.kind = "remove" -> <<[found EXCEPT !.keys[name].groups = Without(@, r.group)]>>
         [] r.group \notin DOMAIN groups -> Refused
         [] r.kind = "update" -> <<[found EXCEPT !.keys[name].groups[r.group] = UpdateFrames(@, <<r.frame>>)]>>
         [] r.kind = "batch" -> <<[found EXCEPT !.keys[name].groups[r.group] = UpdateFrames(@, r.frames)]>>

\* A log goes to the component that subscribed for its id; each key subscribes
\* when its pair is recovered, each manager when its key is.
Decoded(found, component, body) ==
    CASE component = kTransactionEngineId -> EngineRecord(body)
      [] component = kBudgetKeyProviderId -> PairRecord(body)
      [] KeysWith(found, component) # {} -> KeyRecord(body)
      [] KeysManagedBy(found, component) # {} -> ManagerRecord(body)
      [] OTHER -> Refused

Recovered(found, component, r) ==
    CASE r.kind = "transaction" -> RecoverTransaction(found, r)
      [] r.kind = "phase" -> RecoverPhase(found, r)
      [] r.kind = "pair" -> RecoverPair(found, r)
      [] r.kind = "key" -> RecoverKey(found, CHOOSE n \in KeysWith(found, component) : TRUE, r)
      [] OTHER -> RecoverManager(found, CHOOSE n \in KeysManagedBy(found, component) : TRUE, r)

ReadNextLog ==
    LET header == DeserializeLogHeader(lfBuffer, lfOffset)
        log == DeserializeJournalLog(lfBuffer, lfOffset + kLogHeaderLength)
        record == Decoded(lfFound, header[1].component, Value(log[1], "log_body", {}))
        found == Recovered(lfFound, header[1].component, record[1])
    IN /\ lfPc = "logs"
       /\ IF lfOffset >= lfBuffer.length THEN lfPc' = "end" /\ UNCHANGED <<lfOffset, lfRead, lfFound>>
          ELSE IF header = Refused \/ log = Refused \/ record = Refused \/ found = Refused
          THEN lfPc' = "refused" /\ UNCHANGED <<lfOffset, lfRead, lfFound>>
          ELSE /\ lfRead' = Append(lfRead, [component |-> header[1].component, id |-> header[1].id, record |-> record[1]])
               /\ lfFound' = found[1]
               /\ lfOffset' = lfOffset + kLogHeaderLength + Length(MessageFields(log[1]))
               /\ UNCHANGED lfPc
       /\ UNCHANGED <<lfAsk, lfBuffer, lfWritten>>

-----------------------------------------------------------------------------

LfInit ==
    /\ lfAsk \in LfAsks
    /\ lfPc = "write" /\ lfBuffer = NewBuffer(0) /\ lfWritten = 0
    /\ lfOffset = 0 /\ lfRead = <<>>
    /\ lfFound = [transactions |-> {}, keys |-> <<>>]

LfNext == WriteBatchBuffer \/ WriteCheckpointBuffer \/ SerializeLastCheckpointMetadata \/ Fetch \/ ReadMetadata \/ ReadNextLog

-----------------------------------------------------------------------------
(* What the format promises.                                                *)

\* What a record loses on its way: the secret and the origin of a transaction
\* that is not coordinated remotely, and the indices of version 1.0 commands.
KeptCommand(c) ==
    IF c.command = "consume" /\ lfAsk.version = "1_0" THEN [c EXCEPT !.budgets[1].index = <<>>] ELSE c

Kept(r) ==
    IF r.kind # "transaction" THEN r
    ELSE [r EXCEPT !.secret = IF r.remote THEN @ ELSE "", !.origin = IF r.remote THEN @ ELSE "",
                   !.commands = [i \in DOMAIN @ |-> KeptCommand(@[i])]]

KeptMemory(memory) ==
    [transactions |-> {[transaction |-> Kept(t.transaction), state |-> <<t.state>>] : t \in memory.transactions},
     keys |-> [n \in DOMAIN memory.keys |->
                  [memory.keys[n] EXCEPT !.manager = <<GetTimeframeManagerId(memory.keys[n].id)>>]]]

Wanted ==
    IF lfAsk.kind = "last" THEN <<lfAsk.journal>>
    ELSE LET logs == IF lfAsk.kind = "journal" THEN Logged ELSE CheckpointLogs(lfAsk.memory)
         IN [i \in DOMAIN logs |-> [logs[i] EXCEPT !.record = Kept(@)]]

\* The blob is read cut short: the buffer it is read into has its length.
LfCut == lfPc \notin {"write", "stored"} /\ lfBuffer.capacity < lfWritten

\* A checkpoint that finds nothing, or something that cannot be serialised, to write.
NothingToWrite ==
    /\ lfAsk.kind = "checkpoint"
    /\ LET logs == CheckpointLogs(lfAsk.memory)
       IN logs = <<>> \/ \E i \in DOMAIN logs : Encoded(logs[i].record) = Refused

\* What is read from a blob is what was written to it, in its order and but for the
\* documented losses: all of it from a whole blob, from which a checkpoint brings the
\* memory back, a first part of it from a blob cut short. A cut checkpoint and a cut
\* name of the last checkpoint are refused as a whole; a journal that was cut passes
\* for whole only where the cut falls between two logs.
FormatIsWhole ==
    /\ lfPc = "refused" => LfCut \/ NothingToWrite
    /\ lfPc \in {"logs", "end"} \/ LfCut =>
           /\ IsPrefix(lfRead, Wanted)
           /\ LfCut /\ lfAsk.kind # "journal" /\ lfPc # "metadata" => lfPc = "refused" /\ lfRead = <<>>
    /\ lfPc = "end" /\ lfAsk.kind # "last" => lfOffset = lfBuffer.length
    /\ lfPc = "end" /\ ~LfCut =>
           /\ lfRead = Wanted
           /\ lfAsk.kind = "checkpoint" => lfFound = KeptMemory(lfAsk.memory)

=============================================================================
