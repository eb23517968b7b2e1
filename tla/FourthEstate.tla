---------------------------- MODULE FourthEstate ----------------------------
(***************************************************************************)
(* FourthEstate (app/api/fourth_estate.py): the RabbitMQ publisher that    *)
(* all tasks of one process share, with its counters and the buffer its    *)
(* reports are built from.  A task publishes a list of events, one at a    *)
(* time.  Another task can run at each await of publish and connect: the   *)
(* connection, the channel with the exchange's declaration, the sending.   *)
(*                                                                         *)
(* RabbitMQ and aio_pika are external: a connection, a declaration or a    *)
(* publish may fail, and only close() closes a robust connection.          *)
(***************************************************************************)
EXTENDS Naturals, Sequences

CONSTANTS
    Tasks,
    BufferSize

ASSUME BufferAssumption == BufferSize \in Nat \ {0}

VARIABLES
    connection,     \* _connection
    exchange,       \* _exchange is set
    totalEvents, violationCount, sequence,
    buffer,         \* _buffer, oldest event first
    delivered,      \* messages the broker has taken
    agenda,         \* the events a task has yet to publish, at its head the
                    \* one it is publishing
    stage           \* where in publish a task stands

estateVars == <<connection, exchange, totalEvents, violationCount, sequence,
                buffer, delivered, agenda, stage>>

(* publish_action_submitted, publish_llm_result, publish_ether_event and   *)
(* publish_domain_event publish one event; publish_stamp_issued a second   *)
(* and a third for a rejection; publish_event may be given another model.  *)
Agendas == {<<"EVENT">>, <<"FOREIGN">>, <<"STAMP_ISSUED">>,
            <<"STAMP_ISSUED", "STAMP_REJECTED", "CONSTITUTIONAL_VIOL">>}
EventTypes == {"EVENT", "FOREIGN", "STAMP_ISSUED", "STAMP_REJECTED",
               "CONSTITUTIONAL_VIOL"}
EstateEvent == [task : Tasks, event_type : EventTypes]

EstateTypeOK ==
    /\ connection \in {"none", "open", "closed"}
    /\ exchange \in BOOLEAN
    /\ totalEvents \in Nat /\ violationCount \in Nat /\ sequence \in Nat
    /\ buffer \in Seq(EstateEvent) /\ Len(buffer) <= BufferSize
    /\ delivered \subseteq EstateEvent
    /\ agenda \in [Tasks -> Seq(EventTypes)]
    /\ stage \in [Tasks -> {"ready", "connecting", "declaring", "sending"}]

EstateInit ==
    /\ connection = "none" /\ exchange = FALSE
    /\ totalEvents = 0 /\ violationCount = 0 /\ sequence = 0
    /\ buffer = <<>>
    /\ delivered = {}
    /\ agenda \in [Tasks -> Agendas]
    /\ stage = [t \in Tasks |-> "ready"]

-----------------------------------------------------------------------------
Current(t) == [task |-> t, event_type |-> Head(agenda[t])]

(* deque(maxlen): the oldest event makes room.                             *)
Appended(e) ==
    IF Len(buffer) = BufferSize THEN Append(Tail(buffer), e)
                                ELSE Append(buffer, e)

(* publish, or publish_event for another model, up to the first await.     *)
(* flag_constitutional_violation counts before it publishes.               *)
Record(t) ==
    /\ totalEvents' = totalEvents + 1
    /\ IF Head(agenda[t]) = "FOREIGN"
       THEN UNCHANGED <<violationCount, sequence, buffer>>
       ELSE /\ sequence' = sequence + 1
            /\ buffer' = Appended(Current(t))
            /\ violationCount' = IF Head(agenda[t]) = "CONSTITUTIONAL_VIOL"
                                 THEN violationCount + 1 ELSE violationCount

(* publish returns: whatever was not sent by now is lost.                  *)
Finished(t) ==
    /\ agenda' = [agenda EXCEPT ![t] = Tail(@)]
    /\ stage' = [stage EXCEPT ![t] = "ready"]

(* Seeded fault: connect() runs whenever there is no exchange.             *)
MustConnectAnew(t) == ~exchange /\ Head(agenda[t]) # "FOREIGN"

(* publish calls connect() if there is no exchange, and connect() does     *)
(* nothing if there is an open connection.                                 *)
MustConnect(t) ==
    ~exchange /\ connection # "open" /\ Head(agenda[t]) # "FOREIGN"

PublishEvent(t) ==
    /\ stage[t] = "ready" /\ agenda[t] # <<>>
    /\ Record(t)
    /\ \/ /\ MustConnect(t)
          /\ stage' = [stage EXCEPT ![t] = "connecting"]
          /\ UNCHANGED agenda
       \/ /\ exchange
          /\ stage' = [stage EXCEPT ![t] = "sending"]
          /\ UNCHANGED agenda
       \/ /\ ~exchange /\ ~MustConnect(t)
          /\ Finished(t)
    /\ UNCHANGED <<connection, exchange, delivered>>

(* connect_robust answers.                                                 *)
Connect(t) ==
    /\ stage[t] = "connecting"
    /\ connection' = "open"
    /\ stage' = [stage EXCEPT ![t] = "declaring"]
    /\ UNCHANGED <<exchange, totalEvents, violationCount, sequence, buffer,
                   delivered, agenda>>

(* channel() and declare_exchange() answer.                                *)
Declare(t) ==
    /\ stage[t] = "declaring" /\ connection = "open"
    /\ exchange' = TRUE
    /\ stage' = [stage EXCEPT ![t] = "sending"]
    /\ UNCHANGED <<connection, totalEvents, violationCount, sequence, buffer,
                   delivered, agenda>>

(* One of the three raises; connect() logs it, and publish goes on: it may *)
(* still find the exchange another task has declared meanwhile.            *)
ConnectFails(t) ==
    /\ stage[t] \in {"connecting", "declaring"}
    /\ IF exchange THEN /\ stage' = [stage EXCEPT ![t] = "sending"]
                        /\ UNCHANGED agenda
                   ELSE Finished(t)
    /\ UNCHANGED <<connection, exchange, totalEvents, violationCount, sequence,
                   buffer, delivered>>

(* The message is taken.  The exchange may have been declared on an        *)
(* earlier, closed connection: the model lets that pass too.               *)
Send(t) ==
    /\ stage[t] = "sending" /\ connection = "open"
    /\ delivered' = delivered \cup {Current(t)}
    /\ Finished(t)
    /\ UNCHANGED <<connection, exchange, totalEvents, violationCount, sequence,
                   buffer>>

(* The failure is logged, the event lost.                                  *)
SendFails(t) ==
    /\ stage[t] = "sending"
    /\ Finished(t)
    /\ UNCHANGED <<connection, exchange, totalEvents, violationCount, sequence,
                   buffer, delivered>>

(* close(): _exchange keeps its value, so publish does not connect again.  *)
Close ==
    /\ connection = "open"
    /\ connection' = "closed"
    /\ UNCHANGED <<exchange, totalEvents, violationCount, sequence, buffer,
                   delivered, agenda, stage>>

EstateNext ==
    \/ \E t \in Tasks : \/ PublishEvent(t) \/ Connect(t) \/ Declare(t)
                        \/ ConnectFails(t) \/ Send(t) \/ SendFails(t)
    \/ Close

EstateSpec == EstateInit /\ [][EstateNext]_estateVars

-----------------------------------------------------------------------------
(* An open connection on which nobody is declaring the exchange, after a   *)
(* failure of channel() or declare_exchange().                             *)
HalfConnected ==
    /\ connection = "open" /\ ~exchange
    /\ \A t \in Tasks : stage[t] \notin {"connecting", "declaring"}

(* A half-connected FourthEstate delivers nothing and stays so until it is *)
(* closed: connect() looks at the connection only, and every later event   *)
(* is counted, buffered and lost (connect, publish).                       *)
HalfConnectedStaysMute ==
    [][HalfConnected =>
          /\ delivered' = delivered
          /\ HalfConnected' \/ connection' = "closed"]_estateVars
=============================================================================
