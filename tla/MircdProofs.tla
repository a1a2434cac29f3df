---------------------------- MODULE MircdProofs ----------------------------
(* Proofs that the properties of Mircd hold for any set of clients,         *)
(* descriptors, nicknames and channels.                                     *)
EXTENDS Mircd, TLAPS

(* A Client object is keyed by one descriptor, one that accept has not made *)
(* or that client_del has freed is in no map but Channel::users, and a map  *)
(* never holds one that accept has not made.                                *)
Objects ==
  /\ \A f, g \in Fd : clients[f] = clients[g] /\ clients[f] # NoConn => f = g
  /\ fresh \cap Live = {}
  /\ \A c \in Conn \ Live : status[c] = {} /\ nickname[c] = NoNick /\ joined[c] = {}
  /\ \A ch \in Channel, f \in Fd : users[ch][f] \notin fresh

(* The inductive invariant from which the others are proved.                *)
IInv ==
  /\ TypeOK /\ Objects /\ Membership /\ RegistrationComplete
  /\ NoLeakedNick

LEMMA LiveType == TypeOK => Live \subseteq Conn
BY DEF TypeOK, Live

(* Whatever is sent through a descriptor is a message to a client object.   *)
LEMMA ToFdType ==
  ASSUME TypeOK, NEW f \in Fd, NEW cmd \in CMD, NEW nick \in AllNick \cup Channel
  PROVE  ToFd(f, cmd, nick) \subseteq Msg
BY DEF ToFd, TypeOK, Msg

LEMMA ReplyType ==
  ASSUME TypeOK, serving # NoFd, NEW cmd \in CMD,
         NEW nick \in AllNick \cup Channel
  PROVE  Reply(cmd, nick) \subseteq Msg
BY ToFdType DEF Reply, TypeOK

LEMMA BroadcastType ==
  ASSUME TypeOK, NEW us, NEW fds \in SUBSET Fd, NEW cmd \in CMD,
         NEW nick \in AllNick \cup Channel
  PROVE  Broadcast(us, fds, cmd, nick) \subseteq Msg
<1>1. ASSUME NEW f \in fds PROVE ToFd(f, cmd, nick) \subseteq Msg
  BY <1>1, ToFdType
<1> QED BY <1>1 DEF Broadcast

(* The initial state satisfies the invariant.                               *)
LEMMA InitIInv == Init => IInv
<1> SUFFICES ASSUME Init PROVE IInv
  OBVIOUS
<1> USE MircdAssumption DEF Init
<1>1. Live = {}
  BY DEF Live
<1>2. TypeOK
  BY DEF TypeOK, AllNick
<1>3. Objects
  BY <1>1 DEF Objects
<1>4. Membership /\ RegistrationComplete /\ NoLeakedNick
  BY <1>1 DEF Membership, RegistrationComplete, NoLeakedNick, AllNick
<1> QED BY <1>2, <1>3, <1>4 DEF IInv

(* A step that only sends, or kills the process, keeps the invariant.       *)
LEMMA OnlySends ==
  ASSUME IInv, UNCHANGED <<account, rooms, socks>>, out' \subseteq Msg,
         up' \in BOOLEAN
  PROVE  IInv'
<1> USE DEF account, rooms, socks
<1>1. Live' = Live /\ me' = me
  BY DEF Live, me
<1>2. TypeOK' /\ Objects'
  BY <1>1 DEF IInv, TypeOK, Objects
<1>3. Membership' /\ RegistrationComplete' /\ NoLeakedNick'
  BY <1>1 DEF IInv, Membership, RegistrationComplete, NoLeakedNick
<1> QED BY <1>2, <1>3 DEF IInv

(* What the replies of a channel are.                                       *)
LEMMA NickType ==
  ASSUME IInv, Calling("JOIN") \/ \E cmd : Calling(cmd)
  PROVE  /\ serving \in Fd /\ serving # NoFd /\ me \in Live /\ me \in Conn /\ up
         /\ nickname[me] \in AllNick
BY DEF IInv, TypeOK, Calling, InBuffer, me, Live, AllNick

LEMMA NamesReplyType ==
  ASSUME TypeOK, serving # NoFd, NEW us, nickname[me] \in AllNick
  PROVE  NamesReply(us) \subseteq Msg
<1>1. Reply("ENDOFNAMES", nickname[me]) \subseteq Msg
  BY ReplyType DEF CMD, RPL
<1>2. Reply("NAMREPLY", nickname[me]) \subseteq Msg
  BY ReplyType DEF CMD, RPL
<1> QED BY <1>1, <1>2 DEF NamesReply

(* A refusal keeps the invariant.                                           *)
LEMMA ThrowStep ==
  ASSUME IInv, InBuffer, NEW err \in ERR, Throw(err)
  PROVE  IInv'
<1>1. out' \subseteq Msg
  BY ReplyType DEF Throw, InBuffer, IInv, AllNick, CMD
<1> QED BY <1>1, OnlySends DEF Throw, InBuffer, IInv, TypeOK

LEMMA RefusalStep ==
  ASSUME IInv, Refusal
  PROVE  IInv'
<1> USE ThrowStep DEF ERR
<1>1. CASE UnknownCommand
  BY <1>1 DEF UnknownCommand
<1>2. CASE CallWithoutClient
  BY <1>2, OnlySends DEF CallWithoutClient
<1>3. ASSUME NEW cmd \in cmds, NotRegistered(cmd) \/ NeedMoreParams(cmd)
      PROVE  IInv'
  BY <1>3 DEF NotRegistered, NeedMoreParams, Calling
<1>4. ASSUME NEW n \in AllNick, NickInUse(n)
      PROVE  IInv'
  BY <1>4 DEF NickInUse, Calling
<1>5. ASSUME NEW cmd \in {"JOIN", "NAMES"}, NEW ch \in BadChannel, BadName(cmd, ch)
      PROVE  IInv'
  BY <1>5 DEF BadName, Calling
<1>6. ASSUME NEW cmd \in {"PART", "TOPIC"}, NEW ch \in AllChan,
             NoChannel(cmd, ch) \/ NotOnChannel(cmd, ch)
      PROVE  IInv'
  BY <1>6 DEF NoChannel, NotOnChannel, Calling
<1>7. CASE Calling("NICK") /\ Throw("NONICKNAMEGIVEN")
  BY <1>7 DEF Calling
<1>8. ASSUME NEW err \in {"NORECIPIENT", "NOTEXTTOSEND"}, PrivmsgIncomplete(err)
      PROVE  IInv'
  BY <1>8 DEF PrivmsgIncomplete, Calling
<1>9. CASE PingNoOrigin
  BY <1>9 DEF PingNoOrigin, Calling
<1> QED
  BY <1>1, <1>2, <1>3, <1>4, <1>5, <1>6, <1>7, <1>8, <1>9 DEF Refusal

(* accept makes an object that nothing refers to yet.                       *)
LEMMA AcceptStep ==
  ASSUME IInv, NEW c \in Conn, NEW f \in Fd, Accept(c, f)
  PROVE  IInv'
<1> USE DEF Accept, account, rooms
<1>1. Live' = Live \cup {c} /\ c \notin Live
  BY MircdAssumption DEF Live, IInv, TypeOK, Objects
<1>2. TypeOK'
  BY DEF IInv, TypeOK
<1>3. \A g \in Fd : clients'[g] = IF g = f THEN c ELSE clients[g]
  BY DEF IInv, TypeOK
<1>4. status[c] = {} /\ nickname[c] = NoNick /\ joined[c] = {}
  BY <1>1 DEF IInv, Objects
<1>5. Objects'
  BY <1>1, <1>3 DEF IInv, TypeOK, Objects, Live, me
<1>6. Membership'
  BY <1>3, <1>4 DEF IInv, Membership
<1>7. RegistrationComplete' /\ NoLeakedNick'
  BY <1>1, <1>4, MircdAssumption DEF IInv, RegistrationComplete, NoLeakedNick
<1> QED BY <1>2, <1>5, <1>6, <1>7 DEF IInv

(* Entering and leaving a read buffer.                                      *)
LEMMA BufferStep ==
  ASSUME IInv, (\E f \in Fd : ReadInput(f)) \/ EndOfBuffer
  PROVE  IInv'
<1> USE DEF ReadInput, EndOfBuffer, account, rooms
<1>1. Live' = Live
  BY DEF Live
<1>2. TypeOK' /\ Membership' /\ RegistrationComplete' /\ NoLeakedNick'
  BY <1>1 DEF IInv, TypeOK, Membership, RegistrationComplete, NoLeakedNick
<1>3. Objects'
  BY <1>1 DEF IInv, Objects
<1> QED BY <1>2, <1>3 DEF IInv

(* client_del erases the nickname of the object it frees, so no entry of    *)
(* nick_mp that a client may bear survives it.                              *)
LEMMA DisconnectStep ==
  ASSUME IInv, up, NEW f \in Fd, clients[f] # NoConn, Disconnect(f)
  PROVE  IInv'
<1> DEFINE c == clients[f]
<1> USE DEF Disconnect
<1>1. c \in Conn /\ c \in Live /\ c \notin fresh /\ nickname[c] \in AllNick
  BY DEF Live, IInv, TypeOK, Objects, AllNick
<1>2. Live' = Live \ {c}
  BY DEF Live, IInv, TypeOK, Objects
<1>3. TypeOK'
  BY <1>1 DEF IInv, TypeOK
<1>4. \A d \in Conn : d # c =>
        status'[d] = status[d] /\ nickname'[d] = nickname[d] /\ joined'[d] = joined[d]
  BY DEF IInv, TypeOK
<1>5. status'[c] = {} /\ nickname'[c] = NoNick /\ joined'[c] = {}
  BY <1>1 DEF IInv, TypeOK
<1>6. \A g \in Fd : clients'[g] = IF g = f THEN NoConn ELSE clients[g]
  BY DEF IInv, TypeOK
<1>7. Objects'
  <2>1. \A g, h \in Fd : clients'[g] = clients'[h] /\ clients'[g] # NoConn => g = h
    BY <1>6 DEF IInv, Objects
  <2>2. \A d \in Conn \ Live' :
          status'[d] = {} /\ nickname'[d] = NoNick /\ joined'[d] = {}
    BY <1>2, <1>4, <1>5 DEF IInv, Objects
  <2> QED BY <1>2, <2>1, <2>2 DEF IInv, Objects
<1>8. Membership'
  <2> SUFFICES ASSUME NEW g \in Fd, clients'[g] # NoConn,
                      NEW ch \in joined'[clients'[g]]
               PROVE  ch \in channels' /\ users'[ch][g] # NoConn
    BY DEF Membership
  <2>1. g # f /\ clients'[g] = clients[g] /\ clients[g] # c
    BY <1>6 DEF IInv, Objects
  <2> QED BY <2>1, <1>4 DEF IInv, TypeOK, Membership
<1>9. RegistrationComplete'
  <2> SUFFICES ASSUME NEW d \in Live'
               PROVE  /\ "WELCOME" \in status'[d] <=> {"NICK", "USER"} \subseteq status'[d]
                      /\ "NICK" \in status'[d] <=> nickname'[d] \in GoodNick
                      /\ joined'[d] # {} => "WELCOME" \in status'[d]
    BY DEF RegistrationComplete
  <2>1. /\ d \in Live
        /\ status'[d] = status[d] /\ nickname'[d] = nickname[d]
        /\ joined'[d] = joined[d]
    BY <1>2, <1>4, LiveType DEF IInv
  <2> QED BY <2>1 DEF IInv, RegistrationComplete
<1>10. NoLeakedNick'
  <2> SUFFICES ASSUME NEW n \in GoodNick, nick_mp'[n] # NoConn
               PROVE  nick_mp'[n] \in Live' /\ nickname'[nick_mp'[n]] = n
    BY DEF NoLeakedNick
  <2>1. n # nickname[c] /\ nick_mp'[n] = nick_mp[n]
    BY <1>1 DEF IInv, TypeOK, AllNick
  <2>2. nick_mp[n] \in Live /\ nickname[nick_mp[n]] = n
    BY <2>1 DEF IInv, NoLeakedNick
  <2> QED BY <2>1, <2>2, <1>2, <1>4 DEF IInv, TypeOK, Live
<1> QED BY <1>3, <1>7, <1>8, <1>9, <1>10 DEF IInv

LEMMA ConnectionStep ==
  ASSUME IInv, Connection
  PROVE  IInv'
<1>1. ASSUME NEW f \in Fd, ReadEof(f)
      PROVE  IInv'
  BY <1>1, DisconnectStep DEF ReadEof
<1> QED BY <1>1, AcceptStep, BufferStep DEF Connection

(* Welcome messages are messages.                                           *)
LEMMA WelcomeType ==
  ASSUME TypeOK, serving # NoFd, NEW st, NEW nick \in AllNick
  PROVE  Welcome(st, nick) \subseteq Msg
BY ReplyType DEF Welcome, CMD, RPL

(* What regist makes of a status, given that the client is welcomed exactly *)
(* when it has both bits.                                                   *)
LEMMA RegistComplete ==
  ASSUME NEW st \in SUBSET {"NICK", "USER", "WELCOME"}, NEW bit \in {"NICK", "USER"},
         "WELCOME" \in st <=> {"NICK", "USER"} \subseteq st
  PROVE  LET new == Regist(st \cup {bit}) IN
         /\ new \in SUBSET {"NICK", "USER", "WELCOME"}
         /\ "WELCOME" \in new <=> {"NICK", "USER"} \subseteq new
         /\ bit \in new /\ st \subseteq new
         /\ bit = "USER" => ("NICK" \in new <=> "NICK" \in st)
BY DEF Regist

LEMMA UserStep ==
  ASSUME IInv, User
  PROVE  IInv'
<1>0. /\ serving \in Fd /\ serving # NoFd /\ me \in Live /\ me \in Conn /\ up
      /\ nickname[me] \in AllNick
  BY NickType DEF User
<1>1. CASE Throw("ALREADYREGISTRED")
  BY <1>0, <1>1, ThrowStep DEF InBuffer, ERR
<1>2. CASE ~ Throw("ALREADYREGISTRED")
  <2> DEFINE st == status[me] \cup {"USER"}
  <2>1. /\ status' = [status EXCEPT ![me] = Regist(st)]
        /\ out' = Welcome(st, nickname[me])
        /\ UNCHANGED <<nickname, nick_mp, joined, channels, topic, users,
                       fresh, clients, serving, up>>
    BY <1>2 DEF User, rooms, socks
  <2>2. Live' = Live /\ me' = me
    BY <2>1 DEF Live, me
  <2>3. /\ "WELCOME" \in status[me] <=> {"NICK", "USER"} \subseteq status[me]
        /\ status[me] \in SUBSET {"NICK", "USER", "WELCOME"}
    BY <1>0 DEF IInv, TypeOK, RegistrationComplete
  <2>4. /\ Regist(st) \in SUBSET {"NICK", "USER", "WELCOME"}
        /\ "WELCOME" \in Regist(st) <=> {"NICK", "USER"} \subseteq Regist(st)
        /\ status[me] \subseteq Regist(st)
        /\ "NICK" \in Regist(st) <=> "NICK" \in status[me]
    BY <2>3, RegistComplete
  <2>5. \A d \in Conn : status'[d] = IF d = me THEN Regist(st) ELSE status[d]
    BY <2>1, <1>0 DEF IInv, TypeOK
  <2>6. TypeOK'
    BY <2>1, <2>4, <1>0, WelcomeType DEF IInv, TypeOK
  <2>7. Objects'
    BY <2>1, <2>2, <2>5, <1>0 DEF IInv, Objects
  <2>8. RegistrationComplete'
    <3> SUFFICES ASSUME NEW d \in Live
                 PROVE  /\ "WELCOME" \in status'[d] <=> {"NICK", "USER"} \subseteq status'[d]
                        /\ "NICK" \in status'[d] <=> nickname[d] \in GoodNick
                        /\ joined[d] # {} => "WELCOME" \in status'[d]
      BY <2>1, <2>2 DEF RegistrationComplete
    <3>1. /\ "WELCOME" \in status[d] <=> {"NICK", "USER"} \subseteq status[d]
          /\ "NICK" \in status[d] <=> nickname[d] \in GoodNick
          /\ joined[d] # {} => "WELCOME" \in status[d]
      BY DEF IInv, RegistrationComplete
    <3>2. status'[d] = IF d = me THEN Regist(st) ELSE status[d]
      BY <2>5, LiveType DEF IInv
    <3> HIDE DEF st
    <3> QED BY ONLY <2>4, <3>1, <3>2
  <2>9. Membership' /\ NoLeakedNick'
    BY <2>1, <2>2, <1>0 DEF IInv, Membership, NoLeakedNick
  <2> QED BY <2>6, <2>7, <2>8, <2>9 DEF IInv
<1> QED BY <1>1, <1>2

(* NICK: the entry of the old name goes and the entry of the new one comes, *)
(* even when changeNick then refuses the new name, which no client can bear *)
(* in that case.                                                            *)
LEMMA NickStep ==
  ASSUME IInv, NEW n \in AllNick, Nick(n)
  PROVE  IInv'
<1>0. /\ serving \in Fd /\ serving # NoFd /\ me \in Live /\ me \in Conn /\ up
      /\ nickname[me] \in AllNick
  BY NickType DEF Nick
<1>1. /\ UNCHANGED <<joined, channels, topic, users, fresh, clients, serving, up>>
      /\ nick_mp' = [k \in AllNick |->
                       IF k = n THEN me
                       ELSE IF "NICK" \in status[me] /\ k = nickname[me] THEN NoConn
                       ELSE nick_mp[k]]
      /\ ChangeNick(n)
  BY DEF Nick, rooms, socks
<1>2. Live' = Live /\ me' = me
  BY <1>1 DEF Live, me
<1>3. /\ "WELCOME" \in status[me] <=> {"NICK", "USER"} \subseteq status[me]
      /\ "NICK" \in status[me] <=> nickname[me] \in GoodNick
      /\ status[me] \in SUBSET {"NICK", "USER", "WELCOME"}
  BY <1>0 DEF IInv, TypeOK, RegistrationComplete
<1>4. Membership'
  BY <1>0, <1>1, <1>2 DEF IInv, Membership
<1>5. nick_mp' \in [AllNick -> Conn \cup {NoConn}]
  BY <1>0, <1>1 DEF IInv, TypeOK
<1>6. \A k \in GoodNick : nick_mp'[k] # NoConn /\ k # n =>
        nick_mp'[k] = nick_mp[k] /\ nick_mp[k] \in Live \ {me}
        /\ nickname[nick_mp[k]] = k
  <2> SUFFICES ASSUME NEW k \in GoodNick, nick_mp'[k] # NoConn, k # n
               PROVE  nick_mp'[k] = nick_mp[k] /\ nick_mp[k] \in Live \ {me}
                      /\ nickname[nick_mp[k]] = k
    OBVIOUS
  <2>1. nick_mp'[k] = nick_mp[k] /\ ~ ("NICK" \in status[me] /\ k = nickname[me])
    BY <1>1 DEF AllNick
  <2>2. nick_mp[k] \in Live /\ nickname[nick_mp[k]] = k
    BY <2>1 DEF IInv, NoLeakedNick
  <2> QED BY <2>1, <2>2, <1>3
<1>7. CASE n \notin GoodNick
  <2>1. UNCHANGED <<status, nickname>> /\ out' = Reply("ERRONEUSNICKNAME", NoNick)
    BY <1>1, <1>7 DEF ChangeNick
  <2>2. TypeOK'
    BY <2>1, <1>0, <1>1, <1>5, ReplyType DEF IInv, TypeOK, AllNick, CMD, ERR
  <2>3. Objects' /\ RegistrationComplete'
    BY <2>1, <1>0, <1>1, <1>2 DEF IInv, Objects, RegistrationComplete
  <2>4. NoLeakedNick'
    BY <2>1, <1>2, <1>6, <1>7 DEF NoLeakedNick
  <2> QED BY <2>2, <2>3, <2>4, <1>4 DEF IInv
<1>8. CASE n \in GoodNick
  <2> DEFINE st == status[me] \cup {"NICK"}
  <2>1. /\ status' = [status EXCEPT ![me] = Regist(st)]
        /\ nickname' = [nickname EXCEPT ![me] = n]
        /\ out' = Welcome(st, n) \cup
                  (IF "NICK" \in status[me] THEN Reply("NICK", nickname[me]) ELSE {})
    BY <1>1, <1>8 DEF ChangeNick
  <2>2. /\ Regist(st) \in SUBSET {"NICK", "USER", "WELCOME"}
        /\ "WELCOME" \in Regist(st) <=> {"NICK", "USER"} \subseteq Regist(st)
        /\ status[me] \subseteq Regist(st) /\ "NICK" \in Regist(st)
    BY <1>3, RegistComplete
  <2>3. \A d \in Conn :
          /\ status'[d] = IF d = me THEN Regist(st) ELSE status[d]
          /\ nickname'[d] = IF d = me THEN n ELSE nickname[d]
    BY <2>1, <1>0 DEF IInv, TypeOK
  <2>4. out' \subseteq Msg
    <3>1. Welcome(st, n) \subseteq Msg
      BY <1>0, WelcomeType DEF IInv
    <3>2. Reply("NICK", nickname[me]) \subseteq Msg
      BY <1>0, ReplyType DEF IInv, CMD, Relayed
    <3> QED BY <2>1, <3>1, <3>2
  <2>5. TypeOK'
    BY <2>1, <2>2, <2>4, <1>0, <1>1, <1>5, <1>8 DEF IInv, TypeOK
  <2>6. Objects'
    BY <2>3, <1>0, <1>1, <1>2 DEF IInv, Objects
  <2>7. RegistrationComplete'
    BY <2>2, <2>3, <1>0, <1>1, <1>2, <1>8, LiveType DEF IInv, RegistrationComplete
  <2>8. NoLeakedNick'
    <3> SUFFICES ASSUME NEW k \in GoodNick, nick_mp'[k] # NoConn
                 PROVE  nick_mp'[k] \in Live' /\ nickname'[nick_mp'[k]] = k
      BY DEF NoLeakedNick
    <3>1. CASE k = n
      BY <3>1, <2>3, <1>0, <1>1, <1>2
    <3>2. CASE k # n
      BY <3>2, <2>3, <1>2, <1>6, LiveType DEF IInv
    <3> QED BY <3>1, <3>2
  <2> QED BY <2>5, <2>6, <2>7, <2>8, <1>4 DEF IInv
<1> QED BY <1>7, <1>8

(* Commands that answer and change nothing.                                 *)
LEMMA AnswerStep ==
  ASSUME IInv, NEW cmd \in cmds, NEW msgs \in SUBSET Msg, Answer(cmd, msgs)
  PROVE  IInv'
BY OnlySends DEF Answer, Calling, InBuffer, IInv, TypeOK

(* A step that changes only rooms keeps the invariant when it keeps the     *)
(* types, refers to no object that accept has not made, keeps membership    *)
(* and leaves the channels of every other client as they are.               *)
LEMMA RoomStep ==
  ASSUME IInv, me \in Live, "WELCOME" \in status[me], UNCHANGED <<account, socks>>,
         joined' \in [Conn -> SUBSET Channel], channels' \subseteq Channel,
         topic' \in [Channel -> Topic \cup {NoTopic}],
         users' \in [Channel -> [Fd -> Conn \cup {NoConn}]],
         out' \subseteq Msg, up' \in BOOLEAN,
         \A ch \in Channel, f \in Fd : users'[ch][f] \notin fresh,
         \A c \in Conn : c # me => joined'[c] = joined[c],
         Membership'
  PROVE  IInv'
<1> USE DEF account, socks
<1>1. Live' = Live /\ me' = me
  BY DEF Live, me
<1>2. TypeOK' /\ Objects'
  BY <1>1 DEF IInv, TypeOK, Objects
<1>3. RegistrationComplete'
  BY <1>1, LiveType DEF IInv, RegistrationComplete
<1>4. NoLeakedNick'
  BY <1>1 DEF IInv, NoLeakedNick
<1> QED BY <1>2, <1>3, <1>4 DEF IInv

(* What holds when a command of a welcomed client is called.                *)
LEMMA Caller ==
  ASSUME IInv, NEW cmd, Calling(cmd)
  PROVE  /\ serving \in Fd /\ serving # NoFd /\ me \in Live /\ me \in Conn /\ up
         /\ nickname[me] \in AllNick
         /\ cmd \notin unreg_allow => "WELCOME" \in status[me]
         /\ \A f \in Fd : clients[f] = me => f = serving
  BY NickType DEF Calling, IInv, Objects, me, Live

LEMMA JoinStep ==
  ASSUME IInv, NEW ch \in Channel, Join(ch)
  PROVE  IInv'
<1> DEFINE us == Added(users[ch], serving, me)
<1>0. /\ serving \in Fd /\ serving # NoFd /\ me \in Live /\ me \in Conn
      /\ nickname[me] \in AllNick /\ "WELCOME" \in status[me]
      /\ \A f \in Fd : clients[f] = me => f = serving
  BY Caller DEF Join, unreg_allow
<1>1. /\ channels' = channels \cup {ch}
      /\ joined' = [joined EXCEPT ![me] = @ \cup {ch}]
      /\ users' = [users EXCEPT ![ch] = us]
      /\ out' = Broadcast(us, Fd, "JOIN", nickname[me])
                   \cup Reply(TopicReply(ch), ch) \cup NamesReply(us)
      /\ Deref(Refs(us))
      /\ UNCHANGED <<topic, account, socks>>
  BY DEF Join, GetChannel
<1>2. /\ us \in [Fd -> Conn \cup {NoConn}]
      /\ us[serving] # NoConn
      /\ \A f \in Fd : users[ch][f] # NoConn => us[f] # NoConn
      /\ \A f \in Fd : us[f] \notin fresh
  BY <1>0, MircdAssumption DEF Added, IInv, TypeOK, Objects
<1>3. out' \subseteq Msg
  <2>1. Broadcast(us, Fd, "JOIN", nickname[me]) \subseteq Msg
    BY <1>0, BroadcastType DEF IInv, CMD, Relayed
  <2>2. Reply(TopicReply(ch), ch) \subseteq Msg
    BY <1>0, ReplyType DEF IInv, CMD, RPL, TopicReply
  <2>3. NamesReply(us) \subseteq Msg
    BY <1>0, NamesReplyType DEF IInv
  <2> QED BY <1>1, <2>1, <2>2, <2>3
<1>4. up' \in BOOLEAN
  BY <1>1 DEF Deref
<1>5. /\ joined' \in [Conn -> SUBSET Channel]
      /\ users' \in [Channel -> [Fd -> Conn \cup {NoConn}]]
      /\ channels' \subseteq Channel
      /\ topic' \in [Channel -> Topic \cup {NoTopic}]
      /\ \A h \in Channel, f \in Fd : users'[h][f] \notin fresh
      /\ \A c \in Conn : joined'[c] = IF c = me THEN joined[c] \cup {ch} ELSE joined[c]
      /\ \A h \in Channel : users'[h] = IF h = ch THEN us ELSE users[h]
  <2> HIDE DEF us
  <2>1. joined \in [Conn -> SUBSET Channel] /\ users \in [Channel -> [Fd -> Conn \cup {NoConn}]]
    BY DEF IInv, TypeOK
  <2>2. /\ joined' \in [Conn -> SUBSET Channel]
        /\ \A c \in Conn : joined'[c] = IF c = me THEN joined[c] \cup {ch} ELSE joined[c]
    BY <1>0, <1>1, <2>1
  <2>3. /\ users' \in [Channel -> [Fd -> Conn \cup {NoConn}]]
        /\ \A h \in Channel : users'[h] = IF h = ch THEN us ELSE users[h]
    BY <1>1, <1>2, <2>1
  <2>4. \A h \in Channel, f \in Fd : users'[h][f] \notin fresh
    BY <1>2, <2>3 DEF IInv, Objects
  <2>5. channels' \subseteq Channel /\ topic' \in [Channel -> Topic \cup {NoTopic}]
    BY <1>1 DEF IInv, TypeOK
  <2> QED BY <2>2, <2>3, <2>4, <2>5
<1>6. Membership'
  <2> SUFFICES ASSUME NEW f \in Fd, clients'[f] # NoConn,
                      NEW h \in joined'[clients'[f]]
               PROVE  h \in channels' /\ users'[h][f] # NoConn
    BY DEF Membership
  <2>1. clients'[f] = clients[f] /\ clients[f] \in Conn
    BY <1>1 DEF socks, IInv, TypeOK
  <2>2. CASE clients[f] = me /\ h = ch
    BY <2>2, <1>0, <1>1, <1>2, <1>5
  <2>3. CASE h \in joined[clients[f]]
    <3>1. h \in channels /\ users[h][f] # NoConn /\ h \in Channel
      BY <2>1, <2>3 DEF IInv, TypeOK, Membership
    <3> QED BY <3>1, <1>1, <1>2, <1>5
  <2> QED BY <2>1, <2>2, <2>3, <1>5
<1> QED BY <1>0, <1>1, <1>3, <1>4, <1>5, <1>6, RoomStep

LEMMA PartStep ==
  ASSUME IInv, NEW ch \in Channel, Part(ch)
  PROVE  IInv'
<1> DEFINE o == users[ch][serving]
<1>0. /\ serving \in Fd /\ serving # NoFd /\ me \in Live /\ me \in Conn
      /\ "WELCOME" \in status[me]
      /\ \A f \in Fd : clients[f] = me => f = serving
  BY Caller DEF Part, unreg_allow
<1>1. /\ joined' = [joined EXCEPT ![me] = @ \ {ch}]
      /\ users' = [users EXCEPT ![ch][serving] = NoConn]
      /\ Deref({o})
      /\ UNCHANGED <<channels, topic, account, socks>>
      /\ ch \in joined[me]
      /\ \E n \in (IF o \in Live THEN {nickname[o]} ELSE AllNick) :
            out' = Broadcast(users[ch], Fd, "PART", n)
  BY DEF Part
<1>2. o \in Conn /\ o \notin fresh
  BY <1>0, <1>1 DEF IInv, TypeOK, Membership, Objects, me, Live
<1>3. out' \subseteq Msg
  <2>1. PICK n \in (IF o \in Live THEN {nickname[o]} ELSE AllNick) :
          out' = Broadcast(users[ch], Fd, "PART", n)
    BY <1>1
  <2>2. n \in AllNick
    BY <2>1, <1>2 DEF IInv, TypeOK, AllNick
  <2> QED BY <2>1, <2>2, BroadcastType DEF IInv, CMD, Relayed
<1>4. up' \in BOOLEAN
  BY <1>1 DEF Deref
<1>5. /\ joined' \in [Conn -> SUBSET Channel]
      /\ users' \in [Channel -> [Fd -> Conn \cup {NoConn}]]
      /\ channels' \subseteq Channel
      /\ topic' \in [Channel -> Topic \cup {NoTopic}]
      /\ \A h \in Channel, f \in Fd :
            users'[h][f] = IF h = ch /\ f = serving THEN NoConn ELSE users[h][f]
      /\ \A c \in Conn : joined'[c] = IF c = me THEN joined[c] \ {ch} ELSE joined[c]
  BY <1>0, <1>1 DEF IInv, TypeOK
<1>6. Membership'
  <2> SUFFICES ASSUME NEW f \in Fd, clients'[f] # NoConn,
                      NEW h \in joined'[clients'[f]]
               PROVE  h \in channels' /\ users'[h][f] # NoConn
    BY DEF Membership
  <2>1. clients'[f] = clients[f] /\ clients[f] \in Conn
    BY <1>1 DEF socks, IInv, TypeOK
  <2>2. h \in joined[clients[f]] /\ h \in Channel /\ ~ (h = ch /\ f = serving)
    BY <2>1, <1>0, <1>5 DEF IInv, TypeOK, me
  <2> QED BY <2>1, <2>2, <1>1, <1>5 DEF IInv, Membership
<1>7. \A h \in Channel, f \in Fd : users'[h][f] \notin fresh
  BY <1>5, MircdAssumption DEF IInv, TypeOK, Objects
<1> QED BY <1>0, <1>1, <1>3, <1>4, <1>5, <1>6, <1>7, RoomStep

LEMMA TopicSetStep ==
  ASSUME IInv, NEW ch \in Channel, NEW t \in Topic \cup {NoTopic}, TopicSet(ch, t)
  PROVE  IInv'
<1>0. /\ serving \in Fd /\ me \in Live /\ me \in Conn /\ up
      /\ nickname[me] \in AllNick /\ "WELCOME" \in status[me]
  BY Caller DEF TopicSet, unreg_allow
<1>1. /\ topic' = [topic EXCEPT ![ch] = t]
      /\ out' = Broadcast(users[ch], Fd, "TOPIC", nickname[me])
      /\ UNCHANGED <<joined, channels, users, account, socks, up>>
  BY DEF TopicSet
<1>2. out' \subseteq Msg
  BY <1>0, <1>1, BroadcastType DEF IInv, CMD, Relayed
<1>3. Membership'
  BY <1>1 DEF IInv, Membership, socks
<1> QED BY <1>0, <1>1, <1>2, <1>3, RoomStep DEF IInv, TypeOK, Objects

LEMMA NamesStep ==
  ASSUME IInv, NEW ch \in Channel, Names(ch)
  PROVE  IInv'
<1>0. /\ serving \in Fd /\ serving # NoFd /\ me \in Live /\ me \in Conn
      /\ nickname[me] \in AllNick /\ "WELCOME" \in status[me]
  BY Caller DEF Names, unreg_allow
<1>1. /\ channels' = channels \cup {ch}
      /\ out' = NamesReply(users[ch])
      /\ Deref(Refs(users[ch]))
      /\ UNCHANGED <<joined, topic, users, account, socks>>
  BY DEF Names, GetChannel
<1>2. out' \subseteq Msg
  BY <1>0, <1>1, NamesReplyType DEF IInv
<1>3. up' \in BOOLEAN
  BY <1>1 DEF Deref
<1>4. Membership'
  BY <1>1 DEF IInv, Membership, socks
<1> QED BY <1>0, <1>1, <1>2, <1>3, <1>4, RoomStep DEF IInv, TypeOK, Objects

LEMMA NamesAllStep ==
  ASSUME IInv, NamesAll
  PROVE  IInv'
<1>0. serving # NoFd /\ nickname[me] \in AllNick
  BY Caller DEF NamesAll
<1>1. out' \subseteq Msg
  <2>1. \A ch \in channels : NamesReply(users[ch]) \subseteq Msg
    BY <1>0, NamesReplyType DEF IInv
  <2> QED BY <2>1 DEF NamesAll
<1> QED BY <1>1, OnlySends DEF NamesAll, Deref

(* The answers of the commands that change nothing.                         *)
LEMMA QueryStep ==
  ASSUME IInv,
         \/ \E ch \in Channel : TopicGet(ch)
         \/ List(Channel)
         \/ \E ch \in AllChan : Privmsg(ch) \/ List({ch})
         \/ Ping
         \/ Users
  PROVE  IInv'
<1> USE DEF CMD, RPL, Relayed, cmds, parm_min
<1>1. ASSUME NEW ch \in Channel, TopicGet(ch)
      PROVE  IInv'
  <2>1. serving # NoFd /\ nickname[me] \in AllNick
    BY <1>1, Caller DEF TopicGet
  <2>2. out' \subseteq Msg
    BY <1>1, <2>1, ReplyType DEF TopicGet, TopicReply, IInv
  <2> QED
    BY <1>1, <2>2, OnlySends
       DEF TopicGet, Calling, InBuffer, IInv, TypeOK
<1>2. ASSUME NEW chs, List(chs)
      PROVE  IInv'
  <2>1. serving # NoFd /\ nickname[me] \in AllNick
    BY <1>2, Caller DEF List, Answer
  <2>2. /\ Reply("LISTSTART", nickname[me]) \subseteq Msg
        /\ Reply("LISTEND", nickname[me]) \subseteq Msg
        /\ Reply("LIST", nickname[me]) \subseteq Msg
    BY <2>1, ReplyType DEF IInv
  <2> QED BY <1>2, <2>2, AnswerStep DEF List
<1>3. ASSUME NEW ch \in AllChan, Privmsg(ch)
      PROVE  IInv'
  <2>1. CASE Calling("PRIVMSG") /\ Throw("NOSUCHNICK")
    BY <2>1, ThrowStep DEF Calling, ERR
  <2>2. CASE Answer("PRIVMSG",
               Broadcast(users[ch], Fd \ {serving}, "PRIVMSG", nickname[me]))
    <3>1. nickname[me] \in AllNick
      BY <2>2, Caller DEF Answer
    <3>2. Broadcast(users[ch], Fd \ {serving}, "PRIVMSG", nickname[me]) \subseteq Msg
      BY <3>1, BroadcastType DEF IInv
    <3> QED BY <2>2, <3>2, AnswerStep
  <2> QED BY <1>3, <2>1, <2>2 DEF Privmsg
<1>4. CASE Ping
  <2>1. serving # NoFd
    BY <1>4, Caller DEF Ping, Answer
  <2>2. Reply("PONG", NoNick) \subseteq Msg
    BY <2>1, ReplyType DEF IInv, AllNick
  <2> QED BY <1>4, <2>2, AnswerStep DEF Ping
<1>5. CASE Users
  <2>1. serving # NoFd
    BY <1>5, Caller DEF Users, Answer
  <2>2. Reply("USERSSTART", NoNick) \cup Reply("USERS", NoNick) \subseteq Msg
    BY <2>1, ReplyType DEF IInv, AllNick
  <2>3. CASE up' = FALSE /\ out' = {} /\ UNCHANGED <<account, rooms, socks>>
    BY <2>3, OnlySends
  <2> QED BY <1>5, <2>2, <2>3, AnswerStep DEF Users
<1> QED BY <1>1, <1>2, <1>3, <1>4, <1>5

LEMMA CommandStep ==
  ASSUME IInv, Command
  PROVE  IInv'
<1>1. CASE \E n \in AllNick : Nick(n)
  BY <1>1, NickStep
<1>2. CASE User
  BY <1>2, UserStep
<1>3. CASE Quit
  BY <1>3, Caller, DisconnectStep DEF Quit, Calling, me
<1>4. CASE \E ch \in Channel :
             \/ Join(ch) \/ Part(ch) \/ Names(ch)
             \/ \E t \in Topic \cup {NoTopic} : TopicSet(ch, t)
  BY <1>4, JoinStep, PartStep, NamesStep, TopicSetStep
<1>5. CASE NamesAll
  BY <1>5, NamesAllStep
<1>6. CASE \/ \E ch \in Channel : TopicGet(ch)
           \/ List(Channel)
           \/ \E ch \in AllChan : Privmsg(ch) \/ List({ch})
           \/ Ping
           \/ Users
  BY <1>6, QueryStep
<1> QED BY <1>1, <1>2, <1>3, <1>4, <1>5, <1>6 DEF Command

(* IInv is an inductive invariant.                                          *)
LEMMA NextIInv == IInv /\ [Next]_vars => IInv'
<1> SUFFICES ASSUME IInv, [Next]_vars PROVE IInv'
  OBVIOUS
<1>1. CASE Next
  BY <1>1, ConnectionStep, RefusalStep, CommandStep DEF Next
<1>2. CASE UNCHANGED vars
  BY <1>2, OnlySends
     DEF vars, account, rooms, socks, IInv, TypeOK
<1> QED BY <1>1, <1>2

(* The invariant from which the theorems below follow.                      *)
THEOREM Invariance == Spec => []IInv
BY InitIInv, NextIInv, PTL DEF Spec

(* Type correctness: among others, no client ever bears a name that         *)
(* changeNick refuses, and no channel has a name its constructor throws at. *)
THEOREM TypeCorrect == Spec => []TypeOK
BY Invariance, PTL DEF IInv

(* Controller::part never looks up a user that Channel::users lacks.        *)
THEOREM MembershipHolds == Spec => []Membership
BY Invariance, PTL DEF IInv

(* Registration: welcomed exactly when NICK and USER are both known.        *)
THEOREM RegistrationHolds == Spec => []RegistrationComplete
BY Invariance, PTL DEF IInv

(* Controller::nick and client_del keep no name reserved that nobody bears. *)
THEOREM NoLeakedNickHolds == Spec => []NoLeakedNick
BY Invariance, PTL DEF IInv

(* Controller::privmsg reaches every member but the sender.                 *)
THEOREM PrivmsgHolds == Spec => PrivmsgReachesMembers
<1>1. ASSUME IInv, NEW ch \in Channel, Privmsg(ch)
      PROVE  /\ {c \in Live : ch \in joined[c]} \ {me} \subseteq Reached
             /\ me \notin Reached
  <2>1. CASE ch \notin channels /\ Throw("NOSUCHNICK")
    <3>1. Reached = {}
      BY <2>1 DEF Reached, Throw, Reply, ToFd
    <3>2. {c \in Live : ch \in joined[c]} = {}
      BY <1>1, <2>1 DEF IInv, Membership, Live
    <3> QED BY <3>1, <3>2
  <2>2. CASE ch \in channels /\ Calling("PRIVMSG")
             /\ out' = Broadcast(users[ch], Fd \ {serving}, "PRIVMSG", nickname[me])
    <3>0. serving \in Fd /\ \A f \in Fd : clients[f] = me => f = serving
      BY <1>1, <2>2, Caller
    <3>1. ASSUME NEW c \in Live, ch \in joined[c], c # me
          PROVE  c \in Reached
      <4>1. PICK f \in Fd : clients[f] = c /\ c # NoConn
        BY DEF Live
      <4>2. f # serving /\ users[ch][f] # NoConn
        BY <1>1, <3>1, <4>1 DEF me, IInv, Membership
      <4> DEFINE m == [to |-> c, cmd |-> "PRIVMSG", nick |-> nickname[me]]
      <4>3. m \in ToFd(f, "PRIVMSG", nickname[me])
        BY <4>1 DEF ToFd
      <4>4. m \in out'
        BY <2>2, <4>2, <4>3 DEF Broadcast
      <4> QED BY <4>4 DEF Reached
    <3>2. ASSUME NEW m \in out'
          PROVE  m.to # me
      <4>1. PICK f \in Fd \ {serving} : m \in ToFd(f, "PRIVMSG", nickname[me])
        BY <2>2, <3>2 DEF Broadcast
      <4>2. m.to = clients[f]
        BY <4>1 DEF ToFd
      <4> QED BY <3>0, <4>1, <4>2
    <3> QED BY <3>1, <3>2 DEF Reached
  <2> QED BY <1>1, <2>1, <2>2 DEF Privmsg, Answer
<1>2. IInv => [\A ch \in Channel : Privmsg(ch) =>
                  /\ {c \in Live : ch \in joined[c]} \ {me} \subseteq Reached
                  /\ me \notin Reached]_vars
  BY <1>1
<1> QED BY <1>2, Invariance, PTL DEF PrivmsgReachesMembers, Spec

(* What is sent is no welcome, except by NICK and USER.                     *)
Silent(S) == \A m \in S : m.cmd # "WELCOME"

LEMMA SilentSends ==
  ASSUME NEW cmd, cmd # "WELCOME", NEW nick
  PROVE  Silent(Reply(cmd, nick)) /\ \A us, fds : Silent(Broadcast(us, fds, cmd, nick))
<1>1. \A f : Silent(ToFd(f, cmd, nick))
  BY DEF Silent, ToFd
<1>2. \A us, fds : Silent(Broadcast(us, fds, cmd, nick))
  BY <1>1 DEF Silent, Broadcast
<1> QED BY <1>1, <1>2 DEF Reply

LEMMA SilentNames == \A us : Silent(NamesReply(us))
<1> SUFFICES ASSUME NEW us PROVE Silent(NamesReply(us))
  OBVIOUS
<1>1. Silent(Reply("ENDOFNAMES", nickname[me])) /\ Silent(Reply("NAMREPLY", nickname[me]))
  BY SilentSends
<1> QED BY <1>1 DEF NamesReply, Silent

LEMMA SilentThrow ==
  ASSUME NEW err \in ERR, Throw(err)
  PROVE  Silent(out') /\ UNCHANGED status
<1>1. err # "WELCOME"
  BY DEF ERR
<1> QED BY <1>1, SilentSends DEF Throw, account

LEMMA SilentDisconnect ==
  ASSUME IInv, NEW f \in Fd, clients[f] # NoConn, Disconnect(f)
  PROVE  Silent(out') /\ \A c \in Live : status'[c] = status[c] \/ c \notin Live'
<1>1. Silent(out') /\ clients' = [clients EXCEPT ![f] = NoConn]
      /\ status' = [status EXCEPT ![clients[f]] = {}]
  BY DEF Silent, Disconnect
<1>2. clients[f] \notin Live'
  BY <1>1 DEF Live, IInv, TypeOK, Objects
<1>3. \A c \in Live : c # clients[f] => status'[c] = status[c]
  BY <1>1, LiveType DEF IInv, TypeOK
<1> QED BY <1>1, <1>2, <1>3

LEMMA SilentRefusal ==
  ASSUME Refusal
  PROVE  Silent(out') /\ UNCHANGED status
<1> USE SilentThrow DEF ERR
<1>1. CASE UnknownCommand
  BY <1>1 DEF UnknownCommand
<1>2. CASE CallWithoutClient
  BY <1>2 DEF CallWithoutClient, Silent, account
<1>3. ASSUME NEW cmd \in cmds, NotRegistered(cmd) \/ NeedMoreParams(cmd)
      PROVE  Silent(out') /\ UNCHANGED status
  BY <1>3 DEF NotRegistered, NeedMoreParams
<1>4. ASSUME NEW n \in AllNick, NickInUse(n)
      PROVE  Silent(out') /\ UNCHANGED status
  BY <1>4 DEF NickInUse
<1>5. ASSUME NEW cmd \in {"JOIN", "NAMES"}, NEW ch \in BadChannel, BadName(cmd, ch)
      PROVE  Silent(out') /\ UNCHANGED status
  BY <1>5 DEF BadName
<1>6. ASSUME NEW cmd \in {"PART", "TOPIC"}, NEW ch \in AllChan,
             NoChannel(cmd, ch) \/ NotOnChannel(cmd, ch)
      PROVE  Silent(out') /\ UNCHANGED status
  BY <1>6 DEF NoChannel, NotOnChannel
<1>7. CASE Calling("NICK") /\ Throw("NONICKNAMEGIVEN")
  BY <1>7
<1>8. ASSUME NEW err \in {"NORECIPIENT", "NOTEXTTOSEND"}, PrivmsgIncomplete(err)
      PROVE  Silent(out') /\ UNCHANGED status
  BY <1>8 DEF PrivmsgIncomplete
<1>9. CASE PingNoOrigin
  BY <1>9 DEF PingNoOrigin
<1> QED
  BY <1>1, <1>2, <1>3, <1>4, <1>5, <1>6, <1>7, <1>8, <1>9 DEF Refusal

LEMMA SilentRooms ==
  ASSUME \/ \E ch \in Channel :
              \/ Join(ch) \/ Part(ch) \/ TopicGet(ch) \/ Names(ch)
              \/ \E t \in Topic \cup {NoTopic} : TopicSet(ch, t)
         \/ NamesAll
  PROVE  Silent(out') /\ UNCHANGED status
<1> USE SilentSends, SilentNames DEF account
<1>1. ASSUME NEW ch \in Channel, Join(ch)
      PROVE  Silent(out') /\ UNCHANGED status
  <2> DEFINE us == Added(users[ch], serving, me)
  <2>1. /\ Silent(Broadcast(us, Fd, "JOIN", nickname[me]))
        /\ Silent(Reply(TopicReply(ch), ch)) /\ Silent(NamesReply(us))
    BY DEF TopicReply
  <2> QED BY <1>1, <2>1 DEF Join, Silent
<1>2. ASSUME NEW ch \in Channel, Part(ch)
      PROVE  Silent(out') /\ UNCHANGED status
  BY <1>2 DEF Part
<1>3. ASSUME NEW ch \in Channel, TopicGet(ch)
      PROVE  Silent(out') /\ UNCHANGED status
  BY <1>3 DEF TopicGet, TopicReply
<1>4. ASSUME NEW ch \in Channel, Names(ch)
      PROVE  Silent(out') /\ UNCHANGED status
  BY <1>4 DEF Names
<1>5. ASSUME NEW ch \in Channel, NEW t, TopicSet(ch, t)
      PROVE  Silent(out') /\ UNCHANGED status
  BY <1>5 DEF TopicSet
<1>6. CASE NamesAll
  BY <1>6 DEF NamesAll, Silent
<1> QED BY <1>1, <1>2, <1>3, <1>4, <1>5, <1>6

LEMMA SilentQueries ==
  ASSUME \/ List(Channel)
         \/ \E ch \in AllChan : Privmsg(ch) \/ List({ch})
         \/ Ping
         \/ Users
  PROVE  Silent(out') /\ UNCHANGED status
<1> USE SilentSends DEF account, Answer
<1>1. ASSUME NEW chs, List(chs)
      PROVE  Silent(out') /\ UNCHANGED status
  BY <1>1 DEF List, Silent
<1>2. ASSUME NEW ch \in AllChan, Privmsg(ch)
      PROVE  Silent(out') /\ UNCHANGED status
  BY <1>2 DEF Privmsg, Throw
<1>3. CASE Ping \/ Users
  BY <1>3 DEF Ping, Users, Silent
<1> QED BY <1>1, <1>2, <1>3

(* What the welcome of a client follows from.                               *)
LEMMA WelcomeSent ==
  ASSUME TypeOK, serving \in Fd, NEW st, NEW nick, NEW m \in Welcome(st, nick)
  PROVE  m.to = me /\ "WELCOME" \notin st /\ {"NICK", "USER"} \subseteq Regist(st)
BY DEF Welcome, Regist, Reply, ToFd, me

(* Client::regist welcomes a client when it has both NICK and USER, and then *)
(* never again.                                                             *)
THEOREM WelcomeHolds == Spec => WelcomeOnce
<1> DEFINE Good(c) ==
      /\ "WELCOME" \in status[c] =>
           /\ \A m \in out' : m.to = c => m.cmd # "WELCOME"
           /\ "WELCOME" \in status'[c] \/ c \notin Live'
      /\ (\E m \in out' : m.to = c /\ m.cmd = "WELCOME") =>
           {"NICK", "USER"} \subseteq status'[c]
<1>1. ASSUME NEW c \in Live, Silent(out'), status'[c] = status[c] \/ c \notin Live'
      PROVE  Good(c)
  BY <1>1 DEF Silent
<1>2. ASSUME IInv, User, NEW c \in Live
      PROVE  Good(c)
  <2>0. serving \in Fd /\ me \in Conn /\ c \in Conn
    BY <1>2, NickType, LiveType DEF User, IInv
  <2>1. CASE Throw("ALREADYREGISTRED")
    BY <1>1, <2>1, SilentThrow DEF ERR
  <2>2. CASE ~ Throw("ALREADYREGISTRED")
    <3> DEFINE st == status[me] \cup {"USER"}
    <3>1. /\ "WELCOME" \notin status[me]
          /\ status' = [status EXCEPT ![me] = Regist(st)] /\ out' = Welcome(st, nickname[me])
      BY <1>2, <2>2 DEF User
    <3>2. \A d \in Conn : status'[d] = IF d = me THEN Regist(st) ELSE status[d]
      BY <1>2, <2>0, <3>1 DEF IInv, TypeOK
    <3>3. \A m \in out' : m.to = me /\ {"NICK", "USER"} \subseteq Regist(st)
      BY <1>2, <2>0, <3>1, WelcomeSent DEF IInv
    <3> QED BY <2>0, <3>1, <3>2, <3>3
  <2> QED BY <2>1, <2>2
<1>3. ASSUME IInv, NEW n \in AllNick, Nick(n), NEW c \in Live
      PROVE  Good(c)
  <2>0. serving \in Fd /\ me \in Conn /\ c \in Conn
    BY <1>3, NickType, LiveType DEF Nick, IInv
  <2>1. CASE n \notin GoodNick
    <3>1. Silent(out') /\ UNCHANGED status
      BY <1>3, <2>1, SilentSends DEF Nick, ChangeNick
    <3> QED BY <1>1, <3>1
  <2>2. CASE n \in GoodNick
    <3> DEFINE st == status[me] \cup {"NICK"}
               old == IF "NICK" \in status[me] THEN Reply("NICK", nickname[me]) ELSE {}
    <3>1. /\ status' = [status EXCEPT ![me] = Regist(st)] /\ out' = Welcome(st, n) \cup old
      BY <1>3, <2>2 DEF Nick, ChangeNick
    <3>2. \A d \in Conn : status'[d] = IF d = me THEN Regist(st) ELSE status[d]
      BY <1>3, <2>0, <3>1 DEF IInv, TypeOK
    <3>3. \A m \in Welcome(st, n) :
            m.to = me /\ "WELCOME" \notin status[me] /\ {"NICK", "USER"} \subseteq Regist(st)
      BY <1>3, <2>0, WelcomeSent DEF IInv
    <3>4. Silent(old)
      BY SilentSends DEF Silent
    <3>5. \A m \in out' : m.cmd = "WELCOME" => m \in Welcome(st, n)
      BY <3>1, <3>4 DEF Silent
    <3>6. "WELCOME" \in status[me] => "WELCOME" \in Regist(st)
      BY DEF Regist
    <3> HIDE DEF st, old
    <3> QED BY <2>0, <3>2, <3>3, <3>5, <3>6
  <2> QED BY <2>1, <2>2
<1>4. ASSUME IInv, NEW f \in Fd, clients[f] # NoConn, Disconnect(f), NEW c \in Live
      PROVE  Good(c)
  BY <1>1, <1>4, SilentDisconnect
<1>5. ASSUME IInv, Next, NEW c \in Live
      PROVE  Good(c)
  <2> HIDE DEF Good
  <2>1. CASE Connection
    <3>1. CASE \E f \in Fd : ReadEof(f)
      BY <1>4, <1>5, <3>1 DEF ReadEof
    <3>2. CASE (\E d \in Conn, f \in Fd : Accept(d, f)) \/ (\E f \in Fd : ReadInput(f)) \/ EndOfBuffer
      <4>1. Silent(out') /\ UNCHANGED status
        BY <3>2 DEF Accept, ReadInput, EndOfBuffer, account, Silent
      <4> QED BY <1>1, <4>1
    <3> QED BY <2>1, <3>1, <3>2 DEF Connection
  <2>2. CASE Refusal
    BY <1>1, <2>2, SilentRefusal
  <2>3. CASE (\E n \in AllNick : Nick(n)) \/ User
    BY <1>2, <1>3, <1>5, <2>3
  <2>4. CASE Quit
    <3>1. serving \in Fd /\ clients[serving] # NoConn /\ Disconnect(serving)
      BY <1>5, <2>4, Caller DEF Quit, Calling, me
    <3> QED BY <1>4, <1>5, <3>1
  <2>5. CASE \/ \E ch \in Channel :
                  \/ Join(ch) \/ Part(ch) \/ TopicGet(ch) \/ Names(ch)
                  \/ \E t \in Topic \cup {NoTopic} : TopicSet(ch, t)
             \/ NamesAll
    BY <1>1, <2>5, SilentRooms
  <2>6. CASE \/ List(Channel)
             \/ \E ch \in AllChan : Privmsg(ch) \/ List({ch})
             \/ Ping
             \/ Users
    BY <1>1, <2>6, SilentQueries
  <2> QED BY <1>5, <2>1, <2>2, <2>3, <2>4, <2>5, <2>6 DEF Next, Command
<1>6. IInv /\ [Next]_vars => [\A c \in Live : Good(c)]_vars
  BY <1>5
<1> QED BY <1>6, Invariance, PTL DEF WelcomeOnce, Spec

-----------------------------------------------------------------------------
(* An entry of Channel::users either is stale or is the client on that      *)
(* descriptor, who is in the channel: the converse of Membership.           *)
UsersInChannel ==
  \A ch \in Channel, f \in Fd : users[ch][f] \in Live =>
    users[ch][f] = clients[f] /\ ch \in joined[users[ch][f]]

(* What StaleOnlyByLeaving says of one step.                                *)
StaleByLeaving ==
  \A ch \in Channel, f \in Fd :
    LET c == users'[ch][f] IN
    c # NoConn /\ c \notin Live' =>
      c = users[ch][f] /\ (c \in Live => ch \in joined[c])

(* A command that touches neither the channels' users nor the connections.  *)
LEMMA EntriesKept ==
  ASSUME UsersInChannel, UNCHANGED <<users, joined, clients>>
  PROVE  UsersInChannel' /\ StaleByLeaving
<1>1. Live' = Live
  BY DEF Live
<1> QED BY <1>1 DEF UsersInChannel, StaleByLeaving

LEMMA AcceptEntries ==
  ASSUME IInv, UsersInChannel, NEW c \in Conn, NEW f \in Fd, Accept(c, f)
  PROVE  UsersInChannel' /\ StaleByLeaving
<1>1. /\ clients[f] = NoConn /\ c \in fresh
      /\ users' = users /\ joined' = joined /\ clients' = [clients EXCEPT ![f] = c]
  BY DEF Accept, account, rooms
<1>2. \A g \in Fd : clients'[g] = IF g = f THEN c ELSE clients[g]
  BY <1>1 DEF IInv, TypeOK
<1>3. Live' = Live \cup {c} /\ NoConn \notin Live
  BY <1>1, <1>2, MircdAssumption DEF Live, IInv, TypeOK
<1>4. \A ch \in Channel, g \in Fd : users[ch][g] # c
  BY <1>1 DEF IInv, Objects
<1>5. UsersInChannel'
  BY <1>1, <1>2, <1>3, <1>4 DEF UsersInChannel
<1>6. StaleByLeaving
  BY <1>1, <1>3 DEF StaleByLeaving
<1> QED BY <1>5, <1>6

(* The references to the client that client_del frees become stale, in the  *)
(* channels that it is in.                                                  *)
LEMMA DisconnectEntries ==
  ASSUME IInv, UsersInChannel, NEW f \in Fd, clients[f] # NoConn, Disconnect(f)
  PROVE  UsersInChannel' /\ StaleByLeaving
<1> DEFINE c == clients[f]
<1>1. /\ users' = users /\ clients' = [clients EXCEPT ![f] = NoConn]
      /\ joined' = [joined EXCEPT ![c] = {}]
  BY DEF Disconnect
<1>2. Live' = Live \ {c} /\ c \in Conn
  BY <1>1 DEF Live, IInv, TypeOK, Objects
<1>3. \A d \in Conn : d # c => joined'[d] = joined[d]
  BY <1>1 DEF IInv, TypeOK
<1>4. \A g \in Fd : clients[g] # c => clients'[g] = clients[g]
  BY <1>1 DEF IInv, TypeOK
<1>5. UsersInChannel'
  BY <1>1, <1>2, <1>3, <1>4, LiveType DEF UsersInChannel, IInv
<1>6. StaleByLeaving
  BY <1>1, <1>2 DEF StaleByLeaving, UsersInChannel
<1> QED BY <1>5, <1>6

LEMMA JoinEntries ==
  ASSUME IInv, UsersInChannel, NEW ch \in Channel, Join(ch)
  PROVE  UsersInChannel' /\ StaleByLeaving
<1>1. serving \in Fd /\ me \in Conn /\ me = clients[serving] /\ me \in Live
  BY Caller DEF Join, me
<1>2. /\ joined' = [joined EXCEPT ![me] = @ \cup {ch}]
      /\ users' = [users EXCEPT ![ch] = Added(users[ch], serving, me)]
      /\ clients' = clients
  BY DEF Join, socks
<1>3. /\ \A c \in Conn : joined[c] \subseteq joined'[c]
      /\ ch \in joined'[me]
      /\ \A h \in Channel, f \in Fd :
           users'[h][f] = users[h][f] \/ (h = ch /\ f = serving /\ users'[h][f] = me)
  BY <1>1, <1>2 DEF Added, IInv, TypeOK
<1>4. Live' = Live /\ Live \subseteq Conn
  BY <1>2, LiveType DEF Live, IInv
<1>5. UsersInChannel'
  <2> SUFFICES ASSUME NEW h \in Channel, NEW f \in Fd, users'[h][f] \in Live
               PROVE  users'[h][f] = clients[f] /\ h \in joined'[users'[h][f]]
    BY <1>2, <1>4 DEF UsersInChannel
  <2>1. CASE users'[h][f] = users[h][f]
    BY <1>3, <1>4, <2>1 DEF UsersInChannel
  <2>2. CASE h = ch /\ f = serving /\ users'[h][f] = me
    BY <1>1, <1>3, <2>2
  <2> QED BY <1>3, <2>1, <2>2
<1>6. StaleByLeaving
  BY <1>1, <1>3, <1>4 DEF StaleByLeaving, UsersInChannel
<1> QED BY <1>5, <1>6

(* PART takes the entry of the client that leaves the channel with it.      *)
LEMMA PartEntries ==
  ASSUME IInv, UsersInChannel, NEW ch \in Channel, Part(ch)
  PROVE  UsersInChannel' /\ StaleByLeaving
<1>1. /\ serving \in Fd /\ me \in Conn /\ me = clients[serving]
      /\ \A f \in Fd : clients[f] = me => f = serving
  BY Caller DEF Part, me
<1>2. /\ joined' = [joined EXCEPT ![me] = @ \ {ch}]
      /\ users' = [users EXCEPT ![ch][serving] = NoConn]
      /\ clients' = clients
  BY DEF Part, socks
<1>3. /\ \A c \in Conn : joined'[c] = IF c = me THEN joined[c] \ {ch} ELSE joined[c]
      /\ \A h \in Channel, f \in Fd :
           users'[h][f] = IF h = ch /\ f = serving THEN NoConn ELSE users[h][f]
  BY <1>1, <1>2 DEF IInv, TypeOK
<1>4. Live' = Live /\ Live \subseteq Conn /\ NoConn \notin Live
  BY <1>2, LiveType DEF Live, IInv
<1>5. UsersInChannel'
  <2> SUFFICES ASSUME NEW h \in Channel, NEW f \in Fd, users'[h][f] \in Live
               PROVE  users'[h][f] = clients[f] /\ h \in joined'[users'[h][f]]
    BY <1>2, <1>4 DEF UsersInChannel
  <2>1. users'[h][f] = users[h][f] /\ ~ (h = ch /\ f = serving)
    BY <1>3, <1>4
  <2>2. users[h][f] = clients[f] /\ h \in joined[users[h][f]]
    BY <2>1 DEF UsersInChannel
  <2> QED BY <1>1, <1>3, <1>4, <2>1, <2>2
<1>6. StaleByLeaving
  BY <1>3, <1>4 DEF StaleByLeaving, UsersInChannel
<1> QED BY <1>5, <1>6

LEMMA RefusalEntries ==
  ASSUME UsersInChannel, Refusal
  PROVE  UsersInChannel' /\ StaleByLeaving
<1>1. \A err : Throw(err) => UNCHANGED <<users, joined, clients>>
  BY DEF Throw, account, rooms, socks
<1>2. UNCHANGED <<users, joined, clients>>
  BY <1>1 DEF Refusal, UnknownCommand, CallWithoutClient, NotRegistered, NeedMoreParams,
              NickInUse, BadName, NoChannel, NotOnChannel, PrivmsgIncomplete, PingNoOrigin,
              account, rooms, socks
<1> QED BY <1>2, EntriesKept

LEMMA CommandEntries ==
  ASSUME IInv, UsersInChannel, Command
  PROVE  UsersInChannel' /\ StaleByLeaving
<1>1. CASE (\E n \in AllNick : Nick(n)) \/ User
  <2>1. UNCHANGED <<users, joined, clients>>
    BY <1>1 DEF Nick, User, Throw, rooms, socks
  <2> QED BY <2>1, EntriesKept
<1>2. CASE Quit
  <2>1. serving \in Fd /\ clients[serving] # NoConn /\ Disconnect(serving)
    BY <1>2, Caller DEF Quit, Calling, me
  <2> QED BY <2>1, DisconnectEntries
<1>3. ASSUME NEW ch \in Channel, Join(ch) \/ Part(ch)
      PROVE  UsersInChannel' /\ StaleByLeaving
  BY <1>3, JoinEntries, PartEntries
<1>4. ASSUME NEW ch \in Channel,
             TopicGet(ch) \/ Names(ch) \/ \E t \in Topic \cup {NoTopic} : TopicSet(ch, t)
      PROVE  UsersInChannel' /\ StaleByLeaving
  <2>1. UNCHANGED <<users, joined, clients>>
    BY <1>4 DEF TopicGet, Names, TopicSet, rooms, socks
  <2> QED BY <2>1, EntriesKept
<1>5. CASE NamesAll
  BY <1>5, EntriesKept DEF NamesAll, rooms, socks
<1>6. ASSUME NEW ch \in AllChan, Privmsg(ch)
      PROVE  UsersInChannel' /\ StaleByLeaving
  <2>1. UNCHANGED <<users, joined, clients>>
    BY <1>6 DEF Privmsg, Answer, Throw, rooms, socks
  <2> QED BY <2>1, EntriesKept
<1>7. CASE List(Channel) \/ (\E ch \in AllChan : List({ch})) \/ Ping \/ Users
  <2>1. UNCHANGED <<users, joined, clients>>
    BY <1>7 DEF List, Ping, Users, Answer, rooms, socks
  <2> QED BY <2>1, EntriesKept
<1> QED BY <1>1, <1>2, <1>3, <1>4, <1>5, <1>6, <1>7 DEF Command

LEMMA EntriesStep ==
  ASSUME IInv, UsersInChannel, [Next]_vars
  PROVE  UsersInChannel' /\ StaleByLeaving
<1>1. CASE \E c \in Conn, f \in Fd : Accept(c, f)
  BY <1>1, AcceptEntries
<1>2. CASE (\E f \in Fd : ReadInput(f)) \/ EndOfBuffer
  BY <1>2, EntriesKept DEF ReadInput, EndOfBuffer, rooms
<1>3. CASE \E f \in Fd : ReadEof(f)
  BY <1>3, DisconnectEntries DEF ReadEof
<1>4. CASE Refusal
  BY <1>4, RefusalEntries
<1>5. CASE Command
  BY <1>5, CommandEntries
<1>6. CASE UNCHANGED vars
  BY <1>6, EntriesKept DEF vars
<1> QED BY <1>1, <1>2, <1>3, <1>4, <1>5, <1>6 DEF Next, Connection

LEMMA UsersInChannelHolds == Spec => []UsersInChannel
<1>1. Init => UsersInChannel
  BY MircdAssumption DEF Init, UsersInChannel, Live
<1>2. IInv /\ UsersInChannel /\ [Next]_vars => UsersInChannel'
  BY EntriesStep
<1> QED BY <1>1, <1>2, Invariance, PTL DEF Spec

(* Only a client that disconnects from within a channel leaves a reference  *)
(* to freed memory behind in it (Controller::client_del).                   *)
THEOREM StaleOnlyByLeavingHolds == Spec => StaleOnlyByLeaving
<1>1. IInv /\ UsersInChannel /\ [Next]_vars =>
        [\A ch \in Channel, f \in Fd :
           LET c == users'[ch][f] IN
           c # NoConn /\ c \notin Live' =>
             c = users[ch][f] /\ (c \in Live => ch \in joined[c])]_vars
  BY EntriesStep DEF StaleByLeaving
<1> QED BY <1>1, Invariance, UsersInChannelHolds, PTL DEF StaleOnlyByLeaving, Spec

(* A PRIVMSG is delivered to those who are in the channel and to nobody     *)
(* else (the homework's README) until a client disconnects: what            *)
(* MCMircdPrivmsgOnlyToMembers shows takes the entry that client_del leaves.*)
PrivmsgExact ==
  [][fresh \cup Live = Conn =>
       \A ch \in channels : Privmsg(ch) =>
         Reached = {c \in Live : ch \in joined[c]} \ {me}]_vars

THEOREM PrivmsgExactHolds == Spec => PrivmsgExact
<1>1. ASSUME IInv, UsersInChannel, fresh \cup Live = Conn, NEW ch \in channels, Privmsg(ch)
      PROVE  Reached \subseteq {c \in Live : ch \in joined[c]}
  <2>1. out' = Broadcast(users[ch], Fd \ {serving}, "PRIVMSG", nickname[me])
    BY <1>1 DEF Privmsg, Answer
  <2>2. SUFFICES ASSUME NEW m \in out' PROVE m.to \in Live /\ ch \in joined[m.to]
    BY DEF Reached
  <2>3. PICK f \in Fd : users[ch][f] # NoConn /\ m \in ToFd(f, "PRIVMSG", nickname[me])
    BY <2>1, <2>2 DEF Broadcast
  <2>4. m.to = clients[f] /\ clients[f] # NoConn
    BY <2>3 DEF ToFd
  <2>5. users[ch][f] \in Live
    BY <1>1, <2>3 DEF IInv, TypeOK, Objects
  <2>6. ch \in joined[clients[f]]
    BY <1>1, <2>3, <2>5 DEF UsersInChannel, IInv, TypeOK
  <2> QED BY <2>4, <2>6 DEF Live
<1>2. IInv => channels \subseteq Channel
  BY DEF IInv, TypeOK
<1>3. IInv /\ UsersInChannel
      /\ [\A ch \in Channel : Privmsg(ch) =>
            /\ {c \in Live : ch \in joined[c]} \ {me} \subseteq Reached
            /\ me \notin Reached]_vars
      => [fresh \cup Live = Conn =>
            \A ch \in channels : Privmsg(ch) =>
              Reached = {c \in Live : ch \in joined[c]} \ {me}]_vars
  BY <1>1, <1>2
<1> QED BY <1>3, Invariance, UsersInChannelHolds, PrivmsgHolds, PTL
       DEF PrivmsgExact, PrivmsgReachesMembers, Spec
=============================================================================
