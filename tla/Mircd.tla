------------------------------- MODULE Mircd -------------------------------
(***************************************************************************)
(* mircd, the minimized IRC daemon of Homework/1: one epoll thread, the     *)
(* Controller that dispatches commands and the Database they share.         *)
(*                                                                          *)
(* A Conn is one Client object, made by accept and freed by client_del.     *)
(* An Fd is the descriptor the object is keyed by, which the kernel reuses. *)
(* The maps of the code hold references to Client objects, so an entry may  *)
(* outlive the object: reading it is then undefined behaviour (see Deref).  *)
(* One command line of a read buffer is one step; `serving' is the fd whose *)
(* buffer is being cut into lines, and any line may come next.              *)
(***************************************************************************)
EXTENDS Naturals

CONSTANTS Conn,        \* Client objects; each is accepted at most once (bound)
          NoConn,      \* the absent entry of a map that has Client& values
          Fd, NoFd,    \* descriptors that accept can return; none
          GoodNick,    \* nicknames that start with a letter
          BadNick,     \* nicknames that Client::changeNick throws at
          NoNick,      \* the empty std::string of a new Client
          Channel,     \* names that Channel's constructor takes
          BadChannel,  \* names it throws at
          Topic, NoTopic

ASSUME MircdAssumption ==
  /\ NoConn \notin Conn
  /\ Fd \subseteq Nat /\ NoFd \notin Fd
  /\ NoNick \notin GoodNick /\ GoodNick \cap BadNick = {}
  /\ Channel \cap BadChannel = {}
  /\ NoTopic \notin Topic

VARIABLES fresh,    \* Conns not yet accepted
          clients,  \* Database::clients: fd -> Client (also the fds that are open)
          status,   \* Client::status, a set of HAS bits
          nickname, \* Client::nickname
          joined,   \* Client::channels
          nick_mp,  \* Database::nick_mp: nickname -> Client&
          channels, \* keys of Database::channels
          topic,    \* Channel::topic
          users,    \* Channel::users: channel -> fd -> Client&
          serving,  \* the fd in Server::handle_client_input, or NoFd
          up,       \* FALSE once undefined behaviour has killed the process
          out       \* what the last step sent, one record per recipient

account == <<status, nickname, nick_mp>>
rooms   == <<joined, channels, topic, users>>
socks   == <<fresh, clients, serving>>
vars    == <<fresh, clients, status, nickname, joined, nick_mp, channels,
             topic, users, serving, up, out>>

AllNick == GoodNick \cup BadNick \cup {NoNick}
AllChan == Channel \cup BadChannel
Live    == {clients[f] : f \in Fd} \ {NoConn}
me      == clients[serving]

-----------------------------------------------------------------------------
(* What is sent. send() on a closed descriptor fails and is ignored.        *)

Relayed == {"NICK", "JOIN", "PART", "TOPIC", "PRIVMSG"}
RPL == {"WELCOME", "LISTSTART", "LIST", "LISTEND", "RPL_NOTOPIC", "RPL_TOPIC",
        "NAMREPLY", "ENDOFNAMES", "USERSSTART", "USERS"}
ERR == {"NOSUCHNICK", "NOSUCHCHANNEL", "NORECIPIENT", "NOTEXTTOSEND",
        "UNKNOWNCOMMAND", "NONICKNAMEGIVEN", "ERRONEUSNICKNAME", "NICKCOLLISION",
        "NOTONCHANNEL", "NOTREGISTERED", "NEEDMOREPARAMS", "ALREADYREGISTRED",
        "NOORIGIN"}
CMD == Relayed \cup RPL \cup ERR \cup {"PONG"}
Msg == [to : Conn, cmd : CMD, nick : AllNick \cup Channel]

ToFd(f, cmd, nick) ==
  {[to |-> c, cmd |-> cmd, nick |-> nick] : c \in {clients[f]} \ {NoConn}}

Reply(cmd, nick) == ToFd(serving, cmd, nick)

MutantBroadcast(us, fds, cmd, nick) ==   \* skips entries of freed objects
  UNION {ToFd(f, cmd, nick) : f \in {g \in fds : us[g] \in Live}}

Broadcast(us, fds, cmd, nick) ==
  UNION {ToFd(f, cmd, nick) : f \in {g \in fds : us[g] # NoConn}}

(* A throw of CMD_MSG, caught in handle_client_input: no nickname is given. *)
Throw(err) ==
  /\ out' = Reply(err, NoNick)
  /\ UNCHANGED <<account, rooms, socks, up>>

(* Reading through references: a freed Client may kill the process.         *)
Deref(objs) == up' = TRUE \/ (up' = FALSE /\ ~(objs \subseteq Live))

Refs(us) == {us[f] : f \in Fd} \ {NoConn}

-----------------------------------------------------------------------------
(* Connections.                                                             *)

Accept(c, f) ==
  /\ up /\ serving = NoFd
  /\ c \in fresh
  /\ clients[f] = NoConn
  /\ \A g \in Fd : clients[g] = NoConn => f <= g
  /\ fresh' = fresh \ {c}
  /\ clients' = [clients EXCEPT ![f] = c]
  /\ out' = {}
  /\ UNCHANGED <<account, rooms, serving, up>>

(* Server::disconnect and Controller::client_del. The object is freed; the  *)
(* references that Channel::users holds are left as they are.               *)
Disconnect(f) ==
  LET c == clients[f] IN
  /\ clients'  = [clients EXCEPT ![f] = NoConn]
  /\ nick_mp'  = [nick_mp EXCEPT ![nickname[c]] = NoConn]
  /\ status'   = [status EXCEPT ![c] = {}]
  /\ nickname' = [nickname EXCEPT ![c] = NoNick]
  /\ joined'   = [joined EXCEPT ![c] = {}]
  /\ out' = {}
  /\ UNCHANGED <<fresh, channels, topic, users, serving, up>>

ReadInput(f) ==
  /\ up /\ serving = NoFd /\ clients[f] # NoConn
  /\ serving' = f
  /\ out' = {}
  /\ UNCHANGED <<account, rooms, fresh, clients, up>>

ReadEof(f) ==
  /\ up /\ serving = NoFd /\ clients[f] # NoConn
  /\ Disconnect(f)

EndOfBuffer ==
  /\ up /\ serving # NoFd
  /\ serving' = NoFd
  /\ out' = {}
  /\ UNCHANGED <<account, rooms, fresh, clients, up>>

-----------------------------------------------------------------------------
(* Controller::call.                                                        *)

unreg_allow == {"NICK", "USER", "QUIT"}
parm_min == [NICK |-> 0, USER |-> 4, QUIT |-> 0, JOIN |-> 1, PART |-> 1,
             TOPIC |-> 1, NAMES |-> 0, LIST |-> 0, PRIVMSG |-> 0, PING |-> 0,
             USERS |-> 0]
cmds == DOMAIN parm_min

InBuffer == up /\ serving # NoFd

UnknownCommand == InBuffer /\ Throw("UNKNOWNCOMMAND")

(* A line after QUIT in the same buffer: getuser dereferences end().        *)
CallWithoutClient ==
  /\ InBuffer /\ me = NoConn
  /\ up' = FALSE
  /\ out' = {}
  /\ UNCHANGED <<account, rooms, socks>>

Calling(cmd) ==
  /\ InBuffer /\ me # NoConn
  /\ "WELCOME" \in status[me] \/ cmd \in unreg_allow

NotRegistered(cmd) ==
  /\ InBuffer /\ me # NoConn
  /\ "WELCOME" \notin status[me] /\ cmd \notin unreg_allow
  /\ Throw("NOTREGISTERED")

NeedMoreParams(cmd) ==
  Calling(cmd) /\ parm_min[cmd] > 0 /\ Throw("NEEDMOREPARAMS")

MutantRegist(st) ==   \* one of the two commands is enough
  IF {"NICK", "USER"} \cap st # {} THEN st \cup {"WELCOME"} ELSE st

(* Client::regist, which call() tries after every command that returns.     *)
Regist(st) == IF {"NICK", "USER"} \subseteq st THEN st \cup {"WELCOME"} ELSE st

MutantWelcome(st, nick) ==   \* forgets that the client was welcomed before
  IF "WELCOME" \in Regist(st) THEN Reply("WELCOME", nick) ELSE {}

Welcome(st, nick) ==
  IF "WELCOME" \in Regist(st) \ st THEN Reply("WELCOME", nick) ELSE {}

-----------------------------------------------------------------------------
(* NICK, USER, QUIT.                                                        *)

ChangeNick(n) ==
  \/ /\ n \notin GoodNick
     /\ out' = Reply("ERRONEUSNICKNAME", NoNick)
     /\ UNCHANGED <<status, nickname>>
  \/ /\ n \in GoodNick
     /\ LET st == status[me] \cup {"NICK"} IN
        /\ status' = [status EXCEPT ![me] = Regist(st)]
        /\ out' = Welcome(st, n) \cup
                  (IF "NICK" \in status[me] THEN Reply("NICK", nickname[me]) ELSE {})
     /\ nickname' = [nickname EXCEPT ![me] = n]

NickInUse(n) == Calling("NICK") /\ nick_mp[n] # NoConn /\ Throw("NICKCOLLISION")

MutantNick(n) ==   \* keeps the old name reserved
  /\ Calling("NICK")
  /\ nick_mp[n] = NoConn
  /\ nick_mp' = [nick_mp EXCEPT ![n] = me]
  /\ ChangeNick(n)
  /\ UNCHANGED <<rooms, socks, up>>

(* The old name is given up and the new one taken before changeNick looks   *)
(* at the new one.                                                          *)
Nick(n) ==
  /\ Calling("NICK")
  /\ nick_mp[n] = NoConn
  /\ nick_mp' = [k \in AllNick |->
                   IF k = n THEN me
                   ELSE IF "NICK" \in status[me] /\ k = nickname[me] THEN NoConn
                   ELSE nick_mp[k]]
  /\ ChangeNick(n)
  /\ UNCHANGED <<rooms, socks, up>>

User ==
  /\ Calling("USER")
  /\ \/ "WELCOME" \in status[me] /\ Throw("ALREADYREGISTRED")
     \/ /\ "WELCOME" \notin status[me]
        /\ LET st == status[me] \cup {"USER"} IN
           /\ status' = [status EXCEPT ![me] = Regist(st)]
           /\ out' = Welcome(st, nickname[me])
        /\ UNCHANGED <<nickname, nick_mp, rooms, socks, up>>

Quit == Calling("QUIT") /\ Disconnect(serving)

-----------------------------------------------------------------------------
(* JOIN, PART, TOPIC, NAMES.                                                *)

TopicReply(ch) == IF topic[ch] = NoTopic THEN "RPL_NOTOPIC" ELSE "RPL_TOPIC"

NamesReply(us) ==
  Reply("ENDOFNAMES", nickname[me]) \cup
  (IF Refs(us) = {} THEN {} ELSE Reply("NAMREPLY", nickname[me]))

(* Database::getchannel makes the channel; its constructor may throw.       *)
GetChannel(ch) == ch \in Channel /\ channels' = channels \cup {ch}

BadName(cmd, ch) == Calling(cmd) /\ ch \in BadChannel /\ Throw("NOSUCHCHANNEL")

(* unordered_map::emplace keeps an entry that is already there.             *)
Added(us, f, c) == [us EXCEPT ![f] = IF @ = NoConn THEN c ELSE @]

Join(ch) ==
  /\ Calling("JOIN")
  /\ GetChannel(ch)
  /\ joined' = [joined EXCEPT ![me] = @ \cup {ch}]
  /\ LET us == Added(users[ch], serving, me) IN
     /\ users' = [users EXCEPT ![ch] = us]
     /\ out' = Broadcast(us, Fd, "JOIN", nickname[me])
                 \cup Reply(TopicReply(ch), ch)     \* `name', not the nickname
                 \cup NamesReply(us)
     /\ Deref(Refs(us))
  /\ UNCHANGED <<topic, account, socks>>

NoChannel(cmd, ch) ==
  Calling(cmd) /\ ch \notin channels /\ Throw("NOSUCHCHANNEL")

NotOnChannel(cmd, ch) ==
  /\ Calling(cmd) /\ ch \in channels /\ ch \notin joined[me]
  /\ Throw("NOTONCHANNEL")

MutantPart(ch) ==   \* Client::channels keeps the channel
  /\ Calling("PART") /\ ch \in channels /\ ch \in joined[me]
  /\ Deref({users[ch][serving]})
  /\ out' = Broadcast(users[ch], Fd, "PART", nickname[me])
  /\ users' = [users EXCEPT ![ch][serving] = NoConn]
  /\ UNCHANGED <<joined, channels, topic, account, socks>>

MutantPartKeepsUser(ch) ==   \* Channel::users keeps the client
  /\ Calling("PART") /\ ch \in channels /\ ch \in joined[me]
  /\ Deref({users[ch][serving]})
  /\ out' = Broadcast(users[ch], Fd, "PART", nickname[me])
  /\ joined' = [joined EXCEPT ![me] = @ \ {ch}]
  /\ UNCHANGED <<users, channels, topic, account, socks>>

(* Channel::del reads the nickname through users.find(connfd).              *)
Part(ch) ==
  /\ Calling("PART") /\ ch \in channels /\ ch \in joined[me]
  /\ joined' = [joined EXCEPT ![me] = @ \ {ch}]
  /\ LET o == users[ch][serving] IN
     /\ Deref({o})
     /\ \E n \in (IF o \in Live THEN {nickname[o]} ELSE AllNick) :
          out' = Broadcast(users[ch], Fd, "PART", n)
  /\ users' = [users EXCEPT ![ch][serving] = NoConn]
  /\ UNCHANGED <<channels, topic, account, socks>>

TopicGet(ch) ==
  /\ Calling("TOPIC") /\ ch \in channels /\ ch \in joined[me]
  /\ out' = Reply(TopicReply(ch), nickname[me])
  /\ UNCHANGED <<account, rooms, socks, up>>

TopicSet(ch, t) ==
  /\ Calling("TOPIC") /\ ch \in channels /\ ch \in joined[me]
  /\ topic' = [topic EXCEPT ![ch] = t]
  /\ out' = Broadcast(users[ch], Fd, "TOPIC", nickname[me])
  /\ UNCHANGED <<joined, channels, users, account, socks, up>>

Names(ch) ==
  /\ Calling("NAMES")
  /\ GetChannel(ch)
  /\ out' = NamesReply(users[ch])
  /\ Deref(Refs(users[ch]))
  /\ UNCHANGED <<joined, topic, users, account, socks>>

NamesAll ==
  /\ Calling("NAMES")
  /\ out' = UNION {NamesReply(users[ch]) : ch \in channels}
  /\ Deref(UNION {Refs(users[ch]) : ch \in channels})
  /\ UNCHANGED <<account, rooms, socks>>

-----------------------------------------------------------------------------
(* LIST, PRIVMSG, PING, USERS, which change no map.                         *)

Answer(cmd, msgs) ==
  Calling(cmd) /\ out' = msgs /\ UNCHANGED <<account, rooms, socks, up>>

List(chs) ==
  Answer("LIST", Reply("LISTSTART", nickname[me]) \cup Reply("LISTEND", nickname[me])
    \cup (IF chs \cap channels = {} THEN {} ELSE Reply("LIST", nickname[me])))

PrivmsgIncomplete(err) == Calling("PRIVMSG") /\ Throw(err)

Privmsg(ch) ==
  \/ Calling("PRIVMSG") /\ ch \notin channels /\ Throw("NOSUCHNICK")
  \/ /\ ch \in channels
     /\ Answer("PRIVMSG",
               Broadcast(users[ch], Fd \ {serving}, "PRIVMSG", nickname[me]))

Ping == Answer("PING", Reply("PONG", NoNick))
PingNoOrigin == Calling("PING") /\ Throw("NOORIGIN")

(* The lines are formatted into a buffer that is too short for them, which  *)
(* comes from new[] and goes to free: undefined, before anything is sent.   *)
Users ==
  \/ Answer("USERS", Reply("USERSSTART", NoNick) \cup Reply("USERS", NoNick))
  \/ /\ Calling("USERS")
     /\ up' = FALSE
     /\ out' = {}
     /\ UNCHANGED <<account, rooms, socks>>

-----------------------------------------------------------------------------

Init ==
  /\ fresh = Conn
  /\ clients = [f \in Fd |-> NoConn]
  /\ status = [c \in Conn |-> {}]
  /\ nickname = [c \in Conn |-> NoNick]
  /\ joined = [c \in Conn |-> {}]
  /\ nick_mp = [n \in AllNick |-> NoConn]
  /\ channels = {}
  /\ topic = [ch \in Channel |-> NoTopic]
  /\ users = [ch \in Channel |-> [f \in Fd |-> NoConn]]
  /\ serving = NoFd
  /\ up = TRUE
  /\ out = {}

Connection ==
  \/ \E c \in Conn, f \in Fd : Accept(c, f)
  \/ \E f \in Fd : ReadInput(f) \/ ReadEof(f)
  \/ EndOfBuffer

Refusal ==
  \/ UnknownCommand
  \/ CallWithoutClient
  \/ \E cmd \in cmds : NotRegistered(cmd) \/ NeedMoreParams(cmd)
  \/ \E n \in AllNick : NickInUse(n)
  \/ \E cmd \in {"JOIN", "NAMES"}, ch \in BadChannel : BadName(cmd, ch)
  \/ \E cmd \in {"PART", "TOPIC"}, ch \in AllChan :
       NoChannel(cmd, ch) \/ NotOnChannel(cmd, ch)
  \/ Calling("NICK") /\ Throw("NONICKNAMEGIVEN")
  \/ \E err \in {"NORECIPIENT", "NOTEXTTOSEND"} : PrivmsgIncomplete(err)
  \/ PingNoOrigin

Command ==
  \/ \E n \in AllNick : Nick(n)
  \/ User
  \/ Quit
  \/ \E ch \in Channel :
       \/ Join(ch) \/ Part(ch) \/ TopicGet(ch) \/ Names(ch)
       \/ \E t \in Topic \cup {NoTopic} : TopicSet(ch, t)
  \/ NamesAll
  \/ List(Channel)
  \/ \E ch \in AllChan : Privmsg(ch) \/ List({ch})
  \/ Ping
  \/ Users

Next == Connection \/ Refusal \/ Command

Spec == Init /\ [][Next]_vars

-----------------------------------------------------------------------------
(* Properties.                                                              *)

(* Every variable has its type. A client's nickname is one that changeNick  *)
(* accepts, and a Client object that accept has not made holds nothing.     *)
TypeOK ==
  /\ fresh \subseteq Conn
  /\ clients \in [Fd -> Conn \cup {NoConn}]
  /\ status \in [Conn -> SUBSET {"NICK", "USER", "WELCOME"}]
  /\ nickname \in [Conn -> GoodNick \cup {NoNick}]
  /\ joined \in [Conn -> SUBSET Channel]
  /\ nick_mp \in [AllNick -> Conn \cup {NoConn}]
  /\ channels \subseteq Channel
  /\ topic \in [Channel -> Topic \cup {NoTopic}]
  /\ users \in [Channel -> [Fd -> Conn \cup {NoConn}]]
  /\ serving \in Fd \cup {NoFd}
  /\ up \in BOOLEAN
  /\ out \subseteq Msg

(* A client that believes to be in a channel has an entry among the users   *)
(* of that channel: without it Channel::del dereferences users.end(), and   *)
(* the client gets nothing that is said there.                              *)
Membership ==
  \A f \in Fd : clients[f] # NoConn =>
    \A ch \in joined[clients[f]] : ch \in channels /\ users[ch][f] # NoConn

(* A connected client is welcomed exactly when it has given both NICK and   *)
(* USER, in either order and over any refused commands in between, and only *)
(* a welcomed client is in a channel.                                       *)
RegistrationComplete ==
  \A c \in Live :
    /\ "WELCOME" \in status[c] <=> {"NICK", "USER"} \subseteq status[c]
    /\ "NICK" \in status[c] <=> nickname[c] \in GoodNick
    /\ joined[c] # {} => "WELCOME" \in status[c]

(* A nickname that a client may bear is refused by NICK only while some     *)
(* connected client does bear it: no name leaks when clients rename, fail   *)
(* to rename or leave, although a failed rename corrupts nick_mp.           *)
NoLeakedNick ==
  \A n \in GoodNick : nick_mp[n] # NoConn =>
    nick_mp[n] \in Live /\ nickname[nick_mp[n]] = n

(* Channel::users comes to refer to a freed client only when the client     *)
(* disconnects from within the channel: who has parted from it leaves no    *)
(* reference behind, nor does a refusal, a rename or a descriptor that is   *)
(* used again, and nothing ever enters a client that is gone.               *)
StaleOnlyByLeaving ==
  [][\A ch \in Channel, f \in Fd :
       LET c == users'[ch][f] IN
       c # NoConn /\ c \notin Live' =>
         c = users[ch][f] /\ (c \in Live => ch \in joined[c])]_vars

(* The clients that this step sends a PRIVMSG to.                           *)
Reached == {m.to : m \in {o \in out' : o.cmd = "PRIVMSG"}}

(* A PRIVMSG reaches every other connected client that has joined the       *)
(* channel, and not its sender, whatever stale users the channel holds.     *)
PrivmsgReachesMembers ==
  [][\A ch \in Channel : Privmsg(ch) =>
       /\ {c \in Live : ch \in joined[c]} \ {me} \subseteq Reached
       /\ me \notin Reached]_vars

(* The welcome messages come once: a client already welcomed never gets     *)
(* them again and stays welcomed until it disconnects, and the step that    *)
(* sends them is the one after which both NICK and USER are known.          *)
WelcomeOnce ==
  [][\A c \in Live :
       /\ "WELCOME" \in status[c] =>
            /\ \A m \in out' : m.to = c => m.cmd # "WELCOME"
            /\ "WELCOME" \in status'[c] \/ c \notin Live'
       /\ (\E m \in out' : m.to = c /\ m.cmd = "WELCOME") =>
            {"NICK", "USER"} \subseteq status'[c]]_vars

(* What the homework's README asks for and the code does not keep.          *)

(* README: "(436) ERR_NICKCOLLISION", "NICK Kilac // Kilac already used by  *)
(* another one": two connected clients never bear the same nickname.        *)
NickUnique ==
  \A c, d \in Live : nickname[c] # NoNick /\ nickname[c] = nickname[d] => c = d

(* README: a PRIVMSG is "delivered to all users in the channel", and so to  *)
(* nobody who is not in it.                                                 *)
PrivmsgOnlyToMembers ==
  [][\A ch \in Channel : Privmsg(ch) =>
       \A c \in Reached : ch \in joined[c]]_vars

(* README: "<nickname> is required when it is known for an associated       *)
(* connection" in every numeric reply.                                      *)
ReplyCarriesNickname ==
  [][\A m \in out' :
       /\ m.cmd \in RPL \cup ERR
       /\ m.to \in Live /\ "WELCOME" \in status[m.to]
       => m.nick = nickname[m.to]]_vars
=============================================================================
