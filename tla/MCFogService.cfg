SPECIFICATION Spec
SYMMETRY MCPhones
CONSTANTS
    phone1 = phone1
    phone2 = phone2
    Conn <- MCConn
    Main = Main
    Mac = Mac
    NoOne = NoOne
    MaxAdrift = 2
    MaxRestarts = 1
INVARIANTS
    TypeOK
    CredentialsMatch
    
CHECK_DEADLOCK FALSE
